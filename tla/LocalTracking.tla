---------------------------- MODULE LocalTracking ----------------------------
(***************************************************************************)
(* Local take-profit tracking of Kuantra: plans that live as events of the *)
(* evidence ledger (backend/app/services/local_tracking.py), the monitor   *)
(* that polls one shared quote and lets the plans close against it         *)
(* (local_tracking_monitor.py), and the journal edits of a trade that save *)
(* its plan too, or reset it (trade_edit.py, sqlite_driver.py).            *)
(*                                                                         *)
(* A client loads a trade and its plan, and submits later; the transaction *)
(* of the submission is one step.  The monitor lists the plans, fetches a  *)
(* quote and then lets each plan observe it, one transaction per plan;     *)
(* clients commit between any two of these steps.                          *)
(*                                                                         *)
(* Trades are long, their prices are levels around an entry at level 0     *)
(* (a short is the mirror image), and all plans watch the same quote.      *)
(* Time is a clock that several events may share.                          *)
(***************************************************************************)
EXTENDS Integers, Sequences, FiniteSets, SequencesExt

CONSTANTS
    Trades,         \* the tracked trades, in the order service.list returns them
    Clients,        \* workers of the request pool
    Quantities,     \* sizes a trade may have
    Plans,          \* what a client may ask for: targets, stop, enabled
    Prices,         \* levels the quote may take
    Requests,       \* what clients ask for: "plan", "manual", "edit", "close", "unit"
    MaxAge,         \* a quote is usable for 60 seconds
    MaxLead,        \* the provider's clock may lead
    Tolerance,      \* the lead that is still accepted, 5 seconds
    MaxClock,       \* bound: time
    MaxEvents,      \* bound: tracking events of a trade a client adds to
    MaxRevision,    \* bound: revisions of a trade row
    NoPlan, NoStop, NoQuote, AnyRevision

TradeSet == {Trades[i] : i \in DOMAIN Trades}
TP       == <<"TP1", "TP2", "TP3">>

\* Targets go up from the entry and share out the whole quantity.
IsPlan(p) ==
    /\ p.enabled \in BOOLEAN
    /\ p.stop # NoStop => p.stop < 0
    /\ p.targets \in Seq([price : Int, percent : Int])
    /\ Len(p.targets) =< Len(TP)
    /\ \A i \in DOMAIN p.targets :
          p.targets[i].percent > 0 /\ p.targets[i].price > (IF i = 1 THEN 0 ELSE p.targets[i - 1].price)
    /\ p.targets # <<>> => FoldFunction(LAMBDA target, n : target.percent + n, 0, p.targets) = 100

ASSUME TrackingAssumption ==
    /\ \A p \in Plans : IsPlan(p)
    /\ \A q \in Quantities : q \in Nat \ {0}
    /\ {MaxAge, MaxLead, Tolerance, MaxClock, MaxEvents, MaxRevision} \subseteq Nat
    /\ AnyRevision \notin Nat

VARIABLES
    trade,          \* the trades table: quantity, whether its unit is known, status, revision
    history,        \* the tracking events of each trade in the ledger
    client,         \* what each client has loaded and asks for
    monitor,        \* the poll in progress
    quote,          \* what the provider answers
    clock

vars == <<trade, history, client, monitor, quote, clock>>

-----------------------------------------------------------------------------
(* Reading a plan: _load *)

Latest(h) == IF h = <<>> THEN NoPlan ELSE h[Len(h)].state

Revision(h) == IF h = <<>> THEN 0 ELSE Latest(h).rev

Resets(h) == Len(SelectSeq(h, LAMBDA e : e.reset))

\* A snapshot continues its predecessor; a reset starts afresh.
Continues(e, previous, i) ==
    /\ e.state.rev = previous.rev + 1
    /\ e.cause = i - 1
    /\ IsPrefix(previous.closures, e.state.closures)
    /\ e.state.initial = previous.initial

Restarts(e, h, i) ==
    /\ e.state.rev = 1
    /\ e.state.closures = <<>>
    /\ i > 1 => h[i - 1].state.closures = <<>>
    /\ e.cause = i - 1

\* _load takes a reset as it comes.
Loadable(h) ==
    \A i \in DOMAIN h :
        ~ h[i].reset => IF i = 1 THEN h[i].state.rev = 1 /\ h[i].cause = 0
                        ELSE Continues(h[i], h[i - 1].state, i)

\* history() looks at it.
Readable(h) ==
    \A i \in DOMAIN h :
        IF h[i].reset THEN Restarts(h[i], h, i)
        ELSE IF i = 1 THEN h[i].state.rev = 1 /\ h[i].cause = 0
        ELSE Continues(h[i], h[i - 1].state, i)

ClosedIds(s) == {s.closures[i].target : i \in DOMAIN s.closures}

Quantity(closures) == FoldFunction(LAMBDA closure, n : closure.qty + n, 0, closures)

ClosedQty(s) == Quantity(s.closures)

\* validate_snapshot
Valid(s) ==
    /\ s.rev >= 1
    /\ s.remaining \in 0..s.initial
    /\ ClosedQty(s) + s.remaining = s.initial
    /\ \A i \in DOMAIN s.closures : s.closures[i].qty > 0
    /\ Cardinality(ClosedIds(s)) = Len(s.closures)

-----------------------------------------------------------------------------
(* Recording a plan: _save *)

\* The idempotency key: the reset it begins with, if it does, and its revision.
Key(h, s, reset) == <<IF reset THEN Resets(h) + 1 ELSE 0, s.rev>>

Event(h, s, reset) == [key |-> Key(h, s, reset), reset |-> reset, cause |-> Len(h), state |-> s]

\* A second event of the same key is a conflict of identity.
Recordable(h, s, reset) ==
    /\ Valid(s)
    /\ \A i \in DOMAIN h : h[i].key # Key(h, s, reset)

Record(t, s, reset) == history' = [history EXCEPT ![t] = Append(@, Event(@, s, reset))]

-----------------------------------------------------------------------------
(* Editing a plan: edit_in_transaction *)

NewPlan(row) ==
    [rev |-> 0, initial |-> row.qty, remaining |-> row.qty, closures |-> <<>>,
     targets |-> <<>>, stop |-> NoStop, enabled |-> TRUE, armed |-> 0]

\* Faulty variant: a reset goes on counting the revisions of the old plan.
FaultyEdited(h, row, plan, reset) ==
    LET base == IF h # <<>> /\ ~reset THEN Latest(h) ELSE NewPlan(row)
    IN  [base EXCEPT !.targets = plan.targets, !.stop = plan.stop, !.enabled = plan.enabled,
                     !.armed = clock, !.rev = Revision(h) + 1]

Edited(h, row, plan, reset) ==
    LET base == IF h # <<>> /\ ~reset THEN Latest(h) ELSE NewPlan(row)
    IN  [base EXCEPT !.targets = plan.targets, !.stop = plan.stop, !.enabled = plan.enabled,
                     !.armed = clock, !.rev = IF reset THEN 1 ELSE Revision(h) + 1]

\* Completed targets are immutable.
KeepsCompleted(s, plan) ==
    \A i \in DOMAIN s.targets :
        TP[i] \in ClosedIds(s) => i \in DOMAIN plan.targets /\ plan.targets[i] = s.targets[i]

\* Faulty variant: that nothing is closed yet was checked when the plan was read.
FaultyMayEdit(h, row, plan, expected, reset) ==
    /\ row.unit
    /\ expected \in {AnyRevision, Revision(h)}
    /\ row.status = "OPEN"
    /\ h # <<>> => Latest(h).remaining > 0 /\ (reset \/ KeepsCompleted(Latest(h), plan))

\* Faulty variant: the revision the client loaded is not compared.
FaultyMayEditStale(h, row, plan, expected, reset) ==
    /\ row.unit
    /\ row.status = "OPEN"
    /\ h # <<>> =>
          /\ Latest(h).remaining > 0
          /\ IF reset THEN Latest(h).closures = <<>> ELSE KeepsCompleted(Latest(h), plan)

MayEdit(h, row, plan, expected, reset) ==
    /\ row.unit
    /\ expected \in {AnyRevision, Revision(h)}
    /\ row.status = "OPEN"
    /\ h # <<>> =>
          /\ Latest(h).remaining > 0
          /\ IF reset THEN Latest(h).closures = <<>> ELSE KeepsCompleted(Latest(h), plan)

-----------------------------------------------------------------------------
(* Closing against a price: observe *)

Fresh(q)       == q.at - clock =< Tolerance /\ clock - q.at =< MaxAge
Usable(q, armed) == q # NoQuote /\ Fresh(q) /\ q.at > armed

LastClosedAt(s) == IF s.closures = <<>> THEN -1 ELSE s.closures[Len(s.closures)].at

Smaller(a, b) == IF a < b THEN a ELSE b

\* Faulty variant: completed targets are pending again.
FaultyPending(s) == DOMAIN s.targets

Pending(s) == {i \in DOMAIN s.targets : TP[i] \notin ClosedIds(s)}

Share(s, i) == (s.initial * s.targets[i].percent) \div 100

\* What a pending target closes once those before it are closed; the last takes
\* the rest.
Amount(s, i) ==
    LET before == MapThenSumSet(LAMBDA j : Share(s, j), {j \in Pending(s) : j < i})
        left   == IF before < s.remaining THEN s.remaining - before ELSE 0
    IN  IF \A j \in Pending(s) : j <= i THEN left ELSE Smaller(Share(s, i), left)

Stopped(s, price) == s.stop # NoStop /\ price =< s.stop

Closure(target, qty, at) == [target |-> target, qty |-> qty, at |-> at]

Reached(s, price) == {i \in Pending(s) : price >= s.targets[i].price}

\* The pending targets the price has reached, closed in one go if it gapped.
TargetClosures(s, q) ==
    LET hit(i) == IF i \in Reached(s, q.price) THEN <<Closure(TP[i], Amount(s, i), q.at)>> ELSE <<>>
    IN  hit(1) \o hit(2) \o hit(3)

NewClosures(s, q) ==
    IF Stopped(s, q.price) THEN <<Closure("SL", s.remaining, q.at)>> ELSE TargetClosures(s, q)

Closed(s, added) ==
    [s EXCEPT !.closures = @ \o added, !.remaining = @ - Quantity(added), !.rev = @ + 1]

Closes(s, price) == Stopped(s, price) \/ Reached(s, price) # {}

\* The trade still is what the plan was made for.
Matches(s, row) == row.qty = s.initial

Observable(h, row) == h # <<>> /\ row.status = "OPEN" /\ Latest(h).remaining > 0

\* Faulty variant: the quote is only compared with the plan the monitor listed.
FaultyWillClose(s, q) == s.enabled /\ q.at > LastClosedAt(s) /\ Closes(s, q.price)

WillClose(s, q) ==
    /\ s.enabled
    /\ Usable(q, s.armed)
    /\ q.at > LastClosedAt(s)
    /\ Closes(s, q.price)

-----------------------------------------------------------------------------
(* Requests *)

Idle == [kind |-> "idle"]

\* What the client has before it: the row, the plan's revision and, to tell
\* whether it is still the same plan, how many events there were.
Loaded(kind, t, plan, expected, reset, qty) ==
    [kind |-> kind, trade |-> t, row |-> trade[t].rev, seen |-> Len(history[t]),
     plan |-> plan, expected |-> expected, reset |-> reset, qty |-> qty]

Ask(c, kind, t) ==
    /\ kind \in Requests
    /\ client[c] = Idle
    /\ Len(history[t]) < MaxEvents

Send(c, r) ==
    /\ client' = [client EXCEPT ![c] = r]
    /\ UNCHANGED <<trade, history, monitor, quote, clock>>

\* The editor of the plan (PUT tracking).
AskPlan(c, t) ==
    /\ Ask(c, "plan", t)
    /\ \E plan \in Plans : Send(c, Loaded("plan", t, plan, Revision(history[t]), FALSE, trade[t].qty))

\* The local close button.
AskManual(c, t) ==
    /\ Ask(c, "manual", t)
    /\ history[t] # <<>>
    /\ Send(c, Loaded("manual", t, NoPlan, Revision(history[t]), FALSE, trade[t].qty))

PlanOf(s) == [targets |-> s.targets, stop |-> s.stop, enabled |-> s.enabled]

\* The plan with the stop of the journal, and its target if it is the only one and
\* still pending.
Redrawn(s) ==
    {[PlanOf(s) EXCEPT !.stop = p.stop,
                       !.targets = IF /\ Len(s.targets) = 1 /\ TP[1] \notin ClosedIds(s)
                                      /\ Len(p.targets) = 1
                                   THEN p.targets ELSE @] : p \in Plans \cup {PlanOf(s)}}

\* TradeEditService.edit, for a trade that is open or opened again by it, reads the
\* plan before the transaction.  What it leaves alone is not saved; a plan of the
\* client's own is saved over the revision the client knows; under a new size the
\* old one is reset, whatever its revision by then.
AskEdit(c, t) ==
    /\ Ask(c, "edit", t)
    /\ trade[t].rev < MaxRevision
    /\ \E qty \in Quantities :
          LET h     == history[t]
              sized == qty # trade[t].qty
              Edit(plan, expected, reset) == Send(c, Loaded("edit", t, plan, expected, reset, qty))
          IN  \/ /\ ~ sized \/ h = <<>>
                 /\ Edit(NoPlan, AnyRevision, FALSE)
              \/ \E plan \in Plans : /\ h # <<>> => plan # PlanOf(Latest(h))
                                     /\ Edit(plan, Revision(h), sized)
              \/ /\ h # <<>>
                 /\ sized => Latest(h).closures = <<>>
                 /\ \E plan \in Redrawn(Latest(h)) :
                       /\ ~ sized => plan # PlanOf(Latest(h))
                       /\ Edit(plan, IF sized THEN AnyRevision ELSE Revision(h), sized)

Reply(c) == client' = [client EXCEPT ![c] = Idle]

\* LocalTrackingService.edit
SubmitPlan(c) ==
    LET r == client[c]
        h == history[r.trade]
        s == Edited(h, trade[r.trade], r.plan, FALSE)
    IN  /\ r.kind = "plan"
        /\ Reply(c)
        /\ IF MayEdit(h, trade[r.trade], r.plan, r.expected, FALSE) /\ Recordable(h, s, FALSE)
           THEN Record(r.trade, s, FALSE)
           ELSE UNCHANGED history
        /\ UNCHANGED <<trade, monitor, quote, clock>>

\* observe with manual=True
SubmitManual(c) ==
    LET r == client[c]
        h == history[r.trade]
        s == Closed(Latest(h), <<Closure("MANUAL", Latest(h).remaining, clock)>>)
    IN  /\ r.kind = "manual"
        /\ Reply(c)
        /\ IF /\ Revision(h) = r.expected
              /\ Observable(h, trade[r.trade])
              /\ trade[r.trade].unit
              /\ Matches(Latest(h), trade[r.trade])
              /\ Recordable(h, s, FALSE)
           THEN Record(r.trade, s, FALSE)
           ELSE UNCHANGED history
        /\ UNCHANGED <<trade, monitor, quote, clock>>

\* record_trade_with_evidence: the row and the plan change together or not at all.
SubmitEdit(c) ==
    LET r   == client[c]
        h   == history[r.trade]
        row == [trade[r.trade] EXCEPT !.qty = r.qty, !.status = "OPEN", !.rev = @ + 1]
        s   == Edited(h, row, r.plan, r.reset)
        saves == r.plan # NoPlan
    IN  /\ r.kind = "edit"
        /\ Reply(c)
        /\ IF /\ trade[r.trade].rev = r.row
              /\ saves => MayEdit(h, row, r.plan, r.expected, r.reset) /\ Recordable(h, s, r.reset)
           THEN /\ trade' = [trade EXCEPT ![r.trade] = row]
                /\ IF saves THEN Record(r.trade, s, r.reset) ELSE UNCHANGED history
           ELSE UNCHANGED <<trade, history>>
        /\ UNCHANGED <<monitor, quote, clock>>

\* The journal closes or cancels a trade, or corrects one that is; the same edit may
\* change its size, and does not look at the plan.
CloseTrade(t) ==
    /\ "close" \in Requests
    /\ trade[t].rev < MaxRevision
    /\ \E qty \in Quantities :
          trade' = [trade EXCEPT ![t].qty = qty, ![t].status = "ENDED", ![t].rev = @ + 1]
    /\ UNCHANGED <<history, client, monitor, quote, clock>>

\* The catalog comes to list the instrument, or fails to answer; or the user declares
\* the unit, or takes it back, in an edit that follows.
TurnUnit(t) ==
    /\ "unit" \in Requests
    /\ trade' = [trade EXCEPT ![t].unit = ~ @]
    /\ UNCHANGED <<history, client, monitor, quote, clock>>

-----------------------------------------------------------------------------
(* The monitor *)

Waiting              == [phase |-> "waiting"]
Fetching(group)      == [phase |-> "fetching", group |-> group]
Observing(todo, q)   == [phase |-> "observing", todo |-> todo, obs |-> q]

Listed(t) ==
    LET h == history[t] IN
    /\ Observable(h, trade[t])
    /\ Matches(Latest(h), trade[t])
    /\ Latest(h).enabled
    /\ Latest(h).targets # <<>> \/ Latest(h).stop # NoStop

\* service.list, which says of a plan without a unit that it has none: the poll takes
\* it all the same.  One history that doesn't load fails the whole poll.
List ==
    /\ monitor = Waiting
    /\ \A t \in TradeSet : Loadable(history[t])
    /\ LET group == SelectSeq(Trades, Listed) IN
          /\ group # <<>>
          /\ monitor' = Fetching([i \in DOMAIN group |->
                            [trade |-> group[i], armed |-> Latest(history[group[i]]).armed]])
    /\ UNCHANGED <<trade, history, client, quote, clock>>

Fetch ==
    /\ monitor.phase = "fetching"
    /\ LET g == monitor.group IN
          monitor' = IF \E i \in DOMAIN g : Usable(quote, g[i].armed)
                     THEN Observing([i \in DOMAIN g |-> g[i].trade], quote)
                     ELSE Waiting
    /\ UNCHANGED <<trade, history, client, quote, clock>>

\* Faulty variant: one observation ends the poll.
FaultyObserved == Waiting

Observed == IF Len(monitor.todo) = 1 THEN Waiting ELSE [monitor EXCEPT !.todo = Tail(@)]

\* observe for the next trade of the group; an exception ends the poll.
Observe ==
    /\ monitor.phase = "observing"
    /\ LET t == Head(monitor.todo)
           h == history[t]
       IN  IF ~Observable(h, trade[t]) \/ ~trade[t].unit
           THEN monitor' = Observed /\ UNCHANGED history
           ELSE IF ~Matches(Latest(h), trade[t])
           THEN monitor' = Waiting /\ UNCHANGED history
           ELSE IF ~WillClose(Latest(h), monitor.obs)
           THEN monitor' = Observed /\ UNCHANGED history
           ELSE \E s \in {Closed(Latest(h), NewClosures(Latest(h), monitor.obs))} :
                   IF ~Recordable(h, s, FALSE)
                   THEN monitor' = Waiting /\ UNCHANGED history
                   ELSE Record(t, s, FALSE) /\ monitor' = Observed
    /\ UNCHANGED <<trade, client, quote, clock>>

\* Time passes; the provider may have a newer quote.
Tick ==
    /\ clock < MaxClock
    /\ clock' = clock + 1
    /\ quote' \in {quote, NoQuote} \cup [price : Prices, at : clock' .. clock' + MaxLead]
    /\ UNCHANGED <<trade, history, client, monitor>>

-----------------------------------------------------------------------------
Init ==
    /\ trade \in [TradeSet -> [qty : Quantities, unit : {TRUE}, status : {"OPEN"}, rev : 1..MaxRevision]]
    /\ history = [t \in TradeSet |-> <<>>]
    /\ client = [c \in Clients |-> Idle]
    /\ monitor = Waiting
    /\ quote = NoQuote
    /\ clock = 0

Submit(c) == SubmitPlan(c) \/ SubmitManual(c) \/ SubmitEdit(c)

Poll == List \/ Fetch \/ Observe

Next ==
    \/ \E c \in Clients, t \in TradeSet : AskPlan(c, t) \/ AskManual(c, t) \/ AskEdit(c, t)
    \/ \E c \in Clients : Submit(c)
    \/ \E t \in TradeSet : CloseTrade(t) \/ TurnUnit(t)
    \/ Poll
    \/ Tick

Spec == Init /\ [][Next]_vars

\* The monitor polls for as long as the application runs, and the provider answers.
FairSpec == Spec /\ WF_vars(Poll)

-----------------------------------------------------------------------------
(* Properties *)

TypeOK ==
    /\ \A t \in TradeSet :
          /\ trade[t] \in [qty : Quantities, unit : BOOLEAN, status : {"OPEN", "ENDED"}, rev : 1..MaxRevision + 1]
          /\ Len(history[t]) =< MaxEvents + Cardinality(Clients) + Len(TP)
          /\ \A i \in DOMAIN history[t] :
                history[t][i].reset \in BOOLEAN /\ history[t][i].state.armed \in 0..clock
    /\ \A c \in Clients : client[c].kind \in {"idle"} \cup Requests
    /\ \/ monitor = Waiting
       \/ monitor.phase = "fetching" /\ monitor.group # <<>>
       \/ monitor.phase = "observing" /\ monitor.todo # <<>> /\ monitor.obs # NoQuote
    /\ clock \in 0..MaxClock
    /\ quote # NoQuote => quote.price \in Prices /\ quote.at =< clock + MaxLead

\* The tracking events of a trade always form a history that _load and history()
\* accept: whatever clients, resets and the monitor interleave, no plan ever
\* becomes unreadable (local_tracking.py: "Broken tracking revision lineage").
LineageSound == \A t \in TradeSet : Loadable(history[t]) /\ Readable(history[t])

\* Close evidence is for ever: once a part of a position is recorded as closed,
\* no later edit, size correction or close drops or rewrites it.
ClosuresKept ==
    [][\A t \in TradeSet :
          history[t] # <<>> => IsPrefix(Latest(history[t]).closures, Latest(history'[t]).closures)]_vars

\* At whatever price the quote comes, the close that observe builds passes the
\* validator: no target closes twice, nothing closes more than what is left.
ClosesAreValid ==
    \A t \in TradeSet, price \in Prices :
        LET s     == Latest(history[t])
            added == NewClosures(s, [price |-> price, at |-> clock])
        IN  history[t] # <<>> /\ s.remaining > 0 /\ added # <<>> => Valid(Closed(s, added))

\* A target closes exactly the share that the current plan allots it, however
\* often the targets after it were edited and whichever quote closed it.
AllocationKept ==
    \A t \in TradeSet :
        LET s == Latest(history[t]) IN
        history[t] # <<>> =>
            \A i \in DOMAIN s.closures, j \in DOMAIN s.targets :
                s.closures[i].target = TP[j] =>
                    s.closures[i].qty * 100 = s.initial * s.targets[j].percent

\* A quote closes only what was armed before it: neither a quote fetched before
\* an edit nor one that already closed something closes the edited plan.
ClosedAfterArmed ==
    \A t \in TradeSet :
        LET h == history[t] IN
        \A i \in 2..Len(h) :
            LET old == h[i - 1].state
                new == h[i].state
            IN  Len(new.closures) > Len(old.closures) /\ "MANUAL" \notin ClosedIds(new)
                    => /\ LastClosedAt(new) > old.armed
                       /\ LastClosedAt(new) > LastClosedAt(old)
                       /\ old.enabled

\* "Tracking plan changed; reload before saving": a client that names the
\* revision it loaded replaces or closes only the very plan it loaded.
StalePlanRefused ==
    [][\A c \in Clients :
          LET r == client[c] IN
          r # Idle /\ client'[c] = Idle /\ r.expected # AnyRevision
              /\ history'[r.trade] # history[r.trade]
              => Len(history[r.trade]) = r.seen]_vars

\* "it starts a clean lineage": a plan with something left to close can always
\* be closed by hand; no key of an earlier event stands in the way.
NextIsRecordable ==
    \A t \in TradeSet :
        LET s == Latest(history[t]) IN
        history[t] # <<>> /\ s.remaining > 0 =>
            Recordable(history[t], Closed(s, <<Closure("MANUAL", s.remaining, clock)>>), FALSE)

\* The quote of the provider closes something of this trade.
Hit(t) ==
    /\ Observable(history[t], trade[t])
    /\ trade[t].unit
    /\ Matches(Latest(history[t]), trade[t])
    /\ WillClose(Latest(history[t]), quote)

\* The close that the quote asks of this trade cannot be recorded: its key is taken.
\* The observation raises, and the poll ends there, in every poll.
Stuck(t) ==
    /\ Hit(t)
    /\ ~ Recordable(history[t], Closed(Latest(history[t]), NewClosures(Latest(history[t]), quote)), FALSE)

\* A quote that has reached a target or a stop does not stand there unused: the
\* monitor gets round to every trade, past those before it that are withdrawn,
\* resized, closed or not reached, unless the close of one of them, or its own,
\* cannot be recorded.  Such a plan ends every poll and starves the trades after
\* it (local_tracking_monitor.py: the loop over groups[key] in poll, and _run).
HitIsTaken ==
    \A i \in DOMAIN Trades :
        []<>(~ Hit(Trades[i]) \/ \E j \in 1..i : Stuck(Trades[j]))

\* The same without the exception.  No run checks it: a stuck plan breaks it.
NoTradeStarves == \A i \in 2..Len(Trades) : []<>~ (Hit(Trades[i]) /\ ~ Stuck(Trades[i]))

\* However edits, size corrections, quotes and closes of a position interleave,
\* its plan stays readable and every part of it is closed once, as the plan in
\* force allotted it, by a quote that came after the plan was armed.
TrackingSound == LineageSound /\ ClosesAreValid /\ AllocationKept /\ ClosedAfterArmed
=============================================================================
