------------------------- MODULE LocalTrackingProofs -------------------------
(***************************************************************************)
(* Proofs about LocalTracking, for any trades, clients, plans, prices and  *)
(* bounds.                                                                 *)
(*                                                                         *)
(* A history is good when it reads back, its states have their shape, and  *)
(* every automatic close in it came after what it closed was armed.  Each  *)
(* of the four ways to record an event extends a good history to a good    *)
(* one; nothing else touches a history.                                    *)
(***************************************************************************)
EXTENDS LocalTracking, SequenceTheorems, TLAPS

StateFields == {"rev", "initial", "remaining", "closures", "targets", "stop", "enabled", "armed"}

IsSeq(s) == s \in Seq({s[i] : i \in DOMAIN s})

PlanOk(p) == DOMAIN p.targets \subseteq {1, 2, 3}

StateOk(s) ==
    /\ StateFields \subseteq DOMAIN s
    /\ s.rev \in Nat
    /\ IsSeq(s.closures)
    /\ PlanOk(s)

\* What ClosedAfterArmed says of two neighbours.
Timely(old, new) ==
    Len(new.closures) > Len(old.closures) /\ "MANUAL" \notin ClosedIds(new)
        => LastClosedAt(new) > old.armed /\ LastClosedAt(new) > LastClosedAt(old) /\ old.enabled

HistoryOk(h) ==
    /\ IsSeq(h)
    /\ \A i \in DOMAIN h : h[i].reset \in BOOLEAN /\ StateOk(h[i].state)
    /\ Readable(h)
    /\ \A i \in 2 .. Len(h) : Timely(h[i - 1].state, h[i].state)

\* What a state must be to be recorded after a good history.
Follows(h, s, reset) ==
    /\ StateOk(s)
    /\ s.rev = IF reset THEN 1 ELSE Revision(h) + 1
    /\ reset => s.closures = <<>>
    /\ h # <<>> =>
          /\ reset => Latest(h).closures = <<>>
          /\ IsPrefix(Latest(h).closures, s.closures)
          /\ ~ reset => s.initial = Latest(h).initial
          /\ Timely(Latest(h), s)

ClientOk(r) ==
    /\ r.kind = "plan" => PlanOk(r.plan)
    /\ r.kind = "edit" => r.reset \in BOOLEAN /\ (r.plan # NoPlan => PlanOk(r.plan))

TrackingInv ==
    /\ history = [t \in TradeSet |-> history[t]]
    /\ \A t \in TradeSet : HistoryOk(history[t])
    /\ client = [c \in Clients |-> client[c]]
    /\ \A c \in Clients : ClientOk(client[c])

-----------------------------------------------------------------------------
(* Sequences *)

LEMMA SeqOver ==
    ASSUME NEW S, NEW s \in Seq(S)
    PROVE  IsSeq(s)
<1>1. \A i \in 1 .. Len(s) : s[i] \in {s[j] : j \in DOMAIN s}
  OBVIOUS
<1>2. Len(s) \in Nat /\ s = [i \in 1 .. Len(s) |-> s[i]]
  OBVIOUS
<1> QED
  BY <1>1, <1>2, IsASeq DEF IsSeq

LEMMA AppendFacts ==
    ASSUME NEW h, IsSeq(h), NEW e
    PROVE  /\ IsSeq(Append(h, e))
           /\ Len(h) \in Nat /\ DOMAIN h = 1 .. Len(h)
           /\ Len(Append(h, e)) = Len(h) + 1 /\ DOMAIN Append(h, e) = 1 .. Len(h) + 1
           /\ \A i \in 1 .. Len(h) : Append(h, e)[i] = h[i]
           /\ Append(h, e)[Len(h) + 1] = e
           /\ Append(h, e) # <<>>
<1> DEFINE S == {h[i] : i \in DOMAIN h} \cup {e}
<1>1. h \in Seq(S) /\ e \in S
  BY DEF IsSeq
<1>2. Append(h, e) \in Seq(S)
  BY <1>1
<1>3. IsSeq(Append(h, e))
  BY <1>2, SeqOver
<1>4. Len(h) \in Nat /\ DOMAIN h = 1 .. Len(h)
  BY DEF IsSeq
<1>5. /\ Len(Append(h, e)) = Len(h) + 1 /\ DOMAIN Append(h, e) = 1 .. Len(h) + 1
      /\ \A i \in 1 .. Len(h) : Append(h, e)[i] = h[i]
      /\ Append(h, e)[Len(h) + 1] = e
  BY <1>1, <1>4
<1>6. Append(h, e) # <<>>
  BY <1>4, <1>5
<1> QED
  BY <1>3, <1>4, <1>5, <1>6

LEMMA ConcatFacts ==
    ASSUME NEW a, IsSeq(a), NEW b, IsSeq(b)
    PROVE  /\ IsSeq(a \o b)
           /\ Len(a) \in Nat /\ Len(b) \in Nat /\ Len(a \o b) = Len(a) + Len(b)
           /\ DOMAIN (a \o b) = 1 .. Len(a) + Len(b)
           /\ \A i \in 1 .. Len(a) : (a \o b)[i] = a[i]
           /\ \A i \in 1 .. Len(b) : (a \o b)[Len(a) + i] = b[i]
           /\ IsPrefix(a, a \o b)
<1> DEFINE S == {a[i] : i \in DOMAIN a} \cup {b[i] : i \in DOMAIN b}
<1>1. a \in Seq(S) /\ b \in Seq(S)
  BY DEF IsSeq
<1>2. a \o b \in Seq(S)
  BY <1>1
<1>3. IsSeq(a \o b)
  BY <1>2, SeqOver
<1>4. Len(a) \in Nat /\ Len(b) \in Nat /\ Len(a \o b) = Len(a) + Len(b)
  BY <1>1
<1>5. DOMAIN (a \o b) = 1 .. Len(a) + Len(b)
  BY <1>1, <1>2, <1>4
<1>6. \A i \in 1 .. Len(a) : (a \o b)[i] = a[i]
  BY <1>1, <1>4
<1>7. \A i \in 1 .. Len(b) : (a \o b)[Len(a) + i] = b[i]
  BY <1>1, <1>4
<1>8. SubSeq(a, 1, Len(a)) = SubSeq(a \o b, 1, Len(a))
  BY <1>1, <1>2, <1>4, <1>6
<1>9. IsPrefix(a, a \o b)
  BY <1>4, <1>8 DEF IsPrefix
<1> QED
  BY <1>3, <1>4, <1>5, <1>6, <1>7, <1>9

-----------------------------------------------------------------------------
(* Extending a history *)

\* _save after _load: the event a good state makes keeps the history good.
LEMMA RecordKeepsGood ==
    ASSUME NEW h, HistoryOk(h), NEW s, NEW reset \in BOOLEAN, Follows(h, s, reset)
    PROVE  HistoryOk(Append(h, Event(h, s, reset)))
<1> DEFINE e == Event(h, s, reset)
           g == Append(h, e)
<1>0. e.reset = reset /\ e.cause = Len(h) /\ e.state = s
  BY DEF Event
<1>1. IsSeq(h)
  BY DEF HistoryOk
<1> HIDE DEF e
<1>2. /\ IsSeq(g)
      /\ Len(h) \in Nat /\ DOMAIN h = 1 .. Len(h)
      /\ Len(g) = Len(h) + 1 /\ DOMAIN g = 1 .. Len(h) + 1
      /\ \A i \in 1 .. Len(h) : g[i] = h[i]
      /\ g[Len(h) + 1] = e
  BY <1>1, AppendFacts
<1> HIDE DEF g
<1>3. ASSUME NEW i \in DOMAIN g PROVE g[i].reset \in BOOLEAN /\ StateOk(g[i].state)
  <2>1. CASE i \in 1 .. Len(h)
    BY <1>2, <2>1 DEF HistoryOk
  <2>2. CASE i = Len(h) + 1
    BY <1>0, <1>2, <2>2 DEF Follows
  <2> QED
    BY <1>2, <2>1, <2>2
<1>4. h # <<>> => Len(h) >= 1 /\ Latest(h) = h[Len(h)].state
  BY <1>1, <1>2 DEF Latest, IsSeq
<1>5. Readable(g)
  <2> SUFFICES ASSUME NEW i \in DOMAIN g
               PROVE  IF g[i].reset THEN Restarts(g[i], g, i)
                      ELSE IF i = 1 THEN g[i].state.rev = 1 /\ g[i].cause = 0
                      ELSE Continues(g[i], g[i - 1].state, i)
    BY DEF Readable
  <2>1. CASE i \in 1 .. Len(h)
    <3>1. IF h[i].reset THEN Restarts(h[i], h, i)
          ELSE IF i = 1 THEN h[i].state.rev = 1 /\ h[i].cause = 0
          ELSE Continues(h[i], h[i - 1].state, i)
      BY <1>2, <2>1 DEF HistoryOk, Readable
    <3>2. g[i] = h[i] /\ (i > 1 => g[i - 1] = h[i - 1])
      BY <1>2, <2>1
    <3>3. i > 1 \/ i = 1
      BY <1>2, <2>1
    <3> QED
      BY <3>1, <3>2, <3>3 DEF Restarts, Continues
  <2>2. CASE i = Len(h) + 1
    <3>1. g[i] = e /\ i - 1 = Len(h)
      BY <1>2, <2>2
    <3>2. CASE h = <<>>
      <4>1. i = 1 /\ Len(h) = 0 /\ Revision(h) = 0
        BY <2>2, <3>2 DEF Revision
      <4>2. s.rev = 1
        BY <4>1 DEF Follows
      <4> QED
        BY <1>0, <3>1, <4>1, <4>2 DEF Follows, Restarts
    <3>3. CASE h # <<>>
      <4>1. i > 1 /\ i # 1 /\ g[i - 1] = h[Len(h)] /\ g[i - 1].state = Latest(h)
        BY <1>2, <1>4, <2>2, <3>1, <3>3
      <4>2. CASE reset
        BY <1>0, <3>1, <3>3, <4>1, <4>2 DEF Follows, Restarts
      <4>3. CASE ~ reset
        <5>1. s.rev = Latest(h).rev + 1
          BY <3>3, <4>3 DEF Follows, Revision
        <5> QED
          BY <1>0, <3>1, <3>3, <4>1, <4>3, <5>1 DEF Follows, Continues
      <4> QED
        BY <4>2, <4>3
    <3> QED
      BY <3>2, <3>3
  <2> QED
    BY <1>2, <2>1, <2>2
<1>6. ASSUME NEW i \in 2 .. Len(g) PROVE Timely(g[i - 1].state, g[i].state)
  <2>1. CASE i \in 2 .. Len(h)
    <3>1. Timely(h[i - 1].state, h[i].state)
      BY <2>1 DEF HistoryOk
    <3>2. i \in 1 .. Len(h) /\ i - 1 \in 1 .. Len(h)
      BY <1>2, <2>1
    <3>3. g[i] = h[i] /\ g[i - 1] = h[i - 1]
      BY <1>2, <3>2
    <3> QED
      BY <3>1, <3>3
  <2>2. CASE i = Len(h) + 1
    <3>1. h # <<>> /\ g[i - 1].state = Latest(h) /\ g[i].state = s
      <4>1. Len(h) >= 1
        BY <1>2, <2>2
      <4> QED
        BY <1>0, <1>2, <1>4, <2>2, <4>1
    <3> QED
      BY <3>1 DEF Follows
  <2> QED
    BY <1>2, <2>1, <2>2
<1>7. HistoryOk(g)
  BY <1>2, <1>3, <1>5, <1>6 DEF HistoryOk
<1> QED
  BY <1>7 DEF g, e

\* edit_in_transaction: an edit that is allowed follows the plan it edits.
LEMMA EditFollows ==
    ASSUME NEW h, HistoryOk(h), NEW row, NEW plan, PlanOk(plan), NEW expected, NEW reset \in BOOLEAN,
           MayEdit(h, row, plan, expected, reset)
    PROVE  Follows(h, Edited(h, row, plan, reset), reset)
<1> DEFINE base == IF h # <<>> /\ ~reset THEN Latest(h) ELSE NewPlan(row)
           s    == Edited(h, row, plan, reset)
<1>0. /\ IsSeq(h) /\ DOMAIN h = 1 .. Len(h) /\ Len(h) \in Nat
      /\ h # <<>> => StateOk(Latest(h))
  BY DEF HistoryOk, Latest, IsSeq
<1>1. Revision(h) \in Nat
  BY <1>0 DEF Revision, StateOk
<1>2. StateFields \subseteq DOMAIN base /\ IsSeq(base.closures)
  BY <1>0 DEF StateOk, StateFields, NewPlan, IsSeq
<1>3. s = [base EXCEPT !.targets = plan.targets, !.stop = plan.stop, !.enabled = plan.enabled,
                       !.armed = clock, !.rev = IF reset THEN 1 ELSE Revision(h) + 1]
  BY DEF Edited
<1> HIDE DEF s, base
<1>4. /\ DOMAIN s = DOMAIN base
      /\ s.closures = base.closures /\ s.initial = base.initial
      /\ s.targets = plan.targets /\ s.rev = IF reset THEN 1 ELSE Revision(h) + 1
  BY <1>2, <1>3 DEF StateFields
<1>5. StateOk(s)
  BY <1>1, <1>2, <1>4 DEF StateOk, PlanOk
<1>6. reset => s.closures = <<>> /\ (h # <<>> => Latest(h).closures = <<>>)
  BY <1>4 DEF base, NewPlan, MayEdit
<1>7. ASSUME h # <<>> PROVE s.closures = Latest(h).closures /\ (~ reset => s.initial = Latest(h).initial)
  BY <1>4, <1>6, <1>7 DEF base
<1>8. h # <<>> => IsPrefix(Latest(h).closures, s.closures) /\ Timely(Latest(h), s)
  <2> SUFFICES ASSUME h # <<>> PROVE IsPrefix(Latest(h).closures, s.closures) /\ Timely(Latest(h), s)
    OBVIOUS
  <2>1. Len(s.closures) \in Nat
    BY <1>5 DEF StateOk, IsSeq
  <2> QED
    BY <1>7, <2>1 DEF IsPrefix, Timely
<1>9. Follows(h, s, reset)
  BY <1>4, <1>5, <1>6, <1>7, <1>8 DEF Follows
<1> QED
  BY <1>9 DEF s

\* observe: closing more of a plan follows the plan, if the close is timely.
LEMMA CloseFollows ==
    ASSUME NEW h, HistoryOk(h), h # <<>>, NEW added, IsSeq(added),
           Timely(Latest(h), Closed(Latest(h), added))
    PROVE  Follows(h, Closed(Latest(h), added), FALSE)
<1> DEFINE old == Latest(h)
           s   == Closed(old, added)
<1>0. StateOk(old)
  BY DEF HistoryOk, Latest, IsSeq
<1> HIDE DEF old
<1>1. /\ DOMAIN s = DOMAIN old
      /\ s.closures = old.closures \o added /\ s.rev = old.rev + 1
      /\ s.initial = old.initial /\ s.targets = old.targets
  BY <1>0 DEF Closed, StateOk, StateFields
<1> HIDE DEF s
<1>2. IsSeq(s.closures) /\ IsPrefix(old.closures, s.closures)
  <2>1. PICK closures : closures = old.closures
    OBVIOUS
  <2>2. IsSeq(closures)
    BY <1>0, <2>1 DEF StateOk
  <2>3. IsSeq(closures \o added)
        /\ IsPrefix(closures, closures \o added)
    BY <2>2, ConcatFacts
  <2>4. s.closures = closures \o added
    BY <1>1, <2>1
  <2> QED
    BY <2>1, <2>3, <2>4
<1>3. StateOk(s)
  <2>1. old.rev + 1 \in Nat
    BY <1>0 DEF StateOk
  <2> QED
    BY <1>0, <1>1, <1>2, <2>1 DEF StateOk, PlanOk
<1>4. Revision(h) = old.rev
  BY DEF Revision, old
<1>5. Timely(old, s)
  BY DEF old, s
<1> QED
  BY <1>1, <1>2, <1>3, <1>4, <1>5 DEF Follows, old, s

\* Everything one quote closes is closed at its time, and it is not nothing.
LEMMA ClosuresOfAQuote ==
    ASSUME NEW s, PlanOk(s), NEW q, Closes(s, q.price)
    PROVE  /\ IsSeq(NewClosures(s, q))
           /\ Len(NewClosures(s, q)) > 0
           /\ \A i \in 1 .. Len(NewClosures(s, q)) : NewClosures(s, q)[i].at = q.at
<1> DEFINE T == {c \in {Closure("SL", s.remaining, q.at)} \cup {Closure(TP[i], Amount(s, i), q.at) : i \in {1, 2, 3}} : c.at = q.at}
<1>1. CASE Stopped(s, q.price)
  <2>1. NewClosures(s, q) = <<Closure("SL", s.remaining, q.at)>>
    BY <1>1 DEF NewClosures
  <2>2. Closure("SL", s.remaining, q.at) \in T
    BY DEF Closure
  <2>3. NewClosures(s, q) \in Seq(T) /\ Len(NewClosures(s, q)) > 0
    BY <2>1, <2>2
  <2>4. \A i \in 1 .. Len(NewClosures(s, q)) : NewClosures(s, q)[i] \in T
    BY <2>3
  <2> QED
    BY <2>3, <2>4, SeqOver
<1>2. CASE ~ Stopped(s, q.price)
  <2> DEFINE hit(i) == IF i \in Reached(s, q.price) THEN <<Closure(TP[i], Amount(s, i), q.at)>> ELSE <<>>
  <2>1. NewClosures(s, q) = hit(1) \o hit(2) \o hit(3)
    BY <1>2 DEF NewClosures, TargetClosures
  <2>2. ASSUME NEW i \in {1, 2, 3}
        PROVE  hit(i) \in Seq(T) /\ (i \in Reached(s, q.price) => Len(hit(i)) > 0)
    <3>1. PICK c : c = Closure(TP[i], Amount(s, i), q.at)
      OBVIOUS
    <3>2. c \in T
      BY <3>1 DEF Closure
    <3> HIDE DEF T
    <3>3. hit(i) \in {<<>>, <<c>>} /\ (i \in Reached(s, q.price) => hit(i) = <<c>>)
      BY <3>1
    <3> QED
      BY <3>2, <3>3
  <2>3. PICK i \in {1, 2, 3} : i \in Reached(s, q.price)
    BY <1>2 DEF Closes, Reached, Pending, PlanOk
  <2> HIDE DEF hit, T
  <2>4. hit(1) \in Seq(T) /\ hit(2) \in Seq(T) /\ hit(3) \in Seq(T)
    BY <2>2
  <2>5. hit(1) \o hit(2) \in Seq(T) /\ hit(1) \o hit(2) \o hit(3) \in Seq(T)
    BY <2>4
  <2>6. Len(hit(1) \o hit(2) \o hit(3)) = Len(hit(1)) + Len(hit(2)) + Len(hit(3))
    BY <2>4, <2>5
  <2>7. Len(hit(1)) \in Nat /\ Len(hit(2)) \in Nat /\ Len(hit(3)) \in Nat
    BY <2>4
  <2>8. Len(hit(i)) > 0
    BY <2>2, <2>3
  <2>9. Len(hit(1) \o hit(2) \o hit(3)) > 0
    BY <2>3, <2>6, <2>7, <2>8
  <2>10. NewClosures(s, q) \in Seq(T) /\ Len(NewClosures(s, q)) > 0
    BY <2>1, <2>5, <2>9
  <2>11. \A j \in 1 .. Len(NewClosures(s, q)) : NewClosures(s, q)[j] \in T
    BY <2>10
  <2> QED
    BY <2>10, <2>11, SeqOver DEF T
<1> QED
  BY <1>1, <1>2

\* A close by hand is one that the monitor has no part in.
LEMMA ManualIsTimely ==
    ASSUME NEW s, StateOk(s), NEW qty, NEW at
    PROVE  Timely(s, Closed(s, <<Closure("MANUAL", qty, at)>>))
<1> DEFINE added == <<Closure("MANUAL", qty, at)>>
           new   == Closed(s, added)
<1>1. new.closures = s.closures \o added
  BY DEF Closed, StateOk, StateFields
<1>2. IsSeq(added) /\ Len(added) = 1 /\ added[1].target = "MANUAL"
  BY DEF Closure, IsSeq
<1> HIDE DEF new, added
<1>3. /\ Len(s.closures) + 1 \in DOMAIN (s.closures \o added)
      /\ (s.closures \o added)[Len(s.closures) + 1] = added[1]
  <2>0. IsSeq(added)
    BY <1>2
  <2>1. PICK closures : closures = s.closures
    OBVIOUS
  <2>2. IsSeq(closures)
    BY <2>1 DEF StateOk
  <2>3. /\ Len(closures) \in Nat /\ Len(closures \o added) = Len(closures) + Len(added)
        /\ IsSeq(closures \o added)
        /\ \A i \in 1 .. Len(added) : (closures \o added)[Len(closures) + i] = added[i]
    BY <2>0, <2>2, ConcatFacts
  <2>4. 1 \in 1 .. Len(added) /\ Len(closures) + 1 \in 1 .. Len(closures) + 1
    BY <1>2, <2>3
  <2>5. (closures \o added)[Len(closures) + 1] = added[1]
    BY <2>3, <2>4
  <2>6. DOMAIN (closures \o added) = 1 .. Len(closures) + 1
    BY <1>2, <2>3 DEF IsSeq
  <2> QED
    BY <2>1, <2>4, <2>5, <2>6
<1>4. "MANUAL" \in ClosedIds(new)
  BY <1>1, <1>2, <1>3 DEF ClosedIds
<1>5. Timely(s, new)
  BY <1>4 DEF Timely
<1> QED
  BY <1>5 DEF new, added

\* A quote closes only what it came after.
LEMMA QuoteIsTimely ==
    ASSUME NEW s, StateOk(s), NEW q, WillClose(s, q)
    PROVE  Timely(s, Closed(s, NewClosures(s, q)))
<1> DEFINE added == NewClosures(s, q)
           new   == Closed(s, added)
<1>1. new.closures = s.closures \o added
  BY DEF Closed, StateOk, StateFields
<1>2. /\ IsSeq(added) /\ Len(added) > 0
      /\ \A i \in 1 .. Len(added) : added[i].at = q.at
  <2>1. PlanOk(s) /\ Closes(s, q.price)
    BY DEF StateOk, WillClose
  <2> QED
    BY <2>1, ClosuresOfAQuote
<1> HIDE DEF new, added
<1>3. /\ Len(s.closures) \in Nat /\ Len(added) \in Nat
      /\ Len(new.closures) = Len(s.closures) + Len(added)
      /\ new.closures[Len(s.closures) + Len(added)] = added[Len(added)]
  <2>1. PICK closures : closures = s.closures
    OBVIOUS
  <2>2. IsSeq(closures)
    BY <2>1 DEF StateOk
  <2>3. /\ Len(closures) \in Nat /\ Len(added) \in Nat /\ Len(closures \o added) = Len(closures) + Len(added)
        /\ \A i \in 1 .. Len(added) : (closures \o added)[Len(closures) + i] = added[i]
    BY <1>2, <2>2, ConcatFacts
  <2> QED
    BY <1>1, <1>2, <2>1, <2>3
<1>4. new.closures # <<>>
  BY <1>2, <1>3
<1>5. LastClosedAt(new) = q.at
  BY <1>2, <1>3, <1>4 DEF LastClosedAt
<1>6. Timely(s, new)
  BY <1>5 DEF Timely, WillClose, Usable
<1> QED
  BY <1>6 DEF new, added

LEMMA LatestIsOk ==
    ASSUME NEW h, HistoryOk(h), h # <<>>
    PROVE  StateOk(Latest(h))
<1>1. Len(h) \in DOMAIN h
  BY DEF HistoryOk, IsSeq
<1> QED
  BY <1>1 DEF HistoryOk, Latest

-----------------------------------------------------------------------------
(* The steps *)

\* Every step either leaves the histories alone or records what follows one.
Recorded(t, s, reset) == /\ t \in TradeSet /\ reset \in BOOLEAN /\ Follows(history[t], s, reset)
                         /\ Record(t, s, reset)

LEMMA PlanEffect ==
    ASSUME TrackingInv, NEW c \in Clients, SubmitPlan(c)
    PROVE  UNCHANGED history \/ \E t, s : t = client[c].trade /\ Recorded(t, s, FALSE)
<1>1. PICK t : t = client[c].trade
  OBVIOUS
<1>2. CASE t \notin TradeSet \/ UNCHANGED history
  BY <1>1, <1>2 DEF SubmitPlan, Record, TrackingInv
<1>3. CASE t \in TradeSet /\ ~ UNCHANGED history
  <2>1. PICK s : s = Edited(history[t], trade[t], client[c].plan, FALSE)
    OBVIOUS
  <2>2. MayEdit(history[t], trade[t], client[c].plan, client[c].expected, FALSE) /\ Record(t, s, FALSE)
    BY <1>1, <1>3, <2>1 DEF SubmitPlan
  <2>3. HistoryOk(history[t]) /\ PlanOk(client[c].plan)
    BY <1>3 DEF TrackingInv, ClientOk, SubmitPlan
  <2>4. Follows(history[t], s, FALSE)
    BY <2>1, <2>2, <2>3, EditFollows
  <2> QED
    BY <1>1, <1>3, <2>2, <2>4 DEF Recorded
<1> QED
  BY <1>2, <1>3

LEMMA ManualEffect ==
    ASSUME TrackingInv, NEW c \in Clients, SubmitManual(c)
    PROVE  UNCHANGED history \/ \E t, s : t = client[c].trade /\ Recorded(t, s, FALSE)
<1>1. PICK t : t = client[c].trade
  OBVIOUS
<1>2. CASE t \notin TradeSet \/ UNCHANGED history
  BY <1>1, <1>2 DEF SubmitManual, Record, TrackingInv
<1>3. CASE t \in TradeSet /\ ~ UNCHANGED history
  <2>1. PICK added : added = <<Closure("MANUAL", Latest(history[t]).remaining, clock)>>
    OBVIOUS
  <2>2. PICK s : s = Closed(Latest(history[t]), added)
    OBVIOUS
  <2>3. Observable(history[t], trade[t]) /\ Record(t, s, FALSE)
    BY <1>1, <1>3, <2>1, <2>2 DEF SubmitManual
  <2>4. HistoryOk(history[t]) /\ history[t] # <<>>
    BY <1>3, <2>3 DEF TrackingInv, Observable
  <2>5. StateOk(Latest(history[t]))
    BY <2>4, LatestIsOk
  <2>6. Timely(Latest(history[t]), s)
    BY <2>1, <2>2, <2>5, ManualIsTimely
  <2>7. IsSeq(added)
    BY <2>1 DEF IsSeq
  <2>8. Follows(history[t], s, FALSE)
    BY <2>2, <2>4, <2>6, <2>7, CloseFollows
  <2> QED
    BY <1>1, <1>3, <2>3, <2>8 DEF Recorded
<1> QED
  BY <1>2, <1>3

LEMMA JournalEditEffect ==
    ASSUME TrackingInv, NEW c \in Clients, SubmitEdit(c)
    PROVE  UNCHANGED history \/ \E t, s : t = client[c].trade /\ Recorded(t, s, client[c].reset)
<1>1. PICK t : t = client[c].trade
  OBVIOUS
<1>2. CASE t \notin TradeSet \/ UNCHANGED history
  BY <1>1, <1>2 DEF SubmitEdit, Record, TrackingInv
<1>3. CASE t \in TradeSet /\ ~ UNCHANGED history
  <2>1. PICK row : row = [trade[t] EXCEPT !.qty = client[c].qty, !.status = "OPEN", !.rev = @ + 1]
    OBVIOUS
  <2>2. PICK s : s = Edited(history[t], row, client[c].plan, client[c].reset)
    OBVIOUS
  <2>3. /\ client[c].plan # NoPlan
        /\ MayEdit(history[t], row, client[c].plan, client[c].expected, client[c].reset)
        /\ Record(t, s, client[c].reset)
    BY <1>1, <1>3, <2>1, <2>2 DEF SubmitEdit
  <2>4. HistoryOk(history[t]) /\ PlanOk(client[c].plan) /\ client[c].reset \in BOOLEAN
    BY <1>3, <2>3 DEF TrackingInv, ClientOk, SubmitEdit
  <2>5. Follows(history[t], s, client[c].reset)
    BY <2>2, <2>3, <2>4, EditFollows
  <2> QED
    BY <1>1, <1>3, <2>3, <2>4, <2>5 DEF Recorded
<1> QED
  BY <1>2, <1>3

LEMMA ObserveEffect ==
    ASSUME TrackingInv, Observe
    PROVE  UNCHANGED history \/ \E t, s : Recorded(t, s, FALSE)
<1>1. PICK t : t = Head(monitor.todo)
  OBVIOUS
<1>2. CASE t \notin TradeSet \/ UNCHANGED history
  BY <1>1, <1>2 DEF Observe, Record, TrackingInv
<1>3. CASE t \in TradeSet /\ ~ UNCHANGED history
  <2>1. PICK q : q = monitor.obs
    OBVIOUS
  <2>2. PICK s : s = Closed(Latest(history[t]), NewClosures(Latest(history[t]), q))
    OBVIOUS
  <2>3. Observable(history[t], trade[t]) /\ WillClose(Latest(history[t]), q) /\ Record(t, s, FALSE)
    BY <1>1, <1>3, <2>1, <2>2 DEF Observe
  <2>4. HistoryOk(history[t]) /\ history[t] # <<>>
    BY <1>3, <2>3 DEF TrackingInv, Observable
  <2>5. StateOk(Latest(history[t]))
    BY <2>4, LatestIsOk
  <2>6. Timely(Latest(history[t]), s)
    BY <2>2, <2>3, <2>5, QuoteIsTimely
  <2>7. PICK added : added = NewClosures(Latest(history[t]), q)
    OBVIOUS
  <2>8. PlanOk(Latest(history[t])) /\ Closes(Latest(history[t]), q.price)
    BY <2>3, <2>5 DEF StateOk, WillClose
  <2>9. IsSeq(added)
    BY <2>7, <2>8, ClosuresOfAQuote
  <2>10. Follows(history[t], s, FALSE)
    BY <2>2, <2>4, <2>6, <2>7, <2>9, CloseFollows
  <2> QED
    BY <1>3, <2>3, <2>10 DEF Recorded
<1> QED
  BY <1>2, <1>3

\* Whatever the step, a history stays or is followed.
LEMMA HistoryEffect ==
    ASSUME TrackingInv, [Next]_vars
    PROVE  UNCHANGED history \/ \E t, s, reset : Recorded(t, s, reset)
<1>1. CASE UNCHANGED vars
  BY <1>1 DEF vars
<1>2. ASSUME NEW c \in Clients, NEW t \in TradeSet, AskPlan(c, t) \/ AskManual(c, t) \/ AskEdit(c, t)
      PROVE  UNCHANGED history
  BY <1>2 DEF AskPlan, AskManual, AskEdit, Send
<1>3. ASSUME NEW c \in Clients, Submit(c)
      PROVE  UNCHANGED history \/ \E t, s, reset : Recorded(t, s, reset)
  BY <1>3, PlanEffect, ManualEffect, JournalEditEffect DEF Submit
<1>4. ASSUME NEW t \in TradeSet, CloseTrade(t) \/ TurnUnit(t) PROVE UNCHANGED history
  BY <1>4 DEF CloseTrade, TurnUnit
<1>5. CASE List \/ Fetch \/ Tick
  BY <1>5 DEF List, Fetch, Tick
<1>6. CASE Observe
  BY <1>6, ObserveEffect
<1> QED
  BY <1>1, <1>2, <1>3, <1>4, <1>5, <1>6 DEF Next, Poll

LEMMA PlansAreOk == \A plan \in Plans : PlanOk(plan)
<1> SUFFICES ASSUME NEW plan \in Plans PROVE PlanOk(plan)
  OBVIOUS
<1>1. IsPlan(plan)
  BY TrackingAssumption
<1>2. plan.targets \in Seq([price : Int, percent : Int]) /\ Len(plan.targets) =< 3
  BY <1>1 DEF IsPlan, TP
<1>3. DOMAIN plan.targets = 1..Len(plan.targets) /\ Len(plan.targets) \in Nat
  BY <1>2
<1> QED
  BY <1>2, <1>3 DEF PlanOk

\* A plan redrawn has the targets of the plan it was or of one the client may ask for.
LEMMA RedrawnIsPlan ==
    ASSUME NEW s, PlanOk(s), \A p \in Plans : PlanOk(p)
    PROVE  \A plan \in Redrawn(s) : PlanOk(plan)
<1> SUFFICES ASSUME NEW plan \in Redrawn(s) PROVE PlanOk(plan)
  OBVIOUS
<1>1. PICK p \in Plans \cup {PlanOf(s)} :
         plan = [PlanOf(s) EXCEPT !.stop = p.stop,
                                  !.targets = IF Len(s.targets) = 1 /\ TP[1] \notin ClosedIds(s) /\ Len(p.targets) = 1
                                              THEN p.targets ELSE @]
  BY DEF Redrawn
<1>2. PlanOk(p)
  BY DEF PlanOk, PlanOf
<1>3. plan.targets = s.targets \/ plan.targets = p.targets
  BY <1>1 DEF PlanOf
<1> QED
  BY <1>2, <1>3 DEF PlanOk

\* What TradeEditService asks for: no plan, the client's own, or the old one redrawn;
\* over the revision that was read, or over any.
LEMMA EditAsked ==
    ASSUME NEW c, NEW t, AskEdit(c, t), \A p \in Plans : PlanOk(p),
           history[t] # <<>> => \A p \in Redrawn(Latest(history[t])) : PlanOk(p)
    PROVE  \E plan, expected, reset, qty :
              /\ Send(c, Loaded("edit", t, plan, expected, reset, qty))
              /\ reset \in BOOLEAN
              /\ plan # NoPlan => PlanOk(plan)
              /\ expected \in {AnyRevision, Revision(history[t])}
<1>1. PICK qty :
         \/ Send(c, Loaded("edit", t, NoPlan, AnyRevision, FALSE, qty))
         \/ \E plan \in Plans : Send(c, Loaded("edit", t, plan, Revision(history[t]), qty # trade[t].qty, qty))
         \/ /\ history[t] # <<>>
            /\ \E plan \in Redrawn(Latest(history[t])) :
                  Send(c, Loaded("edit", t, plan, IF qty # trade[t].qty THEN AnyRevision ELSE Revision(history[t]),
                                 qty # trade[t].qty, qty))
  BY DEF AskEdit
<1> QED
  BY <1>1

LEMMA ClientsEffect ==
    ASSUME TrackingInv, [Next]_vars
    PROVE  client' = [c \in Clients |-> client'[c]] /\ \A c \in Clients : ClientOk(client'[c])
<1>1. CASE UNCHANGED client
  BY <1>1 DEF TrackingInv
<1>2. ASSUME NEW c \in Clients, Submit(c)
      PROVE  client' = [client EXCEPT ![c] = Idle]
  BY <1>2 DEF Submit, SubmitPlan, SubmitManual, SubmitEdit, Reply
<1>3. ASSUME NEW c \in Clients, NEW t \in TradeSet, AskPlan(c, t) \/ AskManual(c, t) \/ AskEdit(c, t)
      PROVE  \E r : client' = [client EXCEPT ![c] = r] /\ ClientOk(r)
  <2>0. \A kind, plan, expected, reset, qty :
           /\ kind = "plan" => PlanOk(plan)
           /\ kind = "edit" => reset \in BOOLEAN /\ (plan # NoPlan => PlanOk(plan))
           => ClientOk(Loaded(kind, t, plan, expected, reset, qty))
    BY DEF Loaded, ClientOk
  <2>1. \A plan \in Plans : PlanOk(plan)
    BY PlansAreOk
  <2>2. CASE AskPlan(c, t)
    <3>1. PICK plan \in Plans : Send(c, Loaded("plan", t, plan, Revision(history[t]), FALSE, trade[t].qty))
      BY <2>2 DEF AskPlan
    <3>2. ClientOk(Loaded("plan", t, plan, Revision(history[t]), FALSE, trade[t].qty))
      BY <2>0, <2>1
    <3> QED
      BY <3>1, <3>2 DEF Send
  <2>3. CASE AskManual(c, t)
    <3>1. Send(c, Loaded("manual", t, NoPlan, Revision(history[t]), FALSE, trade[t].qty))
      BY <2>3 DEF AskManual
    <3>2. ClientOk(Loaded("manual", t, NoPlan, Revision(history[t]), FALSE, trade[t].qty))
      BY <2>0
    <3> QED
      BY <3>1, <3>2 DEF Send
  <2>4. CASE AskEdit(c, t)
    <3>1. history[t] # <<>> => \A plan \in Redrawn(Latest(history[t])) : PlanOk(plan)
      BY <2>1, LatestIsOk, RedrawnIsPlan DEF TrackingInv, StateOk
    <3>2. PICK plan, expected, reset, qty :
             /\ Send(c, Loaded("edit", t, plan, expected, reset, qty))
             /\ reset \in BOOLEAN
             /\ plan # NoPlan => PlanOk(plan)
      BY <2>1, <2>4, <3>1, EditAsked
    <3>3. ClientOk(Loaded("edit", t, plan, expected, reset, qty))
      BY <2>0, <3>2
    <3> QED
      BY <3>2, <3>3 DEF Send
  <2> QED
    BY <1>3, <2>2, <2>3, <2>4
<1>4. ASSUME NEW c \in Clients, NEW r, client' = [client EXCEPT ![c] = r], ClientOk(r)
      PROVE  client' = [d \in Clients |-> client'[d]] /\ \A d \in Clients : ClientOk(client'[d])
  BY <1>4 DEF TrackingInv
<1>5. ClientOk(Idle)
  BY DEF ClientOk, Idle
<1>6. \/ UNCHANGED client
      \/ \E c \in Clients : Submit(c)
      \/ \E c \in Clients, t \in TradeSet : AskPlan(c, t) \/ AskManual(c, t) \/ AskEdit(c, t)
  BY DEF Next, vars, CloseTrade, TurnUnit, Poll, List, Fetch, Observe, Tick
<1> QED
  BY <1>1, <1>2, <1>3, <1>4, <1>5, <1>6

-----------------------------------------------------------------------------
\* What a step records keeps every history good.
LEMMA StepKeepsGood ==
    ASSUME TrackingInv, NEW t, NEW s, NEW reset, Recorded(t, s, reset)
    PROVE  history' = [u \in TradeSet |-> history'[u]] /\ \A u \in TradeSet : HistoryOk(history'[u])
<1>1. HistoryOk(Append(history[t], Event(history[t], s, reset)))
  BY RecordKeepsGood DEF Recorded, TrackingInv
<1>2. history' = [history EXCEPT ![t] = Append(history[t], Event(history[t], s, reset))]
  BY DEF Recorded, Record
<1> QED
  BY <1>1, <1>2 DEF Recorded, TrackingInv

\* Every history is good, whatever clients, resets, journal writes and the
\* monitor interleave (local_tracking.py, local_tracking_monitor.py).
THEOREM TrackingInvariant == Spec => []TrackingInv
<1>1. Init => TrackingInv
  <2> SUFFICES ASSUME Init PROVE TrackingInv
    OBVIOUS
  <2>1. HistoryOk(<<>>)
    BY DEF HistoryOk, Readable, IsSeq
  <2>2. ClientOk(Idle)
    BY DEF ClientOk, Idle
  <2> QED
    BY <2>1, <2>2 DEF Init, TrackingInv
<1>2. TrackingInv /\ [Next]_vars => TrackingInv'
  <2> SUFFICES ASSUME TrackingInv, [Next]_vars PROVE TrackingInv'
    OBVIOUS
  <2>1. CASE UNCHANGED history
    BY <2>1, ClientsEffect DEF TrackingInv
  <2>2. ASSUME NEW t, NEW s, NEW reset, Recorded(t, s, reset) PROVE TrackingInv'
    BY <2>2, StepKeepsGood, ClientsEffect DEF TrackingInv
  <2> QED
    BY <2>1, <2>2, HistoryEffect
<1> QED
  BY <1>1, <1>2, PTL DEF Spec

\* No plan ever becomes unreadable: every history reads back as _load and
\* history() of local_tracking.py demand.
THEOREM LineageStaysSound == Spec => []LineageSound
<1>1. TrackingInv => LineageSound
  BY DEF TrackingInv, HistoryOk, LineageSound, Readable, Loadable
<1> QED
  BY <1>1, TrackingInvariant, PTL

\* A quote closes only what was armed before it (eligible and observe of
\* local_tracking.py).
THEOREM ClosesAreTimely == Spec => []ClosedAfterArmed
<1>1. TrackingInv => ClosedAfterArmed
  BY DEF TrackingInv, HistoryOk, Timely, ClosedAfterArmed
<1> QED
  BY <1>1, TrackingInvariant, PTL

\* Close evidence is for ever: no edit, size correction or close drops or
\* rewrites a part once recorded as closed (edit_in_transaction, observe).
THEOREM CloseEvidenceIsKept == Spec => ClosuresKept
<1>1. TrackingInv /\ [Next]_vars =>
        [\A t \in TradeSet :
            history[t] # <<>> => IsPrefix(Latest(history[t]).closures, Latest(history'[t]).closures)]_vars
  <2> SUFFICES ASSUME TrackingInv, [Next]_vars, NEW t \in TradeSet, history[t] # <<>>
               PROVE  IsPrefix(Latest(history[t]).closures, Latest(history'[t]).closures)
    OBVIOUS
  <2>1. CASE history'[t] = history[t]
    <3>1. Len(Latest(history[t]).closures) \in Nat
      BY LatestIsOk DEF TrackingInv, StateOk, IsSeq
    <3> QED
      BY <2>1, <3>1 DEF IsPrefix
  <2>2. ASSUME NEW u, NEW s, NEW reset, Recorded(u, s, reset), history'[t] # history[t]
        PROVE  IsPrefix(Latest(history[t]).closures, Latest(history'[t]).closures)
    <3>1. t = u /\ history'[t] = Append(history[t], Event(history[t], s, reset))
      BY <2>2 DEF Recorded, Record, TrackingInv
    <3>2. Latest(history'[t]) = s
      BY <3>1, AppendFacts DEF Latest, Event, TrackingInv, HistoryOk
    <3> QED
      BY <2>2, <3>1, <3>2 DEF Recorded, Follows
  <2> QED
    BY <2>1, <2>2, HistoryEffect
<1> QED
  BY <1>1, TrackingInvariant, PTL DEF Spec, ClosuresKept
-----------------------------------------------------------------------------
(* Requests that name the revision they loaded *)

\* Nobody starts a plan of a trade afresh while another client has it loaded.
NoForeignReset == "edit" \notin Requests \/ \A c, d \in Clients : c = d

Named(r) == r.kind \in {"plan", "manual", "edit"} /\ r.expected # AnyRevision

\* Since a client loaded a plan, its revisions grew with its events.
StaleInv ==
    \A c \in Clients :
        /\ client[c].kind \in {"idle", "plan", "manual", "edit"}
        /\ client[c].kind = "edit" => "edit" \in Requests
        /\ Named(client[c]) =>
              /\ client[c].trade \in TradeSet /\ client[c].expected \in Nat /\ client[c].seen \in Nat
              /\ Len(history[client[c].trade]) - client[c].seen
                    = Revision(history[client[c].trade]) - client[c].expected

LEMMA RevisionAndLength ==
    ASSUME NEW h, HistoryOk(h)
    PROVE  Revision(h) \in Nat /\ Len(h) \in Nat
<1>1. Len(h) \in Nat
  BY DEF HistoryOk, IsSeq
<1>2. CASE h = <<>>
  BY <1>1, <1>2 DEF Revision
<1>3. CASE h # <<>>
  BY <1>1, <1>3, LatestIsOk DEF Revision, StateOk
<1> QED
  BY <1>2, <1>3

LEMMA Shift ==
    \A l, m, r, q, seen, expected \in Nat :
        m - l = q - r /\ l - seen = r - expected => m - seen = q - expected
  OBVIOUS

LEMMA RecordedGrows ==
    ASSUME TrackingInv, NEW t, NEW s, Recorded(t, s, FALSE), NEW u \in TradeSet
    PROVE  Len(history'[u]) - Len(history[u]) = Revision(history'[u]) - Revision(history[u])
<1>1. HistoryOk(history[u])
  BY DEF TrackingInv
<1>2. CASE u # t
  <2>1. history'[u] = history[u]
    BY <1>2 DEF Recorded, Record, TrackingInv
  <2> QED
    BY <1>1, <2>1, RevisionAndLength
<1>3. CASE u = t
  <2>1. history'[u] = Append(history[u], Event(history[u], s, FALSE))
    BY <1>3 DEF Recorded, Record, TrackingInv
  <2>2. IsSeq(history[u])
    BY <1>1 DEF HistoryOk
  <2>3. Len(history'[u]) = Len(history[u]) + 1 /\ history'[u] # <<>> /\ history'[u][Len(history[u]) + 1].state = s
    BY <2>1, <2>2, AppendFacts DEF Event
  <2>4. Revision(history'[u]) = s.rev
    BY <2>3 DEF Revision, Latest
  <2>5. s.rev = Revision(history[u]) + 1
    BY <1>3 DEF Recorded, Follows
  <2> QED
    BY <1>1, <2>3, <2>4, <2>5, RevisionAndLength
<1> QED
  BY <1>2, <1>3

\* A request that is not answered yet sees the plan move on one by one.
LEMMA WaitingRequest ==
    ASSUME TrackingInv, StaleInv, NoForeignReset, [Next]_vars, NEW c \in Clients,
           client'[c] = client[c], Named(client[c])
    PROVE  Len(history'[client[c].trade]) - client[c].seen
             = Revision(history'[client[c].trade]) - client[c].expected
<1>1. PICK t : t = client[c].trade
  OBVIOUS
<1>2. /\ t \in TradeSet /\ client[c].expected \in Nat /\ client[c].seen \in Nat
      /\ Len(history[t]) - client[c].seen = Revision(history[t]) - client[c].expected
  BY <1>1 DEF StaleInv
<1>3. Revision(history[t]) \in Nat /\ Len(history[t]) \in Nat
  BY <1>2, RevisionAndLength DEF TrackingInv
<1>4. CASE UNCHANGED history
  BY <1>1, <1>2, <1>4
<1>5. ASSUME NEW u, NEW s, Recorded(u, s, FALSE)
      PROVE  Len(history'[t]) - client[c].seen = Revision(history'[t]) - client[c].expected
  <2>1. Len(history'[t]) - Len(history[t]) = Revision(history'[t]) - Revision(history[t])
    BY <1>2, <1>5, RecordedGrows
  <2>2. HistoryOk(history'[t])
    BY <1>2, <1>5, StepKeepsGood DEF TrackingInv
  <2>3. Revision(history'[t]) \in Nat /\ Len(history'[t]) \in Nat
    BY <2>2, RevisionAndLength
  <2> QED
    <3>1. PICK seen, expected : seen = client[c].seen /\ expected = client[c].expected
      OBVIOUS
    <3>2. PICK l, m, r, q : l = Len(history[t]) /\ m = Len(history'[t]) /\ r = Revision(history[t]) /\ q = Revision(history'[t])
      OBVIOUS
    <3>3. {l, m, r, q, seen, expected} \subseteq Nat /\ m - l = q - r /\ l - seen = r - expected
      BY <1>2, <1>3, <2>1, <2>3, <3>1, <3>2
    <3>4. m - seen = q - expected
      BY <3>3, Shift
    <3> QED
      BY <3>1, <3>2, <3>4
<1>6. ASSUME NEW d \in Clients, SubmitEdit(d) PROVE FALSE
  <2>1. d # c
    BY <1>6 DEF SubmitEdit, Reply, TrackingInv, Idle, Named
  <2> QED
    BY <1>6, <2>1 DEF NoForeignReset, StaleInv, SubmitEdit
<1>7. ASSUME NEW d \in Clients, SubmitPlan(d) \/ SubmitManual(d)
      PROVE  UNCHANGED history \/ \E u, s : Recorded(u, s, FALSE)
  BY <1>7, PlanEffect, ManualEffect
<1>8. UNCHANGED history \/ Observe \/ \E d \in Clients : Submit(d)
  <2>1. ASSUME NEW d \in Clients, NEW u \in TradeSet, AskPlan(d, u) \/ AskManual(d, u) \/ AskEdit(d, u)
        PROVE  UNCHANGED history
    BY <2>1 DEF AskPlan, AskManual, AskEdit, Send
  <2>2. ASSUME NEW u \in TradeSet, CloseTrade(u) \/ TurnUnit(u) PROVE UNCHANGED history
    BY <2>2 DEF CloseTrade, TurnUnit
  <2>3. CASE List \/ Fetch \/ Tick \/ UNCHANGED vars
    BY <2>3 DEF List, Fetch, Tick, vars
  <2> QED
    BY <2>1, <2>2, <2>3 DEF Next, Poll
<1> QED
  BY <1>1, <1>4, <1>5, <1>6, <1>7, <1>8, ObserveEffect DEF Submit

\* What a client asks for is about what it has before it.
Asks(r, t) ==
    /\ r.kind \in {"plan", "manual", "edit"}
    /\ r.kind = "edit" => "edit" \in Requests
    /\ r.trade = t /\ r.seen = Len(history[t])
    /\ r.expected \in {AnyRevision, Revision(history[t])}

LEMMA NewRequest ==
    ASSUME TrackingInv, NEW c \in Clients, NEW t \in TradeSet, AskPlan(c, t) \/ AskManual(c, t) \/ AskEdit(c, t)
    PROVE  /\ client[c] = Idle /\ UNCHANGED history
           /\ \E r : client' = [client EXCEPT ![c] = r] /\ Asks(r, t)
<1>1. client[c] = Idle /\ UNCHANGED history
  BY DEF AskPlan, AskManual, AskEdit, Ask, Send
<1>2. \A kind, plan, expected, reset, qty :
         /\ kind \in {"plan", "manual", "edit"}
         /\ kind = "edit" => "edit" \in Requests
         /\ expected \in {AnyRevision, Revision(history[t])}
         => Asks(Loaded(kind, t, plan, expected, reset, qty), t)
  BY DEF Asks, Loaded
<1>3. CASE AskPlan(c, t)
  <2>1. PICK plan : client' = [client EXCEPT ![c] = Loaded("plan", t, plan, Revision(history[t]), FALSE, trade[t].qty)]
    BY <1>3 DEF AskPlan, Send
  <2>2. Asks(Loaded("plan", t, plan, Revision(history[t]), FALSE, trade[t].qty), t)
    BY <1>2
  <2> QED
    BY <1>1, <2>1, <2>2
<1>4. CASE AskManual(c, t)
  <2>1. client' = [client EXCEPT ![c] = Loaded("manual", t, NoPlan, Revision(history[t]), FALSE, trade[t].qty)]
    BY <1>4 DEF AskManual, Send
  <2>2. Asks(Loaded("manual", t, NoPlan, Revision(history[t]), FALSE, trade[t].qty), t)
    BY <1>2
  <2> QED
    BY <1>1, <2>1, <2>2
<1>5. CASE AskEdit(c, t)
  <2>1. /\ \A p \in Plans : PlanOk(p)
        /\ history[t] # <<>> => \A p \in Redrawn(Latest(history[t])) : PlanOk(p)
    BY PlansAreOk, LatestIsOk, RedrawnIsPlan DEF TrackingInv, StateOk
  <2>2. PICK plan, expected, reset, qty :
           /\ Send(c, Loaded("edit", t, plan, expected, reset, qty))
           /\ expected \in {AnyRevision, Revision(history[t])}
    BY <1>5, <2>1, EditAsked
  <2>3. Asks(Loaded("edit", t, plan, expected, reset, qty), t)
    BY <1>2, <1>5, <2>2 DEF AskEdit, Ask
  <2> QED
    BY <1>1, <2>2, <2>3 DEF Send
<1> QED
  BY <1>3, <1>4, <1>5

LEMMA RequestsStayNamed ==
    ASSUME TrackingInv, StaleInv, NoForeignReset, [Next]_vars
    PROVE  StaleInv'
<1> SUFFICES ASSUME NEW c \in Clients
             PROVE  /\ client'[c].kind \in {"idle", "plan", "manual", "edit"}
                    /\ client'[c].kind = "edit" => "edit" \in Requests
                    /\ Named(client'[c]) =>
                          /\ client'[c].trade \in TradeSet /\ client'[c].expected \in Nat /\ client'[c].seen \in Nat
                          /\ Len(history'[client'[c].trade]) - client'[c].seen
                                = Revision(history'[client'[c].trade]) - client'[c].expected
  BY DEF StaleInv, Named
<1>1. CASE client'[c] = client[c]
  BY <1>1, WaitingRequest DEF StaleInv
<1>2. CASE client'[c] = Idle
  BY <1>2 DEF Idle, Named
<1>3. ASSUME NEW t \in TradeSet, AskPlan(c, t) \/ AskManual(c, t) \/ AskEdit(c, t)
      PROVE  /\ client'[c].kind \in {"plan", "manual", "edit"}
             /\ client'[c].kind = "edit" => "edit" \in Requests
             /\ Named(client'[c]) =>
                   /\ client'[c].trade \in TradeSet /\ client'[c].expected \in Nat /\ client'[c].seen \in Nat
                   /\ Len(history'[client'[c].trade]) - client'[c].seen
                         = Revision(history'[client'[c].trade]) - client'[c].expected
  <2>1. PICK r : client' = [client EXCEPT ![c] = r] /\ UNCHANGED history /\ Asks(r, t)
    BY <1>3, NewRequest
  <2>2. client'[c] = r /\ history' = history
    BY <2>1 DEF TrackingInv
  <2>3. Revision(history[t]) \in Nat /\ Len(history[t]) \in Nat
    BY RevisionAndLength DEF TrackingInv
  <2> QED
    BY <2>1, <2>2, <2>3 DEF Named, Asks
<1>4. \/ client'[c] = client[c] \/ client'[c] = Idle
      \/ \E t \in TradeSet : AskPlan(c, t) \/ AskManual(c, t) \/ AskEdit(c, t)
  <2>1. ASSUME NEW d \in Clients, Submit(d) PROVE client' = [client EXCEPT ![d] = Idle]
    BY <2>1 DEF Submit, SubmitPlan, SubmitManual, SubmitEdit, Reply
  <2>2. ASSUME NEW d \in Clients, NEW t \in TradeSet, AskPlan(d, t) \/ AskManual(d, t) \/ AskEdit(d, t), d # c
        PROVE  client'[c] = client[c]
    BY <2>2, NewRequest DEF TrackingInv
  <2>3. \/ UNCHANGED client \/ \E d \in Clients : Submit(d)
        \/ \E d \in Clients, t \in TradeSet : AskPlan(d, t) \/ AskManual(d, t) \/ AskEdit(d, t)
    BY DEF Next, vars, CloseTrade, TurnUnit, Poll, List, Fetch, Observe, Tick
  <2> QED
    BY <2>1, <2>2, <2>3 DEF TrackingInv
<1> QED
  BY <1>1, <1>2, <1>3, <1>4

\* "Tracking plan changed; reload before saving": where a trade is not started
\* afresh behind a client's back, a request that names the revision it loaded
\* changes only the very plan it loaded (edit_in_transaction, observe).
THEOREM StaleIsRefused ==
    ASSUME NoForeignReset
    PROVE  Spec => StalePlanRefused
<1>1. Init => StaleInv
  BY DEF Init, StaleInv, Idle, Named
<1>2. TrackingInv /\ StaleInv /\ [Next]_vars => StaleInv'
  BY RequestsStayNamed
<1>3. TrackingInv /\ StaleInv /\ [Next]_vars =>
        [\A c \in Clients :
            LET r == client[c] IN
            r # Idle /\ client'[c] = Idle /\ r.expected # AnyRevision
                /\ history'[r.trade] # history[r.trade]
                => Len(history[r.trade]) = r.seen]_vars
  <2> SUFFICES ASSUME TrackingInv, StaleInv, Next, NEW c \in Clients,
                      client[c] # Idle, client'[c] = Idle, client[c].expected # AnyRevision,
                      history'[client[c].trade] # history[client[c].trade]
               PROVE  Len(history[client[c].trade]) = client[c].seen
    OBVIOUS
  <2>1. Submit(c)
    <3>1. ASSUME NEW d \in Clients, NEW t \in TradeSet, AskPlan(d, t) \/ AskManual(d, t) \/ AskEdit(d, t)
          PROVE  FALSE
      BY <3>1, NewRequest
    <3>2. ASSUME NEW d \in Clients, Submit(d), d # c PROVE client'[c] = client[c]
      BY <3>2 DEF Submit, SubmitPlan, SubmitManual, SubmitEdit, Reply, TrackingInv
    <3>3. \/ UNCHANGED client \/ \E d \in Clients : Submit(d)
          \/ \E d \in Clients, t \in TradeSet : AskPlan(d, t) \/ AskManual(d, t) \/ AskEdit(d, t)
      BY DEF Next, vars, CloseTrade, TurnUnit, Poll, List, Fetch, Observe, Tick
    <3> QED
      BY <3>1, <3>2, <3>3
  <2>2. client[c].expected = Revision(history[client[c].trade])
    BY <2>1 DEF Submit, SubmitPlan, SubmitManual, SubmitEdit, MayEdit
  <2>3. Named(client[c])
    BY <2>1 DEF Named, Submit, SubmitPlan, SubmitManual, SubmitEdit
  <2>4. PICK t : t = client[c].trade
    OBVIOUS
  <2>5. /\ t \in TradeSet /\ client[c].expected \in Nat /\ client[c].seen \in Nat
        /\ Len(history[t]) - client[c].seen = Revision(history[t]) - client[c].expected
    BY <2>3, <2>4 DEF StaleInv
  <2>6. Revision(history[t]) \in Nat /\ Len(history[t]) \in Nat
    BY <2>5, RevisionAndLength DEF TrackingInv
  <2> QED
    BY <2>2, <2>4, <2>5, <2>6
<1> QED
  BY <1>1, <1>2, <1>3, TrackingInvariant, PTL DEF Spec, StalePlanRefused
=============================================================================
