----------------------------- MODULE DeskProofs ------------------------------
(***************************************************************************)
(* Proofs about the records of a trader: the versioned policies, playbooks *)
(* and checklists, the upgrade of a journal file of an older version, the  *)
(* review of a trade on its chart, and the evidence of a broker.  The four *)
(* arguments are independent of each other.                                *)
(***************************************************************************)
EXTENDS Records, SchemaUpgrade, TradeReview, Reconciliation,
        FiniteSetTheorems, SequenceTheorems, WellFoundedInduction, TLAPS

------------------------------------------------------------------------------
(***************************************************************************)
(* Proofs about the versioned records, for any users, orders, policies,     *)
(* playbooks, audits and bounds.                                            *)
(*                                                                          *)
(* What the ledger has accepted stays in it, with its content and its time  *)
(* (Grown), and versions are only added.  So what a handler has read before *)
(* its transaction stays true (CallOk), and the record a transaction leaves *)
(* has its event: a known key is answered only when it says the same.       *)
(***************************************************************************)

Books == [title : Titles, rules : Rules]

IsSeq(s) == s \in Seq({s[i] : i \in DOMAIN s})

Extends(new, old) == \A n \in DOMAIN old : n \in DOMAIN new /\ new[n] = old[n]
AllExtend(new, old) == \A p \in Playbooks : Extends(new[p], old[p])

Told(ev, kind, key, body) ==
    \E n \in DOMAIN ev : ev[n].kind = kind /\ ev[n].key = key /\ ev[n].body = body

ToldAt(ev, kind, key, body, at) ==
    \E n \in DOMAIN ev : /\ ev[n].kind = kind /\ ev[n].key = key
                         /\ ev[n].body = body /\ ev[n].at = at

\* What append_event makes of a ledger that accepts the event.
Grown(new, old, kind, key, body, at) ==
    /\ IsSeq(new)
    /\ Extends(new, old)
    /\ ToldAt(new, kind, key, body, at)

PoliciesOk(ev, pols) ==
    \A v \in DOMAIN pols : Told(ev, "policy", v, pols[v]) /\ (v > 1 => pols[v] # pols[v - 1])

VersionsOk(ev, vers) ==
    \A p \in Playbooks : \A v \in DOMAIN vers[p] : Told(ev, "playbook", <<p, v>>, vers[p][v])

ShownOk(vers, bks) == \A p \in Playbooks : vers[p] # <<>> => bks[p] = vers[p][Len(vers[p])]

AuditOk(a, vers) ==
    /\ a.playbook \in Playbooks
    /\ a.version \in DOMAIN vers[a.playbook]
    /\ a.rules = vers[a.playbook][a.version].rules

ChecksOk(ev, vers, chk) ==
    \A t \in AuditedTrades :
        chk[t] # Missing =>
            /\ AuditOk(chk[t].audit, vers)
            /\ ToldAt(ev, "audit", <<t, chk[t].audit>>, chk[t].audit, chk[t].at)

Deciding == {"create", "compare", "decide"}

\* An order that was approved: what the decision rests on is on record.
ApprovedOk(e, ev, pols) ==
    /\ {"steady", "order", "pinned", "setting", "at"} \subseteq DOMAIN e
    /\ e.pinned \in DOMAIN pols
    /\ \E outcome \in Clear : ToldAt(ev, "evaluation", <<e.order, e.pinned, outcome>>, outcome, e.at)
    /\ Within(e.order, pols[e.pinned])
    /\ e.steady /\ e.setting # Missing => pols[e.pinned] = e.setting

\* What a handler holds between two of its steps.
CallOk(e, ev, pols, vers, set) ==
    /\ "op" \in DOMAIN e
    /\ e.op \in {"none", "answered", "edit", "audit", "review"} \cup Deciding
    /\ e.op \in Deciding => {"order", "steady"} \subseteq DOMAIN e
    /\ e.op = "create" =>
          /\ {"limit", "next", "then"} \subseteq DOMAIN e
          /\ e.limit \in Limits /\ e.next \in Nat \ {0}
          /\ e.then \in {"compare", "decide"}
          /\ e.then = "decide" /\ e.steady => e.limit = set
    /\ e.op \in {"compare", "decide"} => "pinned" \in DOMAIN e /\ e.pinned \in DOMAIN pols
    /\ e.op = "decide" /\ e.steady /\ set # Missing => pols[e.pinned] = set
    /\ e.op = "answered" => "approved" \in DOMAIN e /\ (e.approved => ApprovedOk(e, ev, pols))
    /\ e.op = "edit" => {"playbook", "book"} \subseteq DOMAIN e /\ e.playbook \in Playbooks /\ e.book \in Books
    /\ e.op = "audit" => {"trade", "audit", "at"} \subseteq DOMAIN e /\ AuditOk(e.audit, vers)

CallsOk(cl, ev, pols, vers, set) == \A c \in Users : CallOk(cl[c], ev, pols, vers, set)

RecordsType ==
    /\ IsSeq(evidence)
    /\ policies \in Seq(Limits)
    /\ setting \in {Missing} \cup Limits
    /\ versions \in [Playbooks -> Seq(Books)]
    /\ books \in [Playbooks -> {Missing} \cup Books]
    /\ checks = [t \in AuditedTrades |-> checks[t]]
    /\ call = [c \in Users |-> call[c]]

RecordsInv ==
    /\ RecordsType
    /\ PoliciesOk(evidence, policies)
    /\ VersionsOk(evidence, versions)
    /\ ShownOk(versions, books)
    /\ ChecksOk(evidence, versions, checks)
    /\ CallsOk(call, evidence, policies, versions, setting)

-----------------------------------------------------------------------------
LEMMA SeqOver ==
    ASSUME NEW S, NEW s \in Seq(S)
    PROVE  IsSeq(s)
<1>1. \A i \in 1 .. Len(s) : s[i] \in {s[j] : j \in DOMAIN s}
  OBVIOUS
<1>2. Len(s) \in Nat /\ s = [i \in 1 .. Len(s) |-> s[i]]
  OBVIOUS
<1> QED
  BY <1>1, <1>2, IsASeq DEF IsSeq

LEMMA AppendFacts ==
    ASSUME NEW s, IsSeq(s), NEW x
    PROVE  /\ IsSeq(Append(s, x))
           /\ Extends(Append(s, x), s)
           /\ Len(s) + 1 \in DOMAIN Append(s, x) /\ Append(s, x)[Len(s) + 1] = x
<1> DEFINE S == {s[i] : i \in DOMAIN s} \cup {x}
           t == Append(s, x)
<1>1. s \in Seq({s[i] : i \in DOMAIN s}) /\ s \in Seq(S)
  BY DEF IsSeq
<1>2. /\ t \in Seq(S) /\ Len(t) = Len(s) + 1 /\ t[Len(s) + 1] = x
      /\ \A n \in 1 .. Len(s) : t[n] = s[n]
      /\ DOMAIN s = 1 .. Len(s) /\ DOMAIN t = 1 .. Len(s) + 1 /\ Len(s) \in Nat
  BY <1>1
<1>3. IsSeq(t)
  BY <1>2, SeqOver
<1> HIDE DEF t
<1> QED BY <1>2, <1>3 DEF Extends, t

\* append_event: a known key is answered if it says the same, a new one gets its event.
LEMMA EventRecorded ==
    ASSUME IsSeq(evidence), NEW kind, NEW key, NEW body, NEW at,
           Accepts(kind, key, body, at), evidence' = WithEvidence(kind, key, body, at)
    PROVE  Grown(evidence', evidence, kind, key, body, at)
<1>1. CASE HasEvent(kind, key)
  BY <1>1 DEF HasEvent, Accepts, WithEvidence, Grown, Extends, ToldAt
<1>2. CASE ~ HasEvent(kind, key)
  <2> DEFINE x == DecisionEvent(kind, key, body, at)
  <2>1. evidence' = Append(evidence, x)
    BY <1>2 DEF WithEvidence
  <2>2. x.kind = kind /\ x.key = key /\ x.body = body /\ x.at = at
    BY DEF DecisionEvent
  <2> HIDE DEF x
  <2>3. /\ IsSeq(evidence') /\ Extends(evidence', evidence)
        /\ Len(evidence) + 1 \in DOMAIN evidence' /\ evidence'[Len(evidence) + 1] = x
    BY <2>1, AppendFacts
  <2> QED BY <2>2, <2>3 DEF Grown, ToldAt
<1> QED BY <1>1, <1>2

LEMMA VersionAdded ==
    ASSUME NEW S, NEW s \in Seq(S), NEW x \in S
    PROVE  /\ Append(s, x) \in Seq(S) /\ Extends(Append(s, x), s)
           /\ Len(s) \in Nat /\ DOMAIN s = 1 .. Len(s) /\ DOMAIN Append(s, x) = 1 .. Len(s) + 1
           /\ Append(s, x)[Len(s) + 1] = x /\ Len(Append(s, x)) = Len(s) + 1
BY DEF Extends

-----------------------------------------------------------------------------
(* What was shown stays true when events and versions are added. *)

LEMMA RecordsStay ==
    ASSUME NEW ev, NEW evNew, Extends(evNew, ev),
           NEW vers, NEW versNew, AllExtend(versNew, vers)
    PROVE  /\ \A k, y, b : Told(ev, k, y, b) => Told(evNew, k, y, b)
           /\ \A k, y, b, t : ToldAt(ev, k, y, b, t) => ToldAt(evNew, k, y, b, t)
           /\ \A a : AuditOk(a, vers) => AuditOk(a, versNew)
           /\ \A chk : ChecksOk(ev, vers, chk) => ChecksOk(evNew, versNew, chk)
           /\ \A pols : PoliciesOk(ev, pols) => PoliciesOk(evNew, pols)
<1>1. /\ \A k, y, b : Told(ev, k, y, b) => Told(evNew, k, y, b)
      /\ \A k, y, b, t : ToldAt(ev, k, y, b, t) => ToldAt(evNew, k, y, b, t)
  BY DEF Told, ToldAt, Extends
<1>2. \A a : AuditOk(a, vers) => AuditOk(a, versNew)
  BY DEF AuditOk, AllExtend, Extends
<1> QED BY <1>1, <1>2 DEF ChecksOk, PoliciesOk

LEMMA CallStays ==
    ASSUME NEW ev, NEW evNew, Extends(evNew, ev),
           NEW pols, NEW polsNew, Extends(polsNew, pols),
           NEW vers, NEW versNew, AllExtend(versNew, vers),
           NEW set, NEW e, CallOk(e, ev, pols, vers, set)
    PROVE  CallOk(e, evNew, polsNew, versNew, set)
<1>1. \A k, y, b, t : ToldAt(ev, k, y, b, t) => ToldAt(evNew, k, y, b, t)
  BY RecordsStay
<1>2. \A a : AuditOk(a, vers) => AuditOk(a, versNew)
  BY RecordsStay
<1>3. \A v \in DOMAIN pols : v \in DOMAIN polsNew /\ polsNew[v] = pols[v]
  BY DEF Extends
<1>4. ApprovedOk(e, ev, pols) => ApprovedOk(e, evNew, polsNew)
  BY <1>1, <1>3 DEF ApprovedOk
<1> QED BY <1>2, <1>3, <1>4 DEF CallOk

\* Only one call changes, and it ends its step in order.
LEMMA CallsStay ==
    ASSUME NEW ev, NEW evNew, Extends(evNew, ev),
           NEW pols, NEW polsNew, Extends(polsNew, pols),
           NEW vers, NEW versNew, AllExtend(versNew, vers),
           NEW set, NEW cl, cl = [c \in Users |-> cl[c]],
           CallsOk(cl, ev, pols, vers, set),
           NEW c \in Users, NEW r, CallOk(r, evNew, polsNew, versNew, set)
    PROVE  /\ CallsOk([cl EXCEPT ![c] = r], evNew, polsNew, versNew, set)
           /\ CallsOk(cl, evNew, polsNew, versNew, set)
<1>1. \A d \in Users : CallOk(cl[d], evNew, polsNew, versNew, set)
  BY CallStays DEF CallsOk
<1>2. \A d \in Users : [cl EXCEPT ![c] = r][d] = IF d = c THEN r ELSE cl[d]
  OBVIOUS
<1> QED BY <1>1, <1>2 DEF CallsOk

\* A call that is over, or refused, has nothing to keep.
LEMMA CallEnds ==
    ASSUME NEW ev, NEW pols, NEW vers, NEW set, NEW why
    PROVE  /\ CallOk(NoCall, ev, pols, vers, set)
           /\ CallOk([op |-> "answered", approved |-> FALSE, why |-> why], ev, pols, vers, set)
BY DEF CallOk, NoCall, Deciding

-----------------------------------------------------------------------------
(* Handlers that only read *)

\* A setting changes under calls that are no longer steady then.
LEMMA Unsteady ==
    ASSUME NEW e, NEW ev, NEW pols, NEW vers, NEW set, CallOk(e, ev, pols, vers, set), NEW other,
           NEW r, r = IF "steady" \in DOMAIN e THEN [e EXCEPT !.steady = FALSE] ELSE e
    PROVE  CallOk(r, ev, pols, vers, other)
<1>1. CASE "steady" \notin DOMAIN e
  BY <1>1 DEF CallOk, ApprovedOk, Deciding
<1>2. CASE "steady" \in DOMAIN e
  <2>1. /\ DOMAIN r = DOMAIN e /\ r.steady = FALSE
        /\ \A f \in DOMAIN e \ {"steady"} : r[f] = e[f]
    BY <1>2 DEF CallOk
  <2>2. ApprovedOk(e, ev, pols) => ApprovedOk(r, ev, pols)
    BY <2>1 DEF ApprovedOk
  <2> QED BY <2>1, <2>2 DEF CallOk, Deciding
<1> QED BY <1>1, <1>2

LEMMA ChangeSettingStep ==
    ASSUME RecordsInv, ChangeSetting
    PROVE  RecordsInv'
<1> USE DEF ChangeSetting, UnchangedPlaybooks
<1>1. RecordsType'
  BY DEF RecordsInv, RecordsType
<1>2. CallsOk(call', evidence, policies, versions, setting')
  BY Unsteady DEF RecordsInv, CallsOk
<1> QED BY <1>1, <1>2 DEF RecordsInv

\* A step that changes nothing but the record of one call.
Reads(c, r) ==
    /\ call' = [call EXCEPT ![c] = r]
    /\ UNCHANGED <<evidence, policies, setting, books, versions, checks>>

LEMMA ReadStep ==
    ASSUME RecordsInv, NEW c \in Users, NEW r, Reads(c, r),
           CallOk(r, evidence, policies, versions, setting)
    PROVE  RecordsInv'
<1>1. RecordsType'
  BY DEF RecordsInv, RecordsType, Reads
<1>2. CallsOk(call', evidence, policies, versions, setting)
  BY DEF RecordsInv, CallsOk, RecordsType, Reads
<1> QED BY <1>1, <1>2 DEF RecordsInv, Reads

\* A transaction that is rolled back ends its call and leaves the rest.
LEMMA RolledBackStep ==
    ASSUME RecordsInv, NEW c \in Users, RolledBack, Next_(c, NoCall)
    PROVE  RecordsInv'
BY ReadStep, CallEnds DEF RolledBack, Next_, Reads

LEMMA AskGuardStep ==
    ASSUME RecordsInv, NEW c \in Users, AskGuard(c)
    PROVE  RecordsInv'
<1>1. PICK o \in DeskOrders :
        Next_(c, IF policies = <<>> THEN Making(o, TRUE, DefaultLimit, 1, "compare")
                 ELSE Pinning("compare", o, TRUE, Len(policies)))
  BY DEF AskGuard
<1>2. PICK r : r = IF policies = <<>> THEN Making(o, TRUE, DefaultLimit, 1, "compare")
                   ELSE Pinning("compare", o, TRUE, Len(policies))
  OBVIOUS
<1>3. Len(policies) \in Nat /\ (policies # <<>> => Len(policies) \in DOMAIN policies)
  BY DEF RecordsInv, RecordsType
<1>4. CallOk(r, evidence, policies, versions, setting)
  BY <1>2, <1>3, RecordsAssumption DEF CallOk, Deciding, Making, Pinning
<1>5. Reads(c, r)
  BY <1>1, <1>2 DEF AskGuard, Reads, Next_, UnchangedPolicies, UnchangedPlaybooks
<1> QED BY <1>4, <1>5, ReadStep

LEMMA CompareSettingStep ==
    ASSUME RecordsInv, NEW c \in Users, CompareSetting(c)
    PROVE  RecordsInv'
<1>1. PICK e, order, steady, pinned :
        e = call[c] /\ order = e.order /\ steady = e.steady /\ pinned = e.pinned
  OBVIOUS
<1>2. PICK r : r = IF setting = Missing \/ setting = policies[pinned]
                   THEN Pinning("decide", order, steady, pinned)
                   ELSE IF HasLatest(setting) THEN Pinning("decide", order, steady, Len(policies))
                   ELSE Making(order, steady, setting, Len(policies) + 1, "decide")
  OBVIOUS
<1>3. CallOk(e, evidence, policies, versions, setting) /\ e.op = "compare"
  BY <1>1 DEF RecordsInv, CallsOk, CompareSetting
<1>4. pinned \in DOMAIN policies
  BY <1>1, <1>3 DEF CallOk
<1>5. /\ Len(policies) \in Nat /\ (policies # <<>> => Len(policies) \in DOMAIN policies)
      /\ setting \in {Missing} \cup Limits
  BY DEF RecordsInv, RecordsType
<1>6. CallOk(r, evidence, policies, versions, setting)
  <2>1. CASE setting = Missing \/ setting = policies[pinned]
    BY <1>2, <1>4, <2>1 DEF CallOk, Deciding, Pinning
  <2>2. CASE ~ (setting = Missing \/ setting = policies[pinned]) /\ HasLatest(setting)
    <3>1. policies # <<>> /\ policies[Len(policies)] = setting
      BY <2>2 DEF HasLatest, Last
    <3> QED BY <1>2, <1>5, <2>2, <3>1 DEF CallOk, Deciding, Pinning
  <2>3. CASE ~ (setting = Missing \/ setting = policies[pinned]) /\ ~ HasLatest(setting)
    BY <1>2, <1>5, <2>3 DEF CallOk, Deciding, Making
  <2> QED BY <2>1, <2>2, <2>3
<1>7. Reads(c, r)
  BY <1>1, <1>2 DEF CompareSetting, Reads, Next_, UnchangedPolicies, UnchangedPlaybooks
<1> QED BY <1>6, <1>7, ReadStep

LEMMA EditPlaybookStep ==
    ASSUME RecordsInv, NEW c \in Users, EditPlaybook(c)
    PROVE  RecordsInv'
<1>1. PICK p \in Playbooks, title \in Titles \cup {Missing}, rules \in Rules \cup {Missing} :
        /\ versions[p] # <<>>
        /\ Next_(c, [op |-> "edit", playbook |-> p,
                     book |-> Book(IF title = Missing THEN Last(versions[p]).title ELSE title,
                                   IF rules = Missing THEN Last(versions[p]).rules ELSE rules)])
  BY DEF EditPlaybook
<1> DEFINE b == Book(IF title = Missing THEN Last(versions[p]).title ELSE title,
                     IF rules = Missing THEN Last(versions[p]).rules ELSE rules)
           r == [op |-> "edit", playbook |-> p, book |-> b]
<1>2. Last(versions[p]) \in Books
  <2>1. versions[p] \in Seq(Books) /\ versions[p] # <<>>
    BY <1>1 DEF RecordsInv, RecordsType
  <2> QED BY <2>1 DEF Last
<1>3. b \in Books
  BY <1>2 DEF Book, Books
<1>4. Reads(c, r)
  BY <1>1 DEF EditPlaybook, Reads, Next_, UnchangedPolicies, UnchangedPlaybooks
<1> HIDE DEF b
<1>5. CallOk(r, evidence, policies, versions, setting)
  BY <1>3 DEF CallOk, Deciding
<1> QED BY <1>4, <1>5, ReadStep

LEMMA AuditStep ==
    ASSUME RecordsInv, NEW c \in Users, Audit(c)
    PROVE  RecordsInv'
<1>1. PICK t \in AuditedTrades, p \in Playbooks : \E v \in DOMAIN versions[p], passed \in BOOLEAN :
        Next_(c, [op |-> "audit", trade |-> t, at |-> clock,
                  audit |-> [playbook |-> p, version |-> v, passed |-> passed,
                             rules |-> RulesOf(p, v)]])
  BY DEF Audit
<1>2. PICK v \in DOMAIN versions[p], passed \in BOOLEAN :
        Next_(c, [op |-> "audit", trade |-> t, at |-> clock,
                  audit |-> [playbook |-> p, version |-> v, passed |-> passed,
                             rules |-> RulesOf(p, v)]])
  BY <1>1
<1> DEFINE a == [playbook |-> p, version |-> v, passed |-> passed, rules |-> RulesOf(p, v)]
           r == [op |-> "audit", trade |-> t, at |-> clock, audit |-> a]
<1>3. AuditOk(a, versions)
  BY DEF AuditOk, RulesOf
<1>4. Reads(c, r)
  BY <1>2 DEF Audit, Reads, Next_, UnchangedPolicies, UnchangedPlaybooks
<1> HIDE DEF a
<1>5. CallOk(r, evidence, policies, versions, setting)
  BY <1>3 DEF CallOk, Deciding
<1> QED BY <1>4, <1>5, ReadStep

LEMMA BuildReviewStep ==
    ASSUME RecordsInv, NEW c \in Users, BuildReview(c)
    PROVE  RecordsInv'
<1>1. PICK key : Next_(c, [op |-> "review", key |-> key, known |-> HasEvent("review", key)])
  BY DEF BuildReview
<1> DEFINE r == [op |-> "review", key |-> key, known |-> HasEvent("review", key)]
<1>2. CallOk(r, evidence, policies, versions, setting)
  BY DEF CallOk, Deciding
<1>3. Reads(c, r)
  BY <1>1 DEF BuildReview, Reads, Next_, UnchangedPolicies, UnchangedPlaybooks
<1> QED BY <1>2, <1>3, ReadStep

-----------------------------------------------------------------------------
(* Handlers that write *)

LEMMA CreatePolicyStep ==
    ASSUME RecordsInv, NEW c \in Users, CreatePolicy(c)
    PROVE  RecordsInv'
<1> DEFINE e == call[c]
           limit == e.limit
           version == VersionFor(limit, e.next)
           r == Pinning(e.then, e.order, e.steady, version)
<1>0. CASE Refuses(c, "unavailable") /\ RolledBack
  BY <1>0, ReadStep, CallEnds DEF Refuses, RolledBack, Next_, Reads
<1> SUFFICES ASSUME /\ PolicyWith(limit, e.next) # policies =>
                           Accepts("policy", Len(PolicyWith(limit, e.next)), limit, clock)
                    /\ policies' = PolicyWith(limit, e.next)
                    /\ evidence' = IF policies' = policies THEN evidence
                                   ELSE WithEvidence("policy", Len(policies'), limit, clock)
                    /\ call' = [call EXCEPT ![c] = r]
                    /\ UNCHANGED <<setting, books, versions, checks>>
             PROVE  RecordsInv'
  BY <1>0 DEF CreatePolicy, Next_, UnchangedPlaybooks
<1>1. CallOk(e, evidence, policies, versions, setting) /\ e.op = "create"
  BY DEF RecordsInv, CallsOk, CreatePolicy
<1>2. /\ limit \in Limits /\ e.next \in Nat \ {0} /\ e.then \in {"compare", "decide"}
      /\ e.then = "decide" /\ e.steady => limit = setting
  BY <1>1 DEF CallOk
<1>3. policies \in Seq(Limits) /\ IsSeq(evidence)
  BY DEF RecordsInv, RecordsType
<1>4. /\ policies' \in Seq(Limits) /\ Extends(policies', policies)
      /\ version \in DOMAIN policies' /\ policies'[version] = limit
  <2> HIDE DEF e
  <2>1. CASE HasLatest(limit)
    <3>1. policies' = policies /\ version = Len(policies)
      BY <2>1 DEF PolicyWith, VersionFor
    <3> QED BY <1>3, <2>1, <3>1 DEF HasLatest, Last, Extends
  <2>2. CASE ~ HasLatest(limit) /\ e.next <= Len(policies) /\ policies[e.next] = limit
    <3>1. policies' = policies /\ version = e.next
      BY <2>2 DEF PolicyWith, VersionFor
    <3> QED BY <1>2, <1>3, <2>2, <3>1 DEF Extends
  <2>3. CASE ~ HasLatest(limit) /\ ~ (e.next <= Len(policies) /\ policies[e.next] = limit)
    <3>1. policies' = Append(policies, limit) /\ version = Len(Append(policies, limit))
      BY <2>3 DEF PolicyWith, VersionFor
    <3> QED BY <1>2, <1>3, <3>1, VersionAdded
  <2> QED BY <2>1, <2>2, <2>3
<1>5. IsSeq(evidence') /\ Extends(evidence', evidence) /\ PoliciesOk(evidence', policies')
  <2>1. CASE policies' = policies
    BY <1>3, <2>1 DEF RecordsInv, Extends
  <2>2. CASE policies' # policies
    <3> HIDE DEF e
    <3>1. ~ HasLatest(limit) /\ policies' = Append(policies, limit)
      BY <2>2 DEF PolicyWith
    <3>2. PICK n : n = Len(policies) + 1
      OBVIOUS
    <3>3. /\ Len(policies) \in Nat /\ DOMAIN policies = 1 .. Len(policies)
          /\ DOMAIN policies' = 1 .. n /\ policies'[n] = limit /\ Len(policies') = n
      BY <1>2, <1>3, <3>1, <3>2, VersionAdded
    <3>4. evidence' = WithEvidence("policy", n, limit, clock) /\ Accepts("policy", n, limit, clock)
      BY <2>2, <3>3
    <3>5. PICK lim : lim = limit
      OBVIOUS
    <3>6. Grown(evidence', evidence, "policy", n, lim, clock)
      BY <1>3, <3>4, <3>5, EventRecorded
    <3>7. Told(evidence', "policy", n, lim) /\ Extends(evidence', evidence) /\ IsSeq(evidence')
      BY <3>6 DEF Grown, ToldAt, Told
    <3>8. PoliciesOk(evidence', policies')
      <4>1. PoliciesOk(evidence', policies)
        BY <3>7 DEF RecordsInv, PoliciesOk, Told, Extends
      <4>2. n > 1 => policies'[n] # policies'[n - 1]
        <5>1. n > 1 => n - 1 = Len(policies) /\ n - 1 \in DOMAIN policies /\ policies # <<>>
          BY <1>3, <3>2, <3>3
        <5>2. n > 1 => policies'[n - 1] = policies[n - 1] /\ policies[n - 1] # limit
          BY <1>4, <3>1, <5>1 DEF HasLatest, Last, Extends
        <5> QED BY <3>3, <5>2
      <4>3. SUFFICES ASSUME NEW v \in DOMAIN policies'
                     PROVE  /\ Told(evidence', "policy", v, policies'[v])
                            /\ v > 1 => policies'[v] # policies'[v - 1]
        BY DEF PoliciesOk
      <4>4. CASE v = n
        BY <3>3, <3>5, <3>7, <4>2, <4>4
      <4>5. CASE v # n
        <5>1. v \in DOMAIN policies /\ policies'[v] = policies[v]
          BY <1>4, <3>2, <3>3, <4>5 DEF Extends
        <5>2. v > 1 => policies'[v - 1] = policies[v - 1]
          BY <1>4, <3>2, <3>3, <5>1 DEF Extends
        <5> QED BY <4>1, <5>1, <5>2 DEF PoliciesOk
      <4> QED BY <4>4, <4>5
    <3> QED BY <3>7, <3>8
  <2> QED BY <2>1, <2>2
<1>6. CallOk(r, evidence', policies', versions, setting)
  <2> HIDE DEF e, version
  <2> QED BY <1>2, <1>4 DEF CallOk, Deciding, Pinning
<1> HIDE DEF r, version, e
<1>7. AllExtend(versions, versions)
  BY DEF AllExtend, Extends
<1>8. CallsOk(call', evidence', policies', versions', setting')
  BY <1>4, <1>5, <1>6, <1>7, CallsStay DEF RecordsInv, RecordsType
<1>9. VersionsOk(evidence', versions) /\ ChecksOk(evidence', versions, checks)
  BY <1>5, <1>7, RecordsStay DEF RecordsInv, VersionsOk
<1>10. RecordsType'
  BY <1>4, <1>5 DEF RecordsInv, RecordsType
<1> QED BY <1>5, <1>8, <1>9, <1>10 DEF RecordsInv

\* Evidence of something that is neither a policy nor a playbook.
LEMMA EvidenceStep ==
    ASSUME RecordsInv, NEW c \in Users, NEW r,
           IsSeq(evidence'), Extends(evidence', evidence),
           CallOk(r, evidence', policies, versions, setting),
           call' = [call EXCEPT ![c] = r],
           UNCHANGED <<policies, setting, books, versions>>,
           checks' = [t \in AuditedTrades |-> checks'[t]],
           ChecksOk(evidence', versions, checks')
    PROVE  RecordsInv'
<1>1. AllExtend(versions, versions) /\ Extends(policies, policies)
  BY DEF AllExtend, Extends
<1>2. CallsOk(call', evidence', policies, versions, setting)
  BY <1>1, CallsStay DEF RecordsInv, RecordsType
<1>3. PoliciesOk(evidence', policies) /\ VersionsOk(evidence', versions)
  BY <1>1, RecordsStay DEF RecordsInv, VersionsOk
<1>4. RecordsType'
  BY DEF RecordsInv, RecordsType
<1> QED BY <1>2, <1>3, <1>4 DEF RecordsInv

\* The same with the checklists as they were.
LEMMA OnlyEvidenceStep ==
    ASSUME RecordsInv, NEW c \in Users, NEW r,
           IsSeq(evidence'), Extends(evidence', evidence),
           CallOk(r, evidence', policies, versions, setting),
           call' = [call EXCEPT ![c] = r],
           UNCHANGED <<policies, setting, books, versions, checks>>
    PROVE  RecordsInv'
<1>1. AllExtend(versions, versions)
  BY DEF AllExtend, Extends
<1>2. ChecksOk(evidence', versions, checks')
  BY <1>1, RecordsStay DEF RecordsInv
<1>3. checks' = [t \in AuditedTrades |-> checks'[t]]
  BY DEF RecordsInv, RecordsType
<1> QED BY <1>2, <1>3, EvidenceStep

LEMMA DecideStep ==
    ASSUME RecordsInv, NEW c \in Users, Decide(c)
    PROVE  RecordsInv'
<1>1. PICK e, order, pinned, steady :
        e = call[c] /\ order = e.order /\ pinned = e.pinned /\ steady = e.steady
  OBVIOUS
<1>2. CallOk(e, evidence, policies, versions, setting) /\ e.op = "decide"
  BY <1>1 DEF RecordsInv, CallsOk, Decide
<1>3. /\ pinned \in DOMAIN policies
      /\ steady /\ setting # Missing => policies[pinned] = setting
  BY <1>1, <1>2 DEF CallOk
<1>4. UNCHANGED <<policies, setting, books, versions, checks>>
  BY DEF Decide, UnchangedPlaybooks
<1>5. PICK gates \in Gates :
        LET outcome == Finding(order, policies[pinned], gates)
            key   == EvaluationKey(order, pinned, outcome)
        IN  \/ /\ Accepts("evaluation", key, outcome, clock)
               /\ evidence' = WithEvidence("evaluation", key, outcome, clock)
               /\ IF outcome \in Clear THEN Approves(c) ELSE Refuses(c, outcome)
            \/ /\ ~ Accepts("evaluation", key, outcome, clock)
               /\ Unrecorded(c, outcome, "conflict") /\ UNCHANGED evidence
            \/ Unrecorded(c, outcome, "failed") /\ UNCHANGED evidence
  BY <1>1 DEF Decide
<1>6. PICK outcome : outcome = Finding(order, policies[pinned], gates)
  OBVIOUS
<1>7. CASE \E why : Refuses(c, why) /\ UNCHANGED evidence
  BY <1>4, <1>7, ReadStep, CallEnds DEF Refuses, Next_, Reads
<1>8. CASE /\ Accepts("evaluation", <<order, pinned, outcome>>, outcome, clock)
           /\ evidence' = WithEvidence("evaluation", <<order, pinned, outcome>>, outcome, clock)
           /\ IF outcome \in Clear THEN Approves(c) ELSE Refuses(c, outcome)
  <2>1. PICK key : key = <<order, pinned, outcome>>
    OBVIOUS
  <2>2. IsSeq(evidence)
    BY DEF RecordsInv, RecordsType
  <2>3. Grown(evidence', evidence, "evaluation", key, outcome, clock)
    BY <1>8, <2>1, <2>2, EventRecorded
  <2>4. IsSeq(evidence') /\ Extends(evidence', evidence) /\ ToldAt(evidence', "evaluation", key, outcome, clock)
    BY <2>3 DEF Grown
  <2>5. CASE outcome \in Clear /\ Approves(c)
    <3>1. PICK r : r = [op |-> "answered", steady |-> steady, approved |-> TRUE, why |-> "cleared",
                        order |-> order, pinned |-> pinned, setting |-> setting, at |-> clock]
      OBVIOUS
    <3>2. call' = [call EXCEPT ![c] = r]
      BY <1>1, <2>5, <3>1 DEF Approves, Next_
    <3>3. Within(order, policies[pinned])
      BY <1>6, <2>5, RecordsAssumption DEF Finding
    <3>4. ApprovedOk(r, evidence', policies)
      BY <1>3, <2>1, <2>4, <2>5, <3>1, <3>3 DEF ApprovedOk
    <3>5. CallOk(r, evidence', policies, versions, setting)
      BY <3>1, <3>4 DEF CallOk, Deciding
    <3> QED BY <1>4, <2>4, <3>2, <3>5, OnlyEvidenceStep
  <2>6. CASE Refuses(c, outcome)
    BY <1>4, <2>4, <2>6, CallEnds, OnlyEvidenceStep DEF Refuses, Next_
  <2> QED BY <1>8, <2>5, <2>6
<1> QED BY <1>5, <1>6, <1>7, <1>8 DEF Unrecorded, EvaluationKey

LEMMA CommitAuditStep ==
    ASSUME RecordsInv, NEW c \in Users, CommitAudit(c)
    PROVE  RecordsInv'
<1>1. PICK t, a, at : t = call[c].trade /\ a = call[c].audit /\ at = call[c].at
  OBVIOUS
<1>2. AuditOk(a, versions)
  BY <1>1 DEF RecordsInv, CallsOk, CallOk, CommitAudit
<1>3. CASE RolledBack
  BY <1>3, RolledBackStep DEF CommitAudit
<1> SUFFICES ASSUME /\ Accepts("audit", <<t, a>>, a, at)
                    /\ checks' = [checks EXCEPT ![t] = [audit |-> a, at |-> at]]
                    /\ evidence' = WithEvidence("audit", <<t, a>>, a, at)
                    /\ call' = [call EXCEPT ![c] = NoCall]
                    /\ UNCHANGED <<policies, setting, books, versions>>
             PROVE  RecordsInv'
  BY <1>1, <1>3 DEF CommitAudit, Next_, UnchangedPolicies
<1>4. IsSeq(evidence) /\ checks = [u \in AuditedTrades |-> checks[u]]
  BY DEF RecordsInv, RecordsType
<1>5. PICK key : key = <<t, a>>
  OBVIOUS
<1>6. Grown(evidence', evidence, "audit", key, a, at)
  BY <1>4, <1>5, EventRecorded
<1>7. IsSeq(evidence') /\ Extends(evidence', evidence) /\ ToldAt(evidence', "audit", key, a, at)
  BY <1>6 DEF Grown
<1>8. ChecksOk(evidence', versions, checks')
  <2>1. ChecksOk(evidence', versions, checks)
    <3>1. AllExtend(versions, versions)
      BY DEF AllExtend, Extends
    <3> QED BY <1>7, <3>1, RecordsStay DEF RecordsInv
  <2>2. SUFFICES ASSUME NEW u \in AuditedTrades, checks'[u] # Missing
                 PROVE  /\ AuditOk(checks'[u].audit, versions)
                        /\ ToldAt(evidence', "audit", <<u, checks'[u].audit>>, checks'[u].audit, checks'[u].at)
    BY DEF ChecksOk
  <2>3. CASE u = t
    <3>1. checks'[u].audit = a /\ checks'[u].at = at
      BY <1>4, <2>3
    <3> QED BY <1>2, <1>5, <1>7, <2>3, <3>1
  <2>4. CASE u # t
    <3>1. checks'[u] = checks[u]
      BY <1>4, <2>4
    <3> QED BY <2>1, <2>2, <3>1 DEF ChecksOk
  <2> QED BY <2>3, <2>4
<1>9. checks' = [u \in AuditedTrades |-> checks'[u]]
  BY <1>4
<1> QED BY <1>7, <1>8, <1>9, CallEnds, EvidenceStep

LEMMA RecordDecisionStep ==
    ASSUME RecordsInv, NEW c \in Users, RecordDecision(c)
    PROVE  RecordsInv'
<1>1. PICK key, body, at : key = call[c].key /\ body = call[c].key[2] /\ at = SecondOf(clock)
  OBVIOUS
<1>2. CASE RolledBack
  BY <1>2, RolledBackStep DEF RecordDecision
<1>3. CASE ~ RolledBack
  <2>1. /\ \/ UNCHANGED evidence
           \/ Accepts("review", key, body, at) /\ evidence' = WithEvidence("review", key, body, at)
        /\ call' = [call EXCEPT ![c] = NoCall]
        /\ UNCHANGED <<policies, setting, books, versions, checks>>
    BY <1>1, <1>3 DEF RecordDecision, Next_, UnchangedPolicies, UnchangedPlaybooks
  <2>2. IsSeq(evidence)
    BY DEF RecordsInv, RecordsType
  <2>3. IsSeq(evidence') /\ Extends(evidence', evidence)
    BY <2>1, <2>2, EventRecorded DEF Grown, Extends
  <2> QED BY <2>1, <2>3, CallEnds, OnlyEvidenceStep
<1> QED BY <1>2, <1>3

LEMMA WriteBookStep ==
    ASSUME RecordsInv, NEW p \in Playbooks, NEW b \in Books, WriteBook(p, b),
           \/ UNCHANGED call
           \/ \E c \in Users : call' = [call EXCEPT ![c] = NoCall]
    PROVE  RecordsInv'
<1>1. /\ books' = [books EXCEPT ![p] = b]
      /\ versions' = [versions EXCEPT ![p] = Append(@, b)]
      /\ UNCHANGED <<policies, setting, checks>>
  BY DEF WriteBook, UnchangedPolicies
<1>2. PICK v : v = Len(versions[p]) + 1
  OBVIOUS
<1>3. Accepts("playbook", <<p, v>>, b, clock) /\ evidence' = WithEvidence("playbook", <<p, v>>, b, clock)
  BY <1>2 DEF WriteBook
<1>4. IsSeq(evidence) /\ versions \in [Playbooks -> Seq(Books)] /\ books \in [Playbooks -> {Missing} \cup Books]
  BY DEF RecordsInv, RecordsType
<1>5. /\ versions'[p] = Append(versions[p], b) /\ \A q \in Playbooks \ {p} : versions'[q] = versions[q]
      /\ books'[p] = b /\ \A q \in Playbooks \ {p} : books'[q] = books[q]
  BY <1>1, <1>4
<1>6. /\ versions'[p] \in Seq(Books) /\ Extends(versions'[p], versions[p])
      /\ Len(versions[p]) \in Nat /\ DOMAIN versions[p] = 1 .. Len(versions[p])
      /\ DOMAIN versions'[p] = 1 .. v /\ versions'[p][v] = b /\ Len(versions'[p]) = v
  BY <1>2, <1>4, <1>5, VersionAdded
<1>7. PICK key : key = <<p, v>>
  OBVIOUS
<1>8. Grown(evidence', evidence, "playbook", key, b, clock)
  BY <1>3, <1>4, <1>7, EventRecorded
<1>9. IsSeq(evidence') /\ Extends(evidence', evidence) /\ Told(evidence', "playbook", <<p, v>>, b)
  BY <1>7, <1>8 DEF Grown, ToldAt, Told
<1>10. AllExtend(versions', versions) /\ Extends(policies, policies)
  BY <1>5, <1>6 DEF AllExtend, Extends
<1>11. PoliciesOk(evidence', policies) /\ ChecksOk(evidence', versions', checks)
  BY <1>9, <1>10, RecordsStay DEF RecordsInv
<1>12. VersionsOk(evidence', versions')
  <2>1. SUFFICES ASSUME NEW q \in Playbooks, NEW w \in DOMAIN versions'[q]
                 PROVE  Told(evidence', "playbook", <<q, w>>, versions'[q][w])
    BY DEF VersionsOk
  <2>2. CASE q = p /\ w = v
    BY <1>6, <1>9, <2>2
  <2>3. CASE ~ (q = p /\ w = v)
    <3>1. w \in DOMAIN versions[q] /\ versions'[q][w] = versions[q][w]
      BY <1>2, <1>5, <1>6, <2>3 DEF Extends
    <3>2. Told(evidence, "playbook", <<q, w>>, versions[q][w])
      BY <3>1 DEF RecordsInv, VersionsOk
    <3>3. AllExtend(versions, versions)
      BY DEF AllExtend, Extends
    <3> QED BY <1>9, <3>1, <3>2, <3>3, RecordsStay
  <2> QED BY <2>2, <2>3
<1>13. ShownOk(versions', books')
  BY <1>5, <1>6 DEF RecordsInv, ShownOk
<1>14. CallOk(NoCall, evidence', policies, versions', setting)
  BY CallEnds
<1>15. CallsOk(call', evidence', policies, versions', setting)
  <2>1. CallsOk(call, evidence, policies, versions, setting) /\ call = [c \in Users |-> call[c]]
    BY DEF RecordsInv, RecordsType
  <2>2. CASE UNCHANGED call
    BY <1>9, <1>10, <2>1, <2>2, CallStays DEF CallsOk
  <2>3. CASE \E c \in Users : call' = [call EXCEPT ![c] = NoCall]
    BY <1>9, <1>10, <1>14, <2>1, <2>3, CallsStay
  <2> QED BY <2>2, <2>3
<1>16. RecordsType'
  <2>1. call' = [c \in Users |-> call'[c]]
    BY DEF RecordsInv, RecordsType
  <2>2. versions' \in [Playbooks -> Seq(Books)] /\ books' \in [Playbooks -> {Missing} \cup Books]
    BY <1>1, <1>4, <1>5, <1>6
  <2> QED BY <1>1, <1>9, <2>1, <2>2 DEF RecordsInv, RecordsType
<1> QED BY <1>1, <1>11, <1>12, <1>13, <1>15, <1>16 DEF RecordsInv

LEMMA PlaybookSteps ==
    ASSUME RecordsInv,
           \/ \E p \in Playbooks : BackfillLegacy(p)
           \/ \E c \in Users : CreatePlaybook(c) \/ CommitEdit(c)
    PROVE  RecordsInv'
<1>1. ASSUME NEW p \in Playbooks, BackfillLegacy(p) PROVE RecordsInv'
  <2>1. PICK b : b = books[p]
    OBVIOUS
  <2>2. WriteBook(p, b) /\ UNCHANGED call /\ b # Missing
    BY <1>1, <2>1 DEF BackfillLegacy
  <2>3. b \in Books
    BY <2>1, <2>2 DEF RecordsInv, RecordsType
  <2> QED BY <2>2, <2>3, WriteBookStep
<1>2. ASSUME NEW c \in Users, CreatePlaybook(c) PROVE RecordsInv'
  <2>1. PICK p \in Playbooks, title \in Titles, rules \in Rules : WriteBook(p, Book(title, rules))
    BY <1>2 DEF CreatePlaybook
  <2>2. Book(title, rules) \in Books /\ UNCHANGED call
    BY <1>2 DEF CreatePlaybook, Book, Books
  <2> QED BY <2>1, <2>2, WriteBookStep
<1>3. ASSUME NEW c \in Users, CommitEdit(c) PROVE RecordsInv'
  <2>1. PICK p, b : p = call[c].playbook /\ b = call[c].book
    OBVIOUS
  <2>2. p \in Playbooks /\ b \in Books
    BY <1>3, <2>1 DEF RecordsInv, CallsOk, CallOk, CommitEdit
  <2>3. WriteBook(p, b) \/ RolledBack
    BY <1>3, <2>1 DEF CommitEdit
  <2>4. Next_(c, NoCall) /\ call' = [call EXCEPT ![c] = NoCall]
    BY <1>3 DEF CommitEdit, Next_
  <2> QED BY <2>2, <2>3, <2>4, WriteBookStep, RolledBackStep
<1> QED BY <1>1, <1>2, <1>3

LEMMA TickStep ==
    ASSUME RecordsInv, Tick
    PROVE  RecordsInv'
BY DEF Tick, RecordsInv, RecordsType, UnchangedPolicies, UnchangedPlaybooks

LEMMA RecordsStart == RecordsInit => RecordsInv
<1> SUFFICES ASSUME RecordsInit PROVE RecordsInv
  OBVIOUS
<1>1. IsSeq(<<>>) /\ DOMAIN <<>> = {}
  <2>1. <<>> \in Seq({}) /\ DOMAIN <<>> = {}
    OBVIOUS
  <2>2. IsSeq(<<>>)
    BY <2>1, SeqOver
  <2> QED BY <2>1, <2>2
<1>2. books \in [Playbooks -> {Missing} \cup Books]
  BY DEF RecordsInit, Books
<1>3. RecordsType
  BY <1>1, <1>2 DEF RecordsInit, RecordsType
<1>4. PoliciesOk(evidence, policies)
  BY <1>1 DEF RecordsInit, PoliciesOk
<1>5. VersionsOk(evidence, versions) /\ ShownOk(versions, books)
  BY <1>1 DEF RecordsInit, VersionsOk, ShownOk
<1>6. ChecksOk(evidence, versions, checks)
  BY DEF RecordsInit, ChecksOk
<1>7. CallsOk(call, evidence, policies, versions, setting)
  BY DEF RecordsInit, CallsOk, CallOk, NoCall, Deciding
<1> QED BY <1>3, <1>4, <1>5, <1>6, <1>7 DEF RecordsInv

LEMMA RecordsStep == RecordsInv /\ [RecordsNext]_recordVars => RecordsInv'
<1> SUFFICES ASSUME RecordsInv, [RecordsNext]_recordVars PROVE RecordsInv'
  OBVIOUS
<1>1. CASE UNCHANGED recordVars
  BY <1>1 DEF recordVars, RecordsInv, RecordsType
<1>2. CASE ChangeSetting
  BY <1>2, ChangeSettingStep
<1>3. CASE Tick
  BY <1>3, TickStep
<1>4. CASE \E p \in Playbooks : BackfillLegacy(p)
  BY <1>4, PlaybookSteps
<1>5. ASSUME NEW c \in Users,
             AskGuard(c) \/ CompareSetting(c) \/ EditPlaybook(c) \/ Audit(c) \/ BuildReview(c)
      PROVE  RecordsInv'
  BY <1>5, AskGuardStep, CompareSettingStep, EditPlaybookStep, AuditStep, BuildReviewStep
<1>6. ASSUME NEW c \in Users, CreatePolicy(c) \/ Decide(c) \/ CommitAudit(c) \/ RecordDecision(c)
      PROVE  RecordsInv'
  BY <1>6, CreatePolicyStep, DecideStep, CommitAuditStep, RecordDecisionStep
<1>7. ASSUME NEW c \in Users, CreatePlaybook(c) \/ CommitEdit(c)
      PROVE  RecordsInv'
  BY <1>7, PlaybookSteps
<1> QED BY <1>1, <1>2, <1>3, <1>4, <1>5, <1>6, <1>7 DEF RecordsNext

\* However the handlers interleave, the invariant holds.
THEOREM RecordsInvariant == RecordsSpec => []RecordsInv
<1> QED
  BY RecordsStart, RecordsStep, PTL DEF RecordsSpec

\* Every version of a policy or a playbook has an event that says what it says,
\* the checklist of a trade is one that was recorded, with its time, against the
\* version it names, and an order is approved only with evidence of that decision
\* at that moment, and under the limit of the version it names if it has a stop
\* loss: risk_policy_service.py, risk_guard.py, playbook_service.py.
THEOREM RecordsAreEvidenced == RecordsSpec => []RecordsSound
<1>1. RecordsInv => RecordsSound
  <2> SUFFICES ASSUME RecordsInv PROVE RecordsSound
    OBVIOUS
  <2>1. RecordsEvidenced
    <3>1. \A p \in Playbooks : versions[p] # <<>> => books[p] = Last(versions[p])
      BY DEF RecordsInv, ShownOk, Last
    <3>2. \A v \in DOMAIN policies : /\ Evidenced("policy", v, policies[v])
                                     /\ v > 1 => policies[v] # policies[v - 1]
      BY DEF RecordsInv, PoliciesOk, Told, Evidenced
    <3>3. \A p \in Playbooks : \A v \in DOMAIN versions[p] :
             Evidenced("playbook", <<p, v>>, versions[p][v])
      BY DEF RecordsInv, VersionsOk, Told, Evidenced
    <3>4. \A t \in AuditedTrades : checks[t] # Missing =>
             LET a == checks[t].audit
             IN  /\ a.rules = versions[a.playbook][a.version].rules
                 /\ EvidencedAt("audit", <<t, a>>, a, checks[t].at)
      BY DEF RecordsInv, ChecksOk, AuditOk, ToldAt, EvidencedAt
    <3> QED BY <3>1, <3>2, <3>3, <3>4 DEF RecordsEvidenced
  <2>2. GuardSound
    <3> SUFFICES ASSUME NEW c \in Users, call[c].op = "answered", call[c].approved
                 PROVE  /\ \E outcome \in Clear :
                              EvidencedAt("evaluation", EvaluationKey(call[c].order, call[c].pinned, outcome),
                                          outcome, call[c].at)
                        /\ call[c].order.stop => call[c].order.risk <= policies[call[c].pinned]
                        /\ call[c].steady /\ call[c].setting # Missing =>
                              policies[call[c].pinned] = call[c].setting
      BY DEF GuardSound
    <3>1. ApprovedOk(call[c], evidence, policies)
      BY DEF RecordsInv, CallsOk, CallOk
    <3> QED BY <3>1 DEF ApprovedOk, Within, ToldAt, EvidencedAt, EvaluationKey
  <2> QED BY <2>1, <2>2 DEF RecordsSound
<1> QED
  BY <1>1, RecordsInvariant, PTL

------------------------------------------------------------------------------
(***************************************************************************)
(* Proofs about the upgrade, for any rows, files beside the journal and    *)
(* points at which it is stopped.                                          *)
(*                                                                         *)
(* What is written is, at every step, in the file that has the name of the *)
(* journal or in one that was moved aside (UpgradeOk): the file that replaces*)
(* it is a copy of it that only gains, and a file moved aside comes back or*)
(* stays where it is.                                                      *)
(***************************************************************************)

KeptAside(files) == UNION {RowsIn(files[i]) : i \in DOMAIN files}

LEMMA KeptAppended ==
    ASSUME NEW S, NEW s \in Seq(S), NEW x \in S
    PROVE  /\ Append(s, x) \in Seq(S) /\ Append(s, x) # <<>>
           /\ Append(s, x)[Len(Append(s, x))] = x
           /\ KeptAside(s) \cup RowsIn(x) \subseteq KeptAside(Append(s, x))
<1>1. /\ Append(s, x) \in Seq(S) /\ Len(Append(s, x)) = Len(s) + 1 /\ Len(s) \in Nat
      /\ DOMAIN Append(s, x) = 1 .. Len(s) + 1 /\ DOMAIN s = 1 .. Len(s)
  OBVIOUS
<1>2. Append(s, x)[Len(s) + 1] = x /\ \A i \in 1 .. Len(s) : Append(s, x)[i] = s[i]
  OBVIOUS
<1>3. RowsIn(x) \subseteq KeptAside(Append(s, x))
  BY <1>1, <1>2 DEF KeptAside
<1>4. ASSUME NEW i \in DOMAIN s PROVE RowsIn(s[i]) \subseteq KeptAside(Append(s, x))
  BY <1>1, <1>2, <1>4 DEF KeptAside
<1>5. KeptAside(s) \subseteq KeptAside(Append(s, x))
  BY <1>4 DEF KeptAside
<1>6. Append(s, x) # <<>>
  BY <1>1
<1> QED BY <1>1, <1>2, <1>3, <1>5, <1>6

LEMMA KeptTakenBack ==
    ASSUME NEW S, NEW s \in Seq(S), s # <<>>
    PROVE  /\ SubSeq(s, 1, Len(s) - 1) \in Seq(S) /\ s[Len(s)] \in S
           /\ KeptAside(s) \subseteq RowsIn(s[Len(s)]) \cup KeptAside(SubSeq(s, 1, Len(s) - 1))
<1> DEFINE r == SubSeq(s, 1, Len(s) - 1)
<1>1. Len(s) \in Nat /\ Len(s) > 0 /\ DOMAIN s = 1 .. Len(s)
  OBVIOUS
<1>2. r \in Seq(S) /\ Len(r) = Len(s) - 1 /\ \A i \in 1 .. Len(s) - 1 : r[i] = s[i]
  BY <1>1
<1>3. DOMAIN r = 1 .. Len(s) - 1
  BY <1>1, <1>2
<1>4. ASSUME NEW i \in DOMAIN s PROVE RowsIn(s[i]) \subseteq RowsIn(s[Len(s)]) \cup KeptAside(r)
  <2>1. CASE i = Len(s)
    BY <2>1
  <2>2. CASE i # Len(s)
    <3>1. i \in DOMAIN r /\ r[i] = s[i]
      BY <1>1, <1>2, <1>3, <2>2
    <3> QED BY <3>1 DEF KeptAside
  <2> QED BY <2>1, <2>2
<1>5. s[Len(s)] \in S
  BY <1>1
<1> HIDE DEF r
<1>6. KeptAside(s) \subseteq RowsIn(s[Len(s)]) \cup KeptAside(r)
  BY <1>4 DEF KeptAside
<1> QED BY <1>2, <1>5, <1>6 DEF r

\* What each step of the command knows of the file it found, of the one it works on
\* and of the one it moved aside.
UpgradeOk ==
    /\ target \in JournalFiles \cup {NoFile} /\ aside \in Seq(JournalFiles)
    /\ written \subseteq RowsIn(target) \cup KeptAside(aside)
    /\ pc \in {"idle", "checked", "staged", "migrated", "backfilled", "rebuilt", "verified", "moved", "promoted"}
    /\ pc # "idle" => found \in JournalFiles /\ found.wal = {} /\ answer = "none"
    /\ pc \notin {"idle", "moved", "promoted"} => target = found
    /\ pc = "promoted" => UpgradeOf(target)
    /\ pc \notin {"idle", "checked", "promoted"} => work \in JournalFiles /\ work.rows = found.rows
    /\ pc = "rebuilt" => work.evidenced = work.projected
    /\ pc \in {"verified", "moved"} => work.evidenced = work.rows /\ work.projected = work.rows
    /\ pc = "moved" => target = NoFile /\ aside # <<>> /\ aside[Len(aside)] = found
    /\ answer = "refused" => target = found
    /\ answer = "failed" => target = found \/ UpgradeOf(target)
    /\ answer = "upgraded" => UpgradeOf(target)

LEMMA FileFacts ==
    ASSUME NEW db \in JournalFiles
    PROVE  /\ db # NoFile /\ RowsIn(db) = db.rows \cup db.wal
           /\ db.rows \subseteq Trades /\ db.wal \subseteq Trades
BY UpgradeAssumption DEF JournalFiles, RowsIn

LEMMA UpgradeBegins == UpgradeInit => UpgradeOk
<1>1. SUFFICES ASSUME UpgradeInit PROVE UpgradeOk
  OBVIOUS
<1>2. target \in JournalFiles
  BY <1>1 DEF UpgradeInit, Databases, JournalFiles
<1>3. aside \in Seq(JournalFiles)
  BY <1>1 DEF UpgradeInit
<1> QED BY <1>1, <1>2, <1>3 DEF UpgradeInit, UpgradeOk

LEMMA PreflightKept == UpgradeOk /\ Preflight => UpgradeOk'
<1>1. SUFFICES ASSUME UpgradeOk, Preflight PROVE UpgradeOk'
  OBVIOUS
<1> DEFINE db == IF target = NoFile THEN NoFile ELSE [target EXCEPT !.rows = RowsIn(target), !.wal = {}]
<1>2. db \in JournalFiles \cup {NoFile} /\ RowsIn(db) = RowsIn(target) /\ (db # NoFile => db.wal = {})
  <2>1. CASE target = NoFile
    BY <2>1
  <2>2. CASE target # NoFile
    <3>1. target \in JournalFiles
      BY <1>1, <2>2 DEF UpgradeOk
    <3>2. db \in JournalFiles /\ db.rows = RowsIn(target) /\ db.wal = {}
      BY <2>2, <3>1, FileFacts DEF JournalFiles
    <3> QED BY <3>2, FileFacts
  <2> QED BY <2>1, <2>2
<1>3. /\ target' = db /\ found' = db /\ UNCHANGED <<aside, written>>
      /\ \/ answer' \in {"refused", "current"} /\ pc' = "idle"
         \/ answer' = "none" /\ pc' = "checked" /\ db # NoFile
  <2>1. target' = db /\ found' = db /\ UNCHANGED <<aside, written>>
    BY <1>1 DEF Preflight
  <2>2. \/ answer' \in {"refused", "current"} /\ pc' = "idle"
        \/ answer' = "none" /\ pc' = "checked" /\ db # NoFile
    BY <1>1 DEF Preflight, Answer
  <2> QED BY <2>1, <2>2
<1> HIDE DEF db
<1>4. written' \subseteq RowsIn(target') \cup KeptAside(aside')
  BY <1>1, <1>2, <1>3 DEF UpgradeOk
<1> QED BY <1>1, <1>2, <1>3, <1>4 DEF UpgradeOk

LEMMA CopyKept == UpgradeOk /\ (Stage \/ AddSchema \/ Rebuild) => UpgradeOk'
<1>1. SUFFICES ASSUME UpgradeOk, Stage \/ AddSchema \/ Rebuild PROVE UpgradeOk'
  OBVIOUS
<1>2. UNCHANGED <<target, aside, found, answer, written>> /\ pc # "idle" /\ target = found /\ found \in JournalFiles /\ answer = "none"
  BY <1>1 DEF UpgradeOk, Stage, AddSchema, Rebuild, UpgradeStep
<1>3. written' \subseteq RowsIn(target') \cup KeptAside(aside')
  BY <1>1, <1>2 DEF UpgradeOk
<1>4. CASE Stage
  BY <1>1, <1>2, <1>3, <1>4 DEF UpgradeOk, Stage, UpgradeStep
<1>5. CASE AddSchema
  <2>1. work' \in JournalFiles /\ work'.rows = work.rows
    BY <1>1, <1>5 DEF UpgradeOk, AddSchema, UpgradeStep, JournalFiles
  <2> QED BY <1>1, <1>2, <1>3, <1>5, <2>1 DEF UpgradeOk, AddSchema, UpgradeStep
<1>6. CASE Rebuild
  <2>1. work' \in JournalFiles /\ work'.rows = work.rows /\ work'.projected = work'.evidenced
    BY <1>1, <1>6 DEF UpgradeOk, Rebuild, UpgradeStep, JournalFiles
  <2> QED BY <1>1, <1>2, <1>3, <1>6, <2>1 DEF UpgradeOk, Rebuild, UpgradeStep
<1> QED BY <1>1, <1>4, <1>5, <1>6

LEMMA ChecksKept == UpgradeOk /\ (Backfill \/ VerifyStaged) => UpgradeOk'
<1>1. SUFFICES ASSUME UpgradeOk, Backfill \/ VerifyStaged PROVE UpgradeOk'
  OBVIOUS
<1>2. UNCHANGED <<target, aside, found, written>> /\ pc # "idle" /\ target = found /\ found \in JournalFiles
  BY <1>1 DEF UpgradeOk, Backfill, VerifyStaged, UpgradeStep
<1>3. written' \subseteq RowsIn(target') \cup KeptAside(aside')
  BY <1>1, <1>2 DEF UpgradeOk
<1>4. CASE answer' = "failed" /\ pc' = "idle"
  BY <1>1, <1>2, <1>3, <1>4 DEF UpgradeOk
<1>5. CASE Backfill /\ ~ (answer' = "failed" /\ pc' = "idle")
  <2>1. UpgradeStep("migrated", "backfilled") /\ work' = [work EXCEPT !.evidenced = @ \cup (work.rows \ work.evidenced)]
    BY <1>5 DEF Backfill, Answer
  <2>2. work' \in JournalFiles /\ work'.rows = work.rows
    BY <1>1, <2>1 DEF UpgradeOk, UpgradeStep, JournalFiles
  <2> QED BY <1>1, <1>2, <1>3, <2>1, <2>2 DEF UpgradeOk, UpgradeStep
<1>6. CASE VerifyStaged /\ ~ (answer' = "failed" /\ pc' = "idle")
  <2>1. UpgradeStep("rebuilt", "verified") /\ UNCHANGED work /\ Valid(work)
    BY <1>6 DEF VerifyStaged, Answer
  <2> QED BY <1>1, <1>2, <1>3, <2>1 DEF UpgradeOk, UpgradeStep, Valid, CoverageReady
<1> QED BY <1>1, <1>4, <1>5, <1>6

LEMMA SwapKept == UpgradeOk /\ (MoveAside \/ Promote \/ ReportUpgrade) => UpgradeOk'
<1>1. SUFFICES ASSUME UpgradeOk, MoveAside \/ Promote \/ ReportUpgrade PROVE UpgradeOk'
  OBVIOUS
<1>2. CASE MoveAside
  <2>1. /\ pc = "verified" /\ pc' = "moved" /\ UNCHANGED <<found, answer, written, work>> /\ answer = "none"
        /\ aside' = Append(aside, target) /\ target' = NoFile /\ target = found /\ found \in JournalFiles
    BY <1>1, <1>2 DEF UpgradeOk, MoveAside, UpgradeStep
  <2>2. /\ aside' \in Seq(JournalFiles) /\ aside' # <<>> /\ aside'[Len(aside')] = found
        /\ KeptAside(aside) \cup RowsIn(found) \subseteq KeptAside(aside')
    BY <1>1, <2>1, KeptAppended DEF UpgradeOk
  <2>3. written' \subseteq RowsIn(target') \cup KeptAside(aside')
    BY <1>1, <2>1, <2>2 DEF UpgradeOk
  <2> QED BY <1>1, <2>1, <2>2, <2>3 DEF UpgradeOk
<1>3. CASE Promote
  <2>1. /\ pc = "moved" /\ pc' = "promoted" /\ UNCHANGED <<found, answer, aside, written>> /\ answer = "none"
        /\ target' = work /\ target = NoFile /\ work \in JournalFiles /\ found \in JournalFiles /\ found.wal = {}
    BY <1>1, <1>3 DEF UpgradeOk, Promote, UpgradeStep
  <2>2. RowsIn(target) = {}
    BY <2>1 DEF RowsIn
  <2>3. written' \subseteq RowsIn(target') \cup KeptAside(aside')
    BY <1>1, <2>1, <2>2 DEF UpgradeOk
  <2>4. UpgradeOf(target)'
    <3>1. RowsIn(found) = found.rows /\ work # NoFile
      BY <2>1, FileFacts
    <3>2. work.rows = found.rows /\ work.evidenced = work.rows /\ work.projected = work.rows
      BY <1>1, <2>1 DEF UpgradeOk
    <3>3. RowsIn(found)' = RowsIn(found)
      BY <2>1 DEF RowsIn
    <3> QED BY <2>1, <3>1, <3>2, <3>3 DEF UpgradeOf
  <2> QED BY <1>1, <2>1, <2>3, <2>4 DEF UpgradeOk
<1>4. CASE ReportUpgrade
  <2>1. pc = "promoted" /\ pc' = "idle" /\ answer' = "upgraded" /\ UNCHANGED <<target, found, aside, written>>
    BY <1>4 DEF ReportUpgrade, Answer
  <2>2. UpgradeOf(target)' /\ written' \subseteq RowsIn(target') \cup KeptAside(aside')
    BY <1>1, <2>1 DEF UpgradeOk, UpgradeOf, RowsIn
  <2> QED BY <1>1, <2>1, <2>2 DEF UpgradeOk
<1> QED BY <1>1, <1>2, <1>3, <1>4

LEMMA RaiseKept == UpgradeOk /\ Raise => UpgradeOk'
<1>1. SUFFICES ASSUME UpgradeOk, Raise PROVE UpgradeOk'
  OBVIOUS
<1>2. /\ pc # "idle" /\ pc' = "idle" /\ answer' = "failed" /\ UNCHANGED <<found, written>>
      /\ MoveBack /\ found \in JournalFiles
  BY <1>1 DEF UpgradeOk, Raise, Answer
<1>3. /\ (target = found \/ UpgradeOf(target))' /\ aside' \in Seq(JournalFiles)
      /\ target' \in JournalFiles \cup {NoFile}
      /\ RowsIn(target) \cup KeptAside(aside) \subseteq RowsIn(target') \cup KeptAside(aside')
  <2>1. CASE pc = "moved"
    <3>1. target' = found /\ aside' = SubSeq(aside, 1, Len(aside) - 1) /\ target = NoFile /\ aside # <<>>
      BY <1>1, <1>2, <2>1 DEF UpgradeOk, MoveBack
    <3>2. RowsIn(target) = {}
      BY <3>1 DEF RowsIn
    <3>3. aside \in Seq(JournalFiles) /\ aside[Len(aside)] = found
      BY <1>1, <2>1 DEF UpgradeOk
    <3>4. aside' \in Seq(JournalFiles) /\ KeptAside(aside) \subseteq RowsIn(found) \cup KeptAside(aside')
      BY <3>1, <3>3, KeptTakenBack
    <3> QED BY <1>2, <3>1, <3>2, <3>4
  <2>2. CASE pc # "moved"
    <3>1. UNCHANGED <<target, aside, found>>
      BY <1>2, <2>2 DEF MoveBack
    <3>2. target = found \/ UpgradeOf(target)
      BY <1>1, <1>2, <2>2 DEF UpgradeOk
    <3>3. (target = found \/ UpgradeOf(target))'
      BY <3>1, <3>2 DEF UpgradeOf, RowsIn
    <3> QED BY <1>1, <3>1, <3>3 DEF UpgradeOk
  <2> QED BY <2>1, <2>2
<1>4. written' \subseteq RowsIn(target') \cup KeptAside(aside')
  BY <1>1, <1>2, <1>3 DEF UpgradeOk
<1> QED BY <1>1, <1>2, <1>3, <1>4 DEF UpgradeOk

LEMMA KillKept == UpgradeOk /\ KillUpgrade => UpgradeOk'
<1>1. SUFFICES ASSUME UpgradeOk, KillUpgrade PROVE UpgradeOk'
  OBVIOUS
<1>2. pc' = "idle" /\ answer' = "killed" /\ UNCHANGED <<target, aside, found, written>>
  BY <1>1 DEF KillUpgrade
<1>3. written' \subseteq RowsIn(target') \cup KeptAside(aside')
  BY <1>1, <1>2 DEF UpgradeOk
<1> QED BY <1>1, <1>2, <1>3 DEF UpgradeOk

LEMMA AppStartKept == UpgradeOk /\ StartApp => UpgradeOk'
<1>1. SUFFICES ASSUME UpgradeOk, StartApp PROVE UpgradeOk'
  OBVIOUS
<1> DEFINE db == IF target = NoFile
                 THEN [version |-> Current, rows |-> {}, evidenced |-> {}, projected |-> {}, wal |-> {}]
                 ELSE target
<1>2. pc = "idle" /\ pc' = "idle" /\ answer' = "none" /\ UNCHANGED <<aside, found>>
  BY <1>1 DEF StartApp
<1>3. PICK t \in Trades \cup {NoFile}, folds \in BOOLEAN :
        /\ target' = [version |-> IF db.version = 0 THEN 0 ELSE Current,
                      rows |-> IF folds THEN RowsIn(db) \cup ({t} \ {NoFile}) ELSE db.rows,
                      wal |-> IF folds THEN {} ELSE db.wal \cup ({t} \ {NoFile}),
                      evidenced |-> db.evidenced \cup ({t} \ {NoFile}),
                      projected |-> db.projected \cup ({t} \ {NoFile})]
        /\ written' = written \cup ({t} \ {NoFile})
  BY <1>1 DEF StartApp
<1>4. db \in JournalFiles /\ RowsIn(target) \subseteq RowsIn(db) /\ RowsIn(db) \subseteq Trades
  <2>1. CASE target = NoFile
    <3>1. db \in JournalFiles
      BY <2>1 DEF JournalFiles
    <3>2. RowsIn(target) = {}
      BY <2>1 DEF RowsIn
    <3> HIDE DEF db
    <3> QED BY <3>1, <3>2, FileFacts
  <2>2. CASE target # NoFile
    BY <1>1, <2>2, FileFacts DEF UpgradeOk
  <2> QED BY <2>1, <2>2
<1> HIDE DEF db
<1> DEFINE new == {t} \ {NoFile}
<1>5. /\ db.evidenced \subseteq Trades /\ db.projected \subseteq Trades /\ new \subseteq Trades
      /\ db.rows \subseteq Trades /\ db.wal \subseteq Trades /\ RowsIn(db) = db.rows \cup db.wal
      /\ db.version \in Versions \cup {Current}
  BY <1>4, FileFacts DEF JournalFiles
<1> HIDE DEF new
<1>6. /\ target' \in JournalFiles
      /\ target'.rows = (IF folds THEN RowsIn(db) \cup new ELSE db.rows)
      /\ target'.wal = (IF folds THEN {} ELSE db.wal \cup new)
  BY <1>3, <1>4, <1>5 DEF JournalFiles, new
<1>7. RowsIn(db) \cup new \subseteq RowsIn(target')
  BY <1>5, <1>6, FileFacts
<1>8. written' \subseteq RowsIn(target') \cup KeptAside(aside')
  BY <1>1, <1>2, <1>3, <1>4, <1>7 DEF UpgradeOk, new
<1> QED BY <1>1, <1>2, <1>6, <1>8 DEF UpgradeOk

LEMMA UpgradeStays == UpgradeOk /\ UNCHANGED upgradeVars => UpgradeOk'
<1>1. SUFFICES ASSUME UpgradeOk, UNCHANGED upgradeVars PROVE UpgradeOk'
  OBVIOUS
<1>2. UNCHANGED <<target, aside, work, pc, found, answer, written>>
  BY <1>1 DEF upgradeVars
<1>3. /\ RowsIn(target)' = RowsIn(target) /\ KeptAside(aside)' = KeptAside(aside)
      /\ UpgradeOf(target)' = UpgradeOf(target)
  BY <1>2 DEF RowsIn, KeptAside, UpgradeOf
<1> QED BY <1>1, <1>2, <1>3 DEF UpgradeOk

\* UpgradeKeepsJournal: nothing that was saved is lost to a raise, a kill or a second
\* command, a failure leaves the journal as it was found or wholly upgraded, and
\* UPGRADED means whole.
THEOREM UpgradeLosesNothing == UpgradeSpec => []UpgradeKeepsJournal
<1>1. UpgradeInit => UpgradeOk
  BY UpgradeBegins
<1>2. UpgradeOk /\ [UpgradeNext]_upgradeVars => UpgradeOk'
  BY PreflightKept, CopyKept, ChecksKept, SwapKept, RaiseKept, KillKept, AppStartKept, UpgradeStays DEF UpgradeNext
<1>3. UpgradeOk => UpgradeKeepsJournal
  BY DEF UpgradeOk, UpgradeKeepsJournal, KeptAside
<1> QED BY <1>1, <1>2, <1>3, PTL DEF UpgradeSpec

-----------------------------------------------------------------------------
(***************************************************************************)
(* Proofs about the chart review, for any minutes, rows, reviewers and      *)
(* bounds.                                                                  *)
(*                                                                          *)
(* Every session holds a finite set of minutes with its cursor inside       *)
(* (ReviewSessions); so the bar of a frame exists.  The revisions it has    *)
(* read are the first ones of the journal, and none that follows is older   *)
(* than its bars (KeepsPlans): they were all there when it read, and the    *)
(* clock only goes on.  The minutes of a closed trade form one run because  *)
(* each minute that is kept brings those between it and the trade.          *)
(***************************************************************************)

\* A set of numbers up to some number has a largest one.
LEMMA LargestExists ==
    ASSUME NEW n \in Nat, NEW t, t \subseteq 0 .. n, t # {}
    PROVE  \E x \in t : \A y \in t : y <= x
<1> DEFINE S == {n - i : i \in t}
<1>1. S \subseteq Nat /\ S # {}
  <2>1. \A i \in 0 .. n : n - i \in Nat
    OBVIOUS
  <2> QED BY <2>1
<1> HIDE DEF S
<1>2. PICK k \in S : \A m \in S : ~ (<<m, k>> \in OpToRel(<, Nat))
  BY <1>1, NatLessThanWellFounded, WFMin
<1>3. PICK x \in t : k = n - x
  BY DEF S
<1>4. ASSUME NEW y \in t PROVE y <= x
  <2>0. n - y \in S
    BY DEF S
  <2>1. n - y \in Nat /\ k \in Nat
    BY <1>1, <1>2, <2>0
  <2>2. ~ (n - y < k)
    BY <1>2, <2>0, <2>1 DEF OpToRel
  <2>3. x \in Int /\ y \in Int
    OBVIOUS
  <2> QED
    BY <1>3, <2>1, <2>2, <2>3
<1> QED
  BY <1>4

LEMMA SmallestExists ==
    ASSUME NEW n \in Nat, NEW t, t \subseteq 0 .. n, t # {}
    PROVE  \E x \in t : \A y \in t : x <= y
<1> DEFINE S == {n - i : i \in t}
<1>1. S \subseteq 0 .. n /\ S # {}
  <2>1. \A i \in 0 .. n : n - i \in 0 .. n
    OBVIOUS
  <2> QED BY <2>1
<1> HIDE DEF S
<1>2. PICK k \in S : \A m \in S : m <= k
  BY <1>1, LargestExists
<1>3. PICK x \in t : k = n - x
  BY DEF S
<1>4. ASSUME NEW y \in t PROVE x <= y
  <2>1. n - y \in S /\ x \in Int /\ y \in Int
    BY DEF S
  <2>2. n - y <= n - x
    BY <1>2, <1>3, <2>1
  <2> QED
    BY <2>1, <2>2
<1> QED
  BY <1>4

\* In a finite set of numbers there is one for each number of smaller ones.
RanksTo(n) ==
    {m \in 0 .. n + 1 : \A bars \in SUBSET (0 .. m - 1), k \in Nat : k < Cardinality(bars) =>
        \E b \in bars : Cardinality({c \in bars : c < b}) = k}

LEMMA RankStep ==
    ASSUME NEW n \in Nat, NEW m \in 0 .. n, m \in RanksTo(n)
    PROVE  m + 1 \in RanksTo(n)
<1> SUFFICES ASSUME NEW bars \in SUBSET (0 .. m), NEW k \in Nat, k < Cardinality(bars)
             PROVE  \E b \in bars : Cardinality({c \in bars : c < b}) = k
  BY DEF RanksTo
<1> DEFINE less == bars \ {m}
<1>0. IsFiniteSet(bars) /\ less \in SUBSET (0 .. m - 1) /\ IsFiniteSet(less)
  <2>1. IsFiniteSet(0 .. m)
    BY FS_Interval
  <2>2. IsFiniteSet(bars)
    BY <2>1, FS_Subset
  <2>3. IsFiniteSet(less)
    BY <2>2, FS_RemoveElement
  <2> QED
    BY <2>2, <2>3
<1>1. CASE k < Cardinality(less)
  <2>1. PICK b \in less : Cardinality({c \in less : c < b}) = k
    BY <1>0, <1>1 DEF RanksTo
  <2>2. {c \in less : c < b} = {c \in bars : c < b}
    BY <1>0
  <2> QED
    BY <2>1, <2>2
<1>2. CASE ~ (k < Cardinality(less))
  <2>1. m \in bars
    BY <1>2
  <2>2. Cardinality(less) = Cardinality(bars) - 1
    BY <1>0, <2>1, FS_RemoveElement
  <2>3. Cardinality(bars) \in Nat
    BY <1>0, FS_CardinalityType
  <2>4. Cardinality(less) = k
    BY <1>2, <2>2, <2>3
  <2>5. {c \in bars : c < m} = less
    <3>1. \A c \in bars : c < m <=> c # m
      OBVIOUS
    <3> QED
      BY <3>1, Zenon
  <2>6. Cardinality({c \in bars : c < m}) = k
    BY <2>4, <2>5, Zenon
  <2> QED
    BY <2>1, <2>6
<1> QED
  BY <1>1, <1>2

LEMMA RankExists ==
    ASSUME NEW n \in Nat, NEW bars \in SUBSET (0 .. n), NEW k \in Nat, k < Cardinality(bars)
    PROVE  \E b \in bars : Cardinality({c \in bars : c < b}) = k
<1>1. 0 \in RanksTo(n)
  <2>1. ASSUME NEW some \in SUBSET (0 .. 0 - 1), NEW j \in Nat PROVE ~ (j < Cardinality(some))
    <3>1. some = {}
      OBVIOUS
    <3>2. Cardinality(some) = 0
      BY <3>1, FS_EmptySet, Zenon
    <3> QED
      BY <3>2
  <2>2. 0 \in 0 .. n + 1
    OBVIOUS
  <2> QED
    BY <2>1, <2>2 DEF RanksTo
<1>2. n + 1 \in RanksTo(n)
  <2> SUFFICES ASSUME n + 1 \notin RanksTo(n) PROVE FALSE
    OBVIOUS
  <2> DEFINE B == {m \in 0 .. n + 1 : m \notin RanksTo(n)}
  <2>2. B \subseteq 0 .. n + 1 /\ B # {} /\ n + 1 \in Nat
    OBVIOUS
  <2> HIDE DEF B
  <2>3. PICK m \in B : \A j \in B : m <= j
    BY <2>2, SmallestExists
  <2>4. m \in 1 .. n + 1
    BY <1>1, <2>3 DEF B
  <2>5. m - 1 \in RanksTo(n) /\ m - 1 \in 0 .. n
    BY <2>3, <2>4 DEF B
  <2>6. (m - 1) + 1 \in RanksTo(n)
    BY <2>5, RankStep
  <2>7. (m - 1) + 1 = m
    BY <2>4
  <2> QED
    BY <2>3, <2>6, <2>7 DEF B
<1>3. 0 .. (n + 1) - 1 = 0 .. n
  OBVIOUS
<1> QED
  BY <1>2, <1>3 DEF RanksTo
-----------------------------------------------------------------------------
\* A trade is closed after it was entered.
ClosedTrade(t) == t.exit # Nil => t.entry # Nil /\ t.entry <= t.exit

ReviewTrades == {t \in [entry : Nat \cup {Nil}, exit : Nat \cup {Nil}] : ClosedTrade(t)}

\* The minutes of a closed trade are one run that spans it.
HoldsTrade(bars, t) == t.exit # Nil => bars = Min(bars) .. Max(bars) /\ t.entry .. t.exit \subseteq bars

\* What a session can be.
ReviewSessions ==
    {s \in [id : Nat, bars : SUBSET Minutes, trade : ReviewTrades, plans : Seq(Nat),
            playing : BOOLEAN, cursor : Nat] :
        s.cursor < Cardinality(s.bars) /\ HoldsTrade(s.bars, s.trade)}

OpenReviewTrades == {t \in ReviewTrades : t.exit = Nil}

\* What a thread holds between its requests.
ReviewAsks == {NoAsk} \cup [at : {"fetch"}, trade : OpenReviewTrades]
                      \cup [at : {"check"}, trade : OpenReviewTrades, bars : SUBSET Minutes]

\* Bars that have opened.
Opened(bars) == \A b \in bars : b <= now

\* The revisions read are the first ones, and no later one is older than a bar.
KeepsPlans(read, bars) ==
    /\ \A p \in DOMAIN read : p \in DOMAIN plans /\ plans[p] = read[p]
    /\ \A p \in DOMAIN plans : p \in DOMAIN read \/ \A b \in bars : b <= plans[p]

\* What a session has read is still right.
IsCurrent(s) == Opened(s.bars) /\ KeepsPlans(s.plans, s.bars)

\* Nothing has happened later than now.
TradeInv == trade \in ReviewTrades /\ (trade.entry # Nil => trade.entry <= now)
RowsInv  == \A r \in rows : r.slot \in Nat /\ r.slot <= now

MarketInv == now \in Minutes /\ TradeInv /\ RowsInv /\ plans \in Seq(Nat)

DeskInv == created \in Nat /\ sessions \in Seq(ReviewSessions) /\ asking \in [Reviewers -> ReviewAsks]

\* So nothing has been read that is later than now.
SessionsInv == \A k \in DOMAIN sessions : IsCurrent(sessions[k])
AsksInv     == \A c \in Reviewers : asking[c].at = "check" => Opened(asking[c].bars)

ReviewInv == MarketInv /\ DeskInv /\ SessionsInv /\ AsksInv /\ PlanAsRecorded

-----------------------------------------------------------------------------
(* Frames *)

\* A cursor that is inside has a bar.
LEMMA BarExists ==
    ASSUME NEW s \in ReviewSessions
    PROVE  BarAt(s) \in s.bars /\ BarAt(s) \in Nat
<1>1. s.bars \in SUBSET (0 .. MaxNow) /\ s.cursor \in Nat /\ s.cursor < Cardinality(s.bars) /\ MaxNow \in Nat
  BY ReviewAssumption DEF ReviewSessions, Minutes
<1>2. \E b \in s.bars : Cardinality({c \in s.bars : c < b}) = s.cursor
  BY <1>1, RankExists
<1>3. BarAt(s) \in s.bars
  BY <1>2, Zenon DEF BarAt
<1> QED
  BY <1>1, <1>3

LEMMA FramesAreRecorded ==
    ASSUME NEW s \in ReviewSessions, IsCurrent(s), plans \in Seq(Nat)
    PROVE  Frame(s).plan = Cardinality({p \in DOMAIN plans : plans[p] < Frame(s).bar})
<1>1. PICK bar : bar = BarAt(s)
  OBVIOUS
<1>2. bar \in s.bars /\ bar \in Nat
  BY <1>1, BarExists
<1>3. Frame(s).plan = Cardinality({p \in DOMAIN s.plans : s.plans[p] < bar}) /\ Frame(s).bar = bar
  BY <1>1, Zenon DEF Frame, RecordedPlan
<1>4. \A p \in DOMAIN plans : plans[p] < bar => p \in DOMAIN s.plans
  BY <1>2 DEF IsCurrent, KeepsPlans
<1>5. {p \in DOMAIN s.plans : s.plans[p] < bar} = {p \in DOMAIN plans : plans[p] < bar}
  BY <1>4 DEF IsCurrent, KeepsPlans
<1> QED
  BY <1>3, <1>5, Zenon

-----------------------------------------------------------------------------
(* The evidence of a closed trade *)

\* A set of minutes that has all between two of its own is one run.
LEMMA ConvexIsRun ==
    ASSUME NEW bars, bars \subseteq Minutes, bars # {},
           \A a, b \in bars : a .. b \subseteq bars
    PROVE  bars = Min(bars) .. Max(bars)
<1>0. MaxNow \in Nat /\ bars \subseteq 0 .. MaxNow
  BY ReviewAssumption DEF Minutes
<1>1. \E x \in bars : \A y \in bars : x <= y
  BY <1>0, SmallestExists
<1>2. Min(bars) \in bars /\ \A y \in bars : Min(bars) <= y
  BY <1>1, Zenon DEF Min
<1>3. \E x \in bars : \A y \in bars : x >= y
  <2>1. PICK x \in bars : \A y \in bars : y <= x
    BY <1>0, LargestExists
  <2>2. \A y \in bars : x >= y
    BY <1>0, <2>1
  <2> QED
    BY <2>2
<1>4. Max(bars) \in bars /\ \A y \in bars : Max(bars) >= y
  BY <1>3, Zenon DEF Max
<1>5. Min(bars) .. Max(bars) \subseteq bars
  BY <1>2, <1>4
<1>6. \A y \in bars : y \in Min(bars) .. Max(bars)
  BY <1>0, <1>2, <1>4
<1> QED
  BY <1>5, <1>6

LEMMA EvidenceHolds ==
    ASSUME NEW t \in ReviewTrades, t.exit # Nil, Evidence(t) # {}
    PROVE  Evidence(t) \subseteq Minutes /\ t.entry \in Evidence(t) /\ HoldsTrade(Evidence(t), t)
<1> DEFINE window == Minutes \cap ((t.entry - Lookback) .. (t.exit + Lookforward))
           slots  == Slots({r \in rows : r.slot \in window})
           kept   == Retained(slots, t, window)
<1>1. /\ Evidence(t) = kept /\ t.entry .. t.exit \subseteq slots
      /\ t.entry \in Nat /\ t.exit \in Nat /\ t.entry <= t.exit
      /\ Lookback \in Nat /\ Lookforward \in Nat
  BY ReviewAssumption DEF Evidence, ReviewTrades, ClosedTrade
<1>2. slots \subseteq window
  BY DEF Slots
<1>3. window \subseteq Int /\ \A a, b \in window, m \in Int : a <= m /\ m <= b => m \in window
  <2>1. Minutes = 0 .. MaxNow /\ MaxNow \in Nat
    BY ReviewAssumption DEF Minutes
  <2> QED
    BY <1>1, <2>1
<1> HIDE DEF window, slots
<1>4. t.entry .. t.exit \subseteq kept
  <2> SUFFICES ASSUME NEW m \in t.entry .. t.exit PROVE m \in kept
    OBVIOUS
  <2>1. m \in window /\ ~ (m < t.entry) /\ m <= t.exit
    BY <1>1, <1>2
  <2> QED
    BY <2>1 DEF Retained
<1>5. t.entry \in kept
  BY <1>1, <1>4
<1>6. ASSUME NEW a \in kept, NEW b \in kept PROVE a .. b \subseteq kept
  <2> SUFFICES ASSUME NEW m \in a .. b PROVE m \in kept
    OBVIOUS
  <2>1. /\ a \in window /\ b \in window /\ a \in Int /\ b \in Int /\ m \in Int /\ a <= m /\ m <= b
        /\ a < t.entry => a .. t.entry \subseteq slots
        /\ ~ (b < t.entry) => t.exit .. b \subseteq slots \/ b <= t.exit
    BY <1>3 DEF Retained
  <2>2. m \in window
    BY <1>3, <2>1
  <2>3. CASE m < t.entry
    <3>1. a .. t.entry \subseteq slots
      BY <1>1, <2>1, <2>3
    <3>2. m .. t.entry \subseteq slots
      BY <1>1, <2>1, <3>1
    <3> QED
      BY <2>2, <2>3, <3>2 DEF Retained
  <2>4. CASE ~ (m < t.entry)
    <3>1. t.exit .. m \subseteq slots \/ m <= t.exit
      BY <1>1, <2>1, <2>4
    <3> QED
      BY <2>2, <2>4, <3>1 DEF Retained
  <2> QED
    BY <2>3, <2>4
<1>7. kept \subseteq Minutes
  BY DEF Retained, window
<1> HIDE DEF kept
<1>8. kept = Min(kept) .. Max(kept)
  BY <1>5, <1>6, <1>7, ConvexIsRun
<1> QED
  BY <1>1, <1>4, <1>5, <1>7, <1>8 DEF HoldsTrade

LEMMA EvidenceOpened ==
    ASSUME NEW t \in ReviewTrades, t.exit # Nil, TradeInv, RowsInv, now \in Nat, t = trade
    PROVE  Opened(Evidence(t))
<1> DEFINE window == Minutes \cap ((t.entry - Lookback) .. (t.exit + Lookforward))
           slots  == Slots({r \in rows : r.slot \in window})
<1>1. /\ t.entry \in Nat /\ t.exit \in Nat /\ t.entry <= t.exit
      /\ window \subseteq Int
  BY ReviewAssumption DEF ReviewTrades, ClosedTrade, Minutes
<1>2. \A m \in slots : m <= now
  BY DEF Slots, RowsInv
<1>3. t.exit <= now \/ Evidence(t) = {}
  <2>1. ~ (t.entry .. t.exit) \subseteq slots => Evidence(t) = {}
    BY DEF Evidence
  <2>2. t.exit \in t.entry .. t.exit
    BY <1>1
  <2> QED
    BY <1>2, <2>1, <2>2
<1>4. Evidence(t) = {} \/ Evidence(t) = Retained(slots, t, window)
  BY DEF Evidence
<1> HIDE DEF slots, window
<1>5. ASSUME NEW m \in Retained(slots, t, window), t.exit <= now PROVE m <= now
  <2>1. m \in Int /\ (m < t.entry \/ t.exit .. m \subseteq slots \/ m <= t.exit)
    BY <1>1 DEF Retained
  <2>2. CASE m <= t.exit
    BY <1>1, <1>5, <2>1, <2>2
  <2>3. CASE m > t.exit
    <3>1. m \in t.exit .. m /\ ~ (m < t.entry)
      BY <1>1, <2>1, <2>3
    <3> QED
      BY <1>1, <1>2, <2>1, <2>3, <3>1
  <2> QED
    BY <1>1, <2>1, <2>2, <2>3
<1> QED
  BY <1>3, <1>4, <1>5 DEF Opened

-----------------------------------------------------------------------------
(* The steps *)

LEMMA ReviewStarts == ReviewInit => ReviewInv
<1> SUFFICES ASSUME ReviewInit PROVE ReviewInv
  OBVIOUS
<1>1. MarketInv
  BY ReviewAssumption DEF ReviewInit, MarketInv, TradeInv, RowsInv, Minutes, ReviewTrades, ClosedTrade
<1>2. DeskInv
  BY DEF ReviewInit, DeskInv, ReviewAsks
<1>3. SessionsInv /\ AsksInv /\ PlanAsRecorded
  BY DEF ReviewInit, SessionsInv, AsksInv, NoAsk, PlanAsRecorded
<1> QED
  BY <1>1, <1>2, <1>3 DEF ReviewInv

\* The sessions there are, each of them still right, and the frame of one of them.
Shown(s) ==
    /\ frame' = Frame(s)
    /\ UNCHANGED <<now, rows, trade, plans>>

LEMMA FrameShown ==
    ASSUME ReviewInv, NEW s \in ReviewSessions, IsCurrent(s), Shown(s)
    PROVE  MarketInv' /\ PlanAsRecorded'
<1>1. MarketInv'
  BY DEF ReviewInv, MarketInv, TradeInv, RowsInv, Shown
<1>2. Frame(s).plan = Cardinality({p \in DOMAIN plans : plans[p] < Frame(s).bar})
  BY FramesAreRecorded DEF ReviewInv, MarketInv
<1>3. PlanAsRecorded'
  BY <1>2, Zenon DEF PlanAsRecorded, Shown
<1> QED
  BY <1>1, <1>3

\* What a new session adds.
LEMMA Creates ==
    ASSUME ReviewInv, NEW s \in ReviewSessions, IsCurrent(s), Create(s), UNCHANGED <<now, rows, trade, plans>>
    PROVE  /\ created' \in Nat /\ sessions' \in Seq(ReviewSessions) /\ SessionsInv'
           /\ MarketInv' /\ PlanAsRecorded'
<1>1. created \in Nat /\ sessions \in Seq(ReviewSessions) /\ SessionsInv
  BY DEF ReviewInv, DeskInv
<1>2. PICK kept : kept = IF Len(sessions) >= MaxSessions THEN Tail(sessions) ELSE sessions
  OBVIOUS
<1>3. kept \in Seq(ReviewSessions) /\ \A k \in DOMAIN kept : IsCurrent(kept[k])
  <2>1. CASE Len(sessions) >= MaxSessions
    <3>1. sessions # <<>> /\ kept = Tail(sessions)
      BY <1>1, <1>2, <2>1, ReviewAssumption
    <3>2. /\ kept \in Seq(ReviewSessions)
          /\ \A k \in DOMAIN kept : k + 1 \in DOMAIN sessions /\ kept[k] = sessions[k + 1]
      BY <1>1, <3>1
    <3> QED
      BY <1>1, <3>2 DEF SessionsInv
  <2>2. CASE ~ (Len(sessions) >= MaxSessions)
    BY <1>1, <1>2, <2>2 DEF SessionsInv
  <2> QED
    BY <2>1, <2>2
<1>4. created' = created + 1 /\ sessions' = Append(kept, s) /\ Shown(s)
  BY <1>2 DEF Create, Added, Shown
<1>5. sessions' \in Seq(ReviewSessions) /\ \A k \in DOMAIN sessions' : k \in DOMAIN kept \/ sessions'[k] = s
  BY <1>3, <1>4
<1>6. \A k \in DOMAIN kept : sessions'[k] = kept[k]
  BY <1>3, <1>4
<1>7. SessionsInv'
  <2>1. \A k \in DOMAIN sessions' : IsCurrent(sessions'[k])
    BY <1>3, <1>5, <1>6
  <2> QED
    BY <2>1 DEF SessionsInv, IsCurrent, Opened, KeepsPlans
<1> QED
  BY <1>1, <1>4, <1>5, <1>7, FrameShown

LEMMA ClosedIsReviewed == ReviewInv /\ ReviewClosed => ReviewInv'
<1> SUFFICES ASSUME ReviewInv, ReviewClosed PROVE ReviewInv'
  OBVIOUS
<1> DEFINE bars == Evidence(trade)
           s == [id |-> created, bars |-> bars, trade |-> trade, plans |-> plans, playing |-> FALSE,
                 cursor |-> Cardinality({b \in bars : b < trade.entry})]
<1>1. /\ trade \in ReviewTrades /\ plans \in Seq(Nat) /\ created \in Nat /\ now \in Nat
      /\ TradeInv /\ RowsInv
  BY ReviewAssumption DEF ReviewInv, MarketInv, TradeInv, DeskInv, Minutes
<1>2. bars \subseteq Minutes /\ trade.entry \in bars /\ HoldsTrade(bars, trade) /\ Opened(bars)
  BY <1>1, EvidenceHolds, EvidenceOpened DEF ReviewClosed
<1> HIDE DEF bars
<1>3. /\ Cardinality({b \in bars : b < trade.entry}) \in Nat
      /\ Cardinality({b \in bars : b < trade.entry}) < Cardinality(bars)
  <2>1. IsFiniteSet(bars)
    <3>1. Minutes = 0 .. MaxNow /\ 0 \in Int /\ MaxNow \in Int
      BY ReviewAssumption DEF Minutes
    <3>2. IsFiniteSet(Minutes)
      BY <3>1, FS_Interval
    <3> QED
      BY <1>2, <3>2, FS_Subset
  <2>2. IsFiniteSet(bars \ {trade.entry}) /\ Cardinality(bars \ {trade.entry}) = Cardinality(bars) - 1
    BY <1>2, <2>1, FS_RemoveElement
  <2>3. {b \in bars : b < trade.entry} \in SUBSET (bars \ {trade.entry})
    <3>1. \A b \in bars : b \in Int
      BY <1>2, ReviewAssumption DEF Minutes
    <3> QED
      BY <1>2, <3>1
  <2>4. /\ IsFiniteSet({b \in bars : b < trade.entry})
        /\ Cardinality({b \in bars : b < trade.entry}) <= Cardinality(bars \ {trade.entry})
    BY <2>2, <2>3, FS_Subset
  <2>5. /\ Cardinality({b \in bars : b < trade.entry}) \in Nat
        /\ Cardinality(bars \ {trade.entry}) \in Nat /\ Cardinality(bars) \in Nat
    BY <2>1, <2>2, <2>4, FS_CardinalityType
  <2> QED
    BY <2>2, <2>4, <2>5
<1>4. s \in ReviewSessions
  BY <1>1, <1>2, <1>3 DEF ReviewSessions
<1>5. IsCurrent(s)
  BY <1>2 DEF IsCurrent, KeepsPlans
<1> HIDE DEF s
<1>6. Create(s) /\ UNCHANGED <<now, rows, trade, plans, asking>>
  BY DEF ReviewClosed, s, bars
<1>7. created' \in Nat /\ sessions' \in Seq(ReviewSessions) /\ SessionsInv' /\ MarketInv' /\ PlanAsRecorded'
  BY <1>4, <1>5, <1>6, Creates
<1>8. DeskInv' /\ AsksInv'
  BY <1>6, <1>7 DEF ReviewInv, DeskInv, AsksInv, Opened
<1> QED
  BY <1>7, <1>8 DEF ReviewInv

\* The refresh of an open position.
LEMMA OpenIsAsked ==
    ASSUME ReviewInv, NEW c \in Reviewers, AskOpen(c) \/ ReceiveBars(c)
    PROVE  ReviewInv'
<1>1. asking \in [Reviewers -> ReviewAsks] /\ asking[c] \in ReviewAsks /\ trade \in ReviewTrades /\ now \in Minutes
  BY DEF ReviewInv, MarketInv, TradeInv, DeskInv
<1>2. UNCHANGED <<now, rows, trade, plans, sessions, created>> /\ frame' = Nil
  BY DEF AskOpen, ReceiveBars
<1>3. ASSUME NEW a \in ReviewAsks, asking' = [asking EXCEPT ![c] = a], a.at = "check" => Opened(a.bars)
      PROVE  ReviewInv'
  <2>1. asking' \in [Reviewers -> ReviewAsks]
    BY <1>1, <1>3
  <2>2. DeskInv' /\ MarketInv'
    BY <1>2, <2>1 DEF ReviewInv, MarketInv, TradeInv, RowsInv, DeskInv
  <2>3. SessionsInv' /\ PlanAsRecorded'
    BY <1>2 DEF ReviewInv, SessionsInv, IsCurrent, Opened, KeepsPlans, PlanAsRecorded
  <2>4. \A d \in Reviewers : asking'[d] = IF d = c THEN a ELSE asking[d]
    BY <1>1, <1>3
  <2>5. AsksInv'
    BY <1>2, <1>3, <2>4 DEF ReviewInv, AsksInv, Opened
  <2> QED
    BY <2>2, <2>3, <2>5 DEF ReviewInv
<1>4. CASE AskOpen(c)
  <2>1. [at |-> "fetch", trade |-> trade] \in ReviewAsks
    BY <1>1, <1>4 DEF AskOpen, ReviewAsks, OpenReviewTrades
  <2> QED
    BY <1>3, <1>4, <2>1 DEF AskOpen
<1>5. CASE ReceiveBars(c)
  <2>1. PICK bars \in {0 .. now, {now}, {0, now}, {}} :
            asking' = [asking EXCEPT ![c] = IF bars = {} THEN NoAsk
                                            ELSE [at |-> "check", trade |-> asking[c].trade, bars |-> bars]]
    BY <1>1, <1>5 DEF ReceiveBars
  <2>2. bars \in SUBSET Minutes /\ Opened(bars)
    BY <1>1, ReviewAssumption DEF Minutes, Opened
  <2>3. asking[c].trade \in OpenReviewTrades
    BY <1>1, <1>5 DEF ReceiveBars, ReviewAsks, NoAsk
  <2>4. NoAsk \in ReviewAsks /\ NoAsk.at # "check"
        /\ [at |-> "check", trade |-> asking[c].trade, bars |-> bars] \in ReviewAsks
    BY <2>2, <2>3 DEF ReviewAsks, NoAsk
  <2> QED
    BY <1>3, <2>1, <2>2, <2>4
<1> QED
  BY <1>4, <1>5

LEMMA OpenIsReviewed ==
    ASSUME ReviewInv, NEW c \in Reviewers, OpenSession(c)
    PROVE  ReviewInv'
<1> DEFINE a == asking[c]
<1>1. /\ asking \in [Reviewers -> ReviewAsks] /\ a \in ReviewAsks /\ created \in Nat
      /\ plans \in Seq(Nat) /\ sessions \in Seq(ReviewSessions)
  BY DEF ReviewInv, MarketInv, DeskInv
<1>2. a.trade \in OpenReviewTrades /\ a.bars \in SUBSET Minutes /\ Opened(a.bars)
  BY <1>1 DEF OpenSession, ReviewAsks, NoAsk, ReviewInv, AsksInv
<1>3. UNCHANGED <<now, rows, trade, plans>> /\ asking' = [asking EXCEPT ![c] = NoAsk]
  BY DEF OpenSession
<1>4. asking' \in [Reviewers -> ReviewAsks] /\ \A d \in Reviewers : asking'[d] = IF d = c THEN NoAsk ELSE asking[d]
  BY <1>1, <1>3 DEF ReviewAsks
<1>5. AsksInv'
  BY <1>3, <1>4 DEF ReviewInv, AsksInv, Opened, NoAsk
<1>6. CASE ReachesEntry(a)
  <2>1. 0 < Cardinality(a.bars)
    <3>1. IsFiniteSet(a.bars)
      <4>1. Minutes = 0 .. MaxNow /\ 0 \in Int /\ MaxNow \in Int
        BY ReviewAssumption DEF Minutes
      <4> QED
        BY <1>2, <4>1, FS_Interval, FS_Subset
    <3>2. a.bars # {}
      BY <1>6 DEF ReachesEntry
    <3> QED
      BY <3>1, <3>2, FS_EmptySet, FS_CardinalityType
  <2>2. OpenReview(a) \in ReviewSessions
    BY <1>1, <1>2, <2>1 DEF OpenReview, ReviewSessions, OpenReviewTrades, HoldsTrade
  <2>3. IsCurrent(OpenReview(a))
    BY <1>2 DEF OpenReview, IsCurrent, KeepsPlans
  <2>4. Create(OpenReview(a))
    BY <1>6 DEF OpenSession
  <2>5. created' \in Nat /\ sessions' \in Seq(ReviewSessions) /\ SessionsInv' /\ MarketInv' /\ PlanAsRecorded'
    BY <1>3, <2>2, <2>3, <2>4, Creates
  <2> QED
    BY <1>4, <1>5, <2>5 DEF ReviewInv, DeskInv
<1>7. CASE ~ ReachesEntry(a)
  <2>1. frame' = Nil /\ UNCHANGED <<sessions, created>>
    BY <1>7 DEF OpenSession
  <2>2. DeskInv' /\ MarketInv'
    BY <1>3, <1>4, <2>1 DEF ReviewInv, MarketInv, TradeInv, RowsInv, DeskInv
  <2>3. SessionsInv' /\ PlanAsRecorded'
    BY <1>3, <2>1 DEF ReviewInv, SessionsInv, IsCurrent, Opened, KeepsPlans, PlanAsRecorded
  <2> QED
    BY <1>5, <2>2, <2>3 DEF ReviewInv
<1> QED
  BY <1>6, <1>7

\* The cursor moves inside its session.
LEMMA CursorsMove ==
    ASSUME ReviewInv, NEW k \in DOMAIN sessions, Play(k) \/ \E goal \in -1 .. MaxNow + 1 : Seek(k, goal)
    PROVE  ReviewInv'
<1>1. sessions \in Seq(ReviewSessions) /\ sessions[k] \in ReviewSessions /\ IsCurrent(sessions[k])
  BY DEF ReviewInv, DeskInv, SessionsInv
<1>2. /\ Cardinality(sessions[k].bars) \in Nat /\ sessions[k].cursor \in Nat
      /\ sessions[k].cursor < Cardinality(sessions[k].bars)
  <2>1. IsFiniteSet(sessions[k].bars)
    <3>1. Minutes = 0 .. MaxNow /\ 0 \in Int /\ MaxNow \in Int
      BY ReviewAssumption DEF Minutes
    <3> QED
      BY <1>1, <3>1, FS_Interval, FS_Subset DEF ReviewSessions
  <2> QED
    BY <1>1, <2>1, FS_CardinalityType DEF ReviewSessions
<1>3. ASSUME NEW s \in ReviewSessions, IsCurrent(s), sessions' = [sessions EXCEPT ![k] = s], frame' = Frame(s),
             UNCHANGED <<now, rows, trade, plans, created, asking>>
      PROVE  ReviewInv'
  <2>1. sessions' \in Seq(ReviewSessions)
        /\ \A j \in DOMAIN sessions' : j \in DOMAIN sessions /\ sessions'[j] = IF j = k THEN s ELSE sessions[j]
    BY <1>1, <1>3
  <2>2. MarketInv' /\ PlanAsRecorded'
    BY <1>3, FrameShown DEF Shown
  <2>3. \A j \in DOMAIN sessions' : IsCurrent(sessions'[j])
    BY <1>3, <2>1 DEF ReviewInv, SessionsInv
  <2>4. SessionsInv'
    BY <1>3, <2>3 DEF SessionsInv, IsCurrent, Opened, KeepsPlans
  <2>5. DeskInv' /\ AsksInv'
    BY <1>3, <2>1 DEF ReviewInv, DeskInv, AsksInv, Opened
  <2> QED
    BY <2>2, <2>4, <2>5 DEF ReviewInv
<1>4. ASSUME NEW n \in Nat, n < Cardinality(sessions[k].bars), NEW p \in BOOLEAN
      PROVE  /\ [sessions[k] EXCEPT !.cursor = n, !.playing = p] \in ReviewSessions
             /\ IsCurrent([sessions[k] EXCEPT !.cursor = n, !.playing = p])
  <2>1. [sessions[k] EXCEPT !.cursor = n, !.playing = p] \in ReviewSessions
    BY <1>1, <1>4 DEF ReviewSessions
  <2>2. /\ [sessions[k] EXCEPT !.cursor = n, !.playing = p].bars = sessions[k].bars
        /\ [sessions[k] EXCEPT !.cursor = n, !.playing = p].plans = sessions[k].plans
    BY <1>1 DEF ReviewSessions
  <2>3. IsCurrent([sessions[k] EXCEPT !.cursor = n, !.playing = p])
    BY <1>1, <2>2, Zenon DEF IsCurrent
  <2> QED
    BY <2>1, <2>3
<1>5. CASE Play(k)
  <2> DEFINE p == sessions[k].playing \/ sessions[k].cursor < Cardinality(sessions[k].bars) - 1
             s == [sessions[k] EXCEPT !.playing = p]
  <2>1. s = [sessions[k] EXCEPT !.cursor = sessions[k].cursor, !.playing = p]
    BY <1>1 DEF ReviewSessions
  <2>2. p \in BOOLEAN
    OBVIOUS
  <2>3. s \in ReviewSessions /\ IsCurrent(s)
    BY <1>2, <1>4, <2>1, <2>2
  <2> QED
    BY <1>3, <1>5, <2>3 DEF Play
<1>6. ASSUME NEW goal \in -1 .. MaxNow + 1, Seek(k, goal) PROVE ReviewInv'
  <2> DEFINE last == Cardinality(sessions[k].bars) - 1
             n    == IF goal > last THEN last ELSE IF goal < 0 THEN 0 ELSE goal
             p    == sessions[k].playing /\ n # last
             s    == [sessions[k] EXCEPT !.cursor = n, !.playing = p]
  <2>1. n \in Nat /\ n < Cardinality(sessions[k].bars)
    <3>1. goal \in Int
      BY ReviewAssumption
    <3> QED
      BY <1>2, <3>1
  <2>2. p \in BOOLEAN
    OBVIOUS
  <2>3. s \in ReviewSessions /\ IsCurrent(s)
    BY <1>4, <2>1, <2>2
  <2>4. /\ sessions' = [sessions EXCEPT ![k] = s] /\ frame' = Frame(s)
        /\ UNCHANGED <<now, rows, trade, plans, created, asking>>
    BY <1>6 DEF Seek
  <2> QED
    BY <1>3, <2>3, <2>4
<1> QED
  BY <1>5, <1>6

\* The journal and the market go on.
LEMMA TradeMoves ==
    ASSUME TradeInv, now \in Nat, NextMinute \/ OpenTrade \/ CloseTrade \/ UNCHANGED <<now, trade>>
    PROVE  TradeInv'
<1>1. /\ trade \in [entry : Nat \cup {Nil}, exit : Nat \cup {Nil}]
      /\ trade.entry \in Nat \cup {Nil} /\ trade.exit \in Nat \cup {Nil}
      /\ trade.exit # Nil => trade.entry # Nil /\ trade.entry <= trade.exit
      /\ trade.entry # Nil => trade.entry <= now
  BY DEF TradeInv, ReviewTrades, ClosedTrade
<1>2. CASE NextMinute
  <2>1. now' = now + 1 /\ trade' = trade
    BY <1>2 DEF NextMinute
  <2>2. trade.entry # Nil => trade.entry <= now + 1
    BY <1>1
  <2> QED
    BY <2>1, <2>2, Zenon DEF TradeInv
<1>3. CASE OpenTrade
  <2>1. now' = now /\ trade.entry = Nil /\ trade' = [trade EXCEPT !.entry = now]
    BY <1>3 DEF OpenTrade
  <2>2. /\ trade' \in [entry : Nat \cup {Nil}, exit : Nat \cup {Nil}]
        /\ trade'.entry = now /\ trade'.exit = Nil
    BY <1>1, <2>1
  <2>3. trade' \in ReviewTrades
    BY <2>2 DEF ReviewTrades, ClosedTrade
  <2> QED
    BY <2>1, <2>2, <2>3 DEF TradeInv
<1>4. CASE CloseTrade
  <2>1. now' = now /\ trade.entry # Nil /\ trade' = [trade EXCEPT !.exit = now]
    BY <1>4 DEF CloseTrade
  <2>2. /\ trade' \in [entry : Nat \cup {Nil}, exit : Nat \cup {Nil}]
        /\ trade'.entry = trade.entry /\ trade'.exit = now
    BY <1>1, <2>1
  <2>3. trade' \in ReviewTrades
    BY <1>1, <2>1, <2>2 DEF ReviewTrades, ClosedTrade
  <2> QED
    BY <1>1, <2>1, <2>2, <2>3 DEF TradeInv
<1>5. CASE UNCHANGED <<now, trade>>
  BY <1>5 DEF TradeInv
<1> QED
  BY <1>2, <1>3, <1>4, <1>5

\* What has been read stays right: the clock goes on, and a revision is recorded at
\* the end of the plan, with the current minute.
LEMMA StaysCurrent ==
    ASSUME now \in Nat, plans \in Seq(Nat), NextMinute \/ SavePlan \/ UNCHANGED <<now, plans>>
    PROVE  /\ plans' \in Seq(Nat)
           /\ \A bars \in SUBSET Int : Opened(bars) => Opened(bars)'
           /\ \A s \in ReviewSessions : IsCurrent(s) => IsCurrent(s)'
<1>1. CASE UNCHANGED <<now, plans>>
  BY <1>1 DEF IsCurrent, Opened, KeepsPlans
<1>2. CASE NextMinute
  <2>1. now' = now + 1 /\ plans' = plans
    BY <1>2 DEF NextMinute
  <2>2. \A bars \in SUBSET Int : Opened(bars) => Opened(bars)'
    BY <2>1 DEF Opened
  <2>3. \A s \in ReviewSessions : s.bars \in SUBSET Int
    BY ReviewAssumption DEF ReviewSessions, Minutes
  <2>4. ASSUME NEW s \in ReviewSessions, IsCurrent(s) PROVE IsCurrent(s)'
    <3>1. Opened(s.bars) /\ KeepsPlans(s.plans, s.bars)
      BY <2>4 DEF IsCurrent
    <3>2. Opened(s.bars)'
      BY <2>1, <2>3, <3>1 DEF Opened
    <3>3. KeepsPlans(s.plans, s.bars)'
      BY <2>1, <3>1 DEF KeepsPlans
    <3> QED
      BY <3>2, <3>3 DEF IsCurrent
  <2> QED
    BY <2>1, <2>2, <2>4
<1>3. CASE SavePlan
  <2>1. now' = now /\ plans' = Append(plans, now)
    BY <1>3 DEF SavePlan
  <2>2. /\ plans' \in Seq(Nat)
        /\ \A p \in DOMAIN plans : p \in DOMAIN plans' /\ plans'[p] = plans[p]
        /\ \A p \in DOMAIN plans' : p \in DOMAIN plans \/ plans'[p] = now
    BY <2>1
  <2>3. \A bars \in SUBSET Int : Opened(bars) => Opened(bars)'
    BY <2>1 DEF Opened
  <2>4. ASSUME NEW s \in ReviewSessions, IsCurrent(s) PROVE IsCurrent(s)'
    <3>1. Opened(s.bars) /\ KeepsPlans(s.plans, s.bars)
      BY <2>4 DEF IsCurrent
    <3>2. Opened(s.bars)'
      BY <2>1, <3>1 DEF Opened
    <3>3. KeepsPlans(s.plans, s.bars)'
      BY <2>2, <3>1 DEF Opened, KeepsPlans
    <3> QED
      BY <3>2, <3>3 DEF IsCurrent
  <2> QED
    BY <2>2, <2>3, <2>4
<1> QED
  BY <1>1, <1>2, <1>3

LEMMA MarketMoves ==
    ASSUME ReviewInv, NextMinute \/ OpenTrade \/ CloseTrade \/ SavePlan
                      \/ \E m \in 0 .. now, v \in Values : RecordRow(m, v)
    PROVE  ReviewInv'
<1>1. UNCHANGED <<sessions, created, asking>> /\ frame' = Nil
  BY DEF NextMinute, OpenTrade, CloseTrade, SavePlan, RecordRow
<1>2. DeskInv' /\ PlanAsRecorded'
  BY <1>1 DEF ReviewInv, DeskInv, PlanAsRecorded
<1>3. /\ now \in 0 .. MaxNow /\ now \in Nat /\ MaxNow \in Nat
      /\ TradeInv /\ RowsInv /\ plans \in Seq(Nat) /\ SessionsInv /\ AsksInv /\ DeskInv
  BY ReviewAssumption DEF ReviewInv, MarketInv, Minutes
<1>4. NextMinute \/ OpenTrade \/ CloseTrade \/ UNCHANGED <<now, trade>>
  BY DEF SavePlan, RecordRow
<1>5. NextMinute \/ SavePlan \/ UNCHANGED <<now, plans>>
  BY DEF OpenTrade, CloseTrade, RecordRow
<1>6. now' \in 0 .. MaxNow /\ (now' = now \/ now' = now + 1)
  <2>1. now' = now \/ (now' = now + 1 /\ now < MaxNow)
    BY DEF NextMinute, OpenTrade, CloseTrade, SavePlan, RecordRow
  <2> QED
    BY <1>3, <2>1
<1>7. TradeInv'
  BY <1>3, <1>4, TradeMoves
<1>8. RowsInv'
  <2>1. CASE \E m \in 0 .. now, v \in Values : RecordRow(m, v)
    <3>1. PICK m \in 0 .. now, v \in Values : RecordRow(m, v)
      BY <2>1
    <3>2. now' = now /\ rows' = rows \cup {[slot |-> m, value |-> v]} /\ m <= now
      BY <1>3, <3>1 DEF RecordRow
    <3> QED
      BY <1>3, <3>2 DEF RowsInv
  <2>2. CASE NextMinute
    <3>1. rows' = rows /\ now' = now + 1
      BY <2>2 DEF NextMinute
    <3> QED
      BY <1>3, <3>1 DEF RowsInv
  <2>3. CASE UNCHANGED <<rows, now>>
    BY <1>3, <2>3 DEF RowsInv
  <2> QED
    BY <2>1, <2>2, <2>3 DEF OpenTrade, CloseTrade, SavePlan
<1>9. /\ plans' \in Seq(Nat)
      /\ \A bars \in SUBSET Int : Opened(bars) => Opened(bars)'
      /\ \A s \in ReviewSessions : IsCurrent(s) => IsCurrent(s)'
  BY <1>3, <1>5, StaysCurrent
<1>10. SessionsInv'
  <2>1. \A k \in DOMAIN sessions : sessions[k] \in ReviewSessions
    BY <1>3 DEF DeskInv
  <2>2. \A s \in ReviewSessions : IsCurrent(s) => Opened(s.bars)' /\ KeepsPlans(s.plans, s.bars)'
    BY <1>9 DEF IsCurrent
  <2> QED
    BY <1>1, <1>3, <2>1, <2>2 DEF SessionsInv, IsCurrent, Opened, KeepsPlans
<1>11. AsksInv'
  <2>1. ASSUME NEW c \in Reviewers, asking[c].at = "check"
        PROVE  asking[c].bars \in SUBSET Int
    <3>1. asking[c] \in ReviewAsks
      BY <1>3 DEF DeskInv
    <3>2. asking[c].bars \in SUBSET Minutes
      BY <2>1, <3>1 DEF ReviewAsks, NoAsk
    <3>3. Minutes \subseteq Int
      BY ReviewAssumption DEF Minutes
    <3> QED
      BY <3>2, <3>3
  <2> QED
    BY <1>1, <1>3, <1>9, <2>1 DEF AsksInv, Opened
<1>12. MarketInv'
  BY <1>6, <1>7, <1>8, <1>9 DEF MarketInv, Minutes
<1> QED
  BY <1>2, <1>10, <1>11, <1>12 DEF ReviewInv

LEMMA ReviewGoesOn == ReviewInv /\ [ReviewNext]_reviewVars => ReviewInv'
<1> SUFFICES ASSUME ReviewInv, [ReviewNext]_reviewVars PROVE ReviewInv'
  OBVIOUS
<1>1. CASE UNCHANGED reviewVars
  BY <1>1 DEF reviewVars, ReviewInv, MarketInv, TradeInv, RowsInv, DeskInv, SessionsInv, AsksInv,
              IsCurrent, Opened, KeepsPlans, PlanAsRecorded
<1>2. CASE ReviewNext
  BY <1>2, ClosedIsReviewed, OpenIsAsked, OpenIsReviewed, CursorsMove, MarketMoves DEF ReviewNext
<1> QED
  BY <1>1, <1>2

\* The recorded plan on every frame of a review is what the journal, as it is by
\* then, has for the bar, and a closed trade is reviewed on one run of minutes that
\* holds it: replay_service.py, trade_plan_reference.py, candle_evidence.py.
THEOREM ReviewsAreHonest == ReviewSpec => []ReviewSound
<1>1. ReviewInv => ReviewSound
  <2> SUFFICES ASSUME ReviewInv PROVE ReviewSound
    OBVIOUS
  <2>1. PlanAsRecorded
    BY DEF ReviewInv
  <2>2. EvidenceComplete
    <3> SUFFICES ASSUME NEW k \in DOMAIN sessions, sessions[k].trade.exit # Nil
                 PROVE  /\ sessions[k].bars = Min(sessions[k].bars) .. Max(sessions[k].bars)
                        /\ sessions[k].trade.entry .. sessions[k].trade.exit \subseteq sessions[k].bars
      BY DEF EvidenceComplete
    <3>1. sessions[k] \in ReviewSessions
      BY DEF ReviewInv, DeskInv
    <3> QED
      BY <3>1 DEF ReviewSessions, HoldsTrade
  <2> QED
    BY <2>1, <2>2 DEF ReviewSound
<1> QED
  BY <1>1, ReviewStarts, ReviewGoesOn, PTL DEF ReviewSpec

-----------------------------------------------------------------------------
(***************************************************************************)
(* Proofs about the evidence of a broker, for any orders, threads, pages,   *)
(* bounds and limits.                                                       *)
(*                                                                          *)
(* What the broker had in the window when a collection began is collected   *)
(* or lies at the cursor or behind it (PagingOk), so a short page completes *)
(* it.  An order is read before its fills: its quantity is at most the      *)
(* fills the broker had when their collection began, those are at most the  *)
(* fills collected, and a document without a dispute has exactly as many    *)
(* fills as the quantity says; so all three are equal.                      *)
(***************************************************************************)

OrderRows == [kind : {"order"}, id : BrokerOrders, order : BrokerOrders, at : Nat, qty : Nat]
FillRows  == [kind : {"fill"}, id : Nat, order : BrokerOrders, at : Nat, qty : {1}]
BrokerRows == OrderRows \cup FillRows

Syncs == [phase : {"order", "fill", "import"}, since : Nat, until : Nat, cursor : Nat, attempt : Nat,
          seen : SUBSET SUBSET BrokerRows, count : Nat, rows : SUBSET BrokerRows, odd : BOOLEAN,
          known : [order : SUBSET BrokerOrders, fill : SUBSET Nat], requests : Nat, complete : BOOLEAN]

BrokerInv ==
    /\ placed \in [BrokerOrders -> Nat] /\ filled \in Seq([order : BrokerOrders, at : Nat])
    /\ brokerTime \in Nat /\ brokerTime >= 1
    /\ IsFiniteSet({o \in BrokerOrders : placed[o] > 0})
    /\ \A o \in BrokerOrders : placed[o] <= brokerTime
    /\ \A n \in DOMAIN filled : 1 <= filled[n].at /\ filled[n].at <= brokerTime

\* The identities a table has of a kind.
IdsIn(table, kind) == {r.id : r \in {x \in table : x.kind = kind}}

\* What a collection began with is at the broker, within the bounds.
KnownOk(s) ==
    /\ \A o \in s.known.order : placed[o] > 0 /\ placed[o] <= s.until
    /\ \A n \in s.known.fill : n \in DOMAIN filled /\ filled[n].at <= s.until

\* It is collected or still to come; a complete collection has it.
PagingOk(s) ==
    /\ s.phase = "order" => \A o \in s.known.order : o \in IdsIn(s.rows, "order") \/ placed[o] >= s.cursor
    /\ s.phase = "fill" => \A n \in s.known.fill : n \in IdsIn(s.rows, "fill") \/ filled[n].at >= s.cursor
    /\ s.phase \in {"fill", "import"} /\ s.complete => s.known.order \subseteq IdsIn(s.rows, "order")
    /\ s.phase = "import" /\ s.complete => s.known.fill \subseteq IdsIn(s.rows, "fill")

\* A fill is as it was made, and no order has more fills than were there.
RowsOk(s) ==
    /\ \A r \in s.rows : r.kind = "fill" => r.id \in DOMAIN filled /\ r = FillRow(r.id)
    /\ s.phase = "order" => \A r \in s.rows : r.kind = "order" => r.qty <= Cardinality(FillsOf(r.id))
    /\ s.phase \in {"fill", "import"} /\ s.since <= 1 /\ s.until >= brokerTime =>
          \A r \in s.rows : r.kind = "order" => r.qty <= Cardinality(s.known.fill \cap FillsOf(r.id))

SyncOk(s) == s \in Syncs /\ KnownOk(s) /\ PagingOk(s) /\ RowsOk(s)

SyncInv == sync = NoSync \/ SyncOk(sync)

\* A projection is that of a ledger the present one extends.
ProjectionOk(p) ==
    /\ p \in [records : {p.records}, through : Int, status : {"NONE", "SUCCESS", "FAILED"}]
    /\ \/ p.through = 0 - 1
       \/ p.through \in 0 .. Len(brokerLedger) /\ p.records = Observations(p.through)

ThreadsOk ==
    /\ \E S : deciding \in [Deciders -> S]
    /\ \A d \in Deciders : deciding[d].op \in {"rebuild", "coverage"} =>
                               deciding[d].through \in 0 .. Len(brokerLedger)

LedgerInv == IsSeq(brokerLedger) /\ ProjectionOk(projection) /\ ThreadsOk

ReconciliationInv == BrokerInv /\ SyncInv /\ LedgerInv

-----------------------------------------------------------------------------
(* Rows and pages *)

LEMMA IdsAreIn ==
    ASSUME NEW table, NEW kind, NEW i
    PROVE  i \in IdsIn(table, kind) <=> \E r \in table : r.kind = kind /\ r.id = i
BY DEF IdsIn

\* A set that is mapped into a finite one, no two to the same, is no larger.
LEMMA Injected ==
    ASSUME NEW R, NEW T, IsFiniteSet(T), NEW f \in [R -> T], \A r, q \in R : f[r] = f[q] => r = q
    PROVE  IsFiniteSet(R) /\ Cardinality(R) <= Cardinality(T) /\ Cardinality(R) \in Nat
<1>1. f \in Injection(R, T)
  BY DEF Injection, IsInjective
<1>2. IsFiniteSet(R) /\ Cardinality(R) <= Cardinality(T)
  BY <1>1, FS_Injection
<1> QED
  BY <1>2, FS_CardinalityType

LEMMA FillsFinite ==
    ASSUME BrokerInv, NEW o
    PROVE  /\ FillsOf(o) \subseteq 1 .. Len(filled) /\ Len(filled) \in Nat
           /\ IsFiniteSet(FillsOf(o)) /\ Cardinality(FillsOf(o)) \in Nat
<1>1. FillsOf(o) \in SUBSET (1 .. Len(filled)) /\ Len(filled) \in Nat
  BY DEF BrokerInv, FillsOf
<1>2. IsFiniteSet(1 .. Len(filled))
  BY <1>1, FS_Interval
<1>3. IsFiniteSet(FillsOf(o))
  BY <1>1, <1>2, FS_Subset
<1> QED
  BY <1>1, <1>3, FS_CardinalityType

LEMMA FilledTyped ==
    ASSUME BrokerInv, NEW n \in DOMAIN filled
    PROVE  n \in Nat /\ filled[n].order \in BrokerOrders /\ filled[n].at \in Nat
<1>1. filled \in Seq([order : BrokerOrders, at : Nat])
  BY DEF BrokerInv
<1>2. n \in 1 .. Len(filled) /\ Len(filled) \in Nat
  BY <1>1
<1>3. filled[n] \in [order : BrokerOrders, at : Nat]
  BY <1>1, <1>2, ElementOfSeq
<1> QED
  BY <1>2, <1>3

LEMMA RowsTyped ==
    ASSUME BrokerInv
    PROVE  /\ \A o \in BrokerOrders : OrderRow(o) \in OrderRows /\ OrderRow(o).id = o /\ OrderRow(o).at = placed[o]
           /\ \A n \in DOMAIN filled : FillRow(n) \in FillRows /\ FillRow(n).id = n /\ FillRow(n).at = filled[n].at
           /\ RowsOf("order") = {OrderRow(o) : o \in {x \in BrokerOrders : placed[x] > 0}}
           /\ RowsOf("fill") = {FillRow(n) : n \in DOMAIN filled}
           /\ \A kind \in {"order", "fill"} : \A r \in RowsOf(kind) :
                 r \in BrokerRows /\ r.kind = kind /\ r.at \in Nat /\ r.at <= brokerTime
<1>1. ASSUME NEW o \in BrokerOrders
      PROVE  /\ OrderRow(o) \in OrderRows /\ OrderRow(o).kind = "order"
             /\ OrderRow(o).id = o /\ OrderRow(o).at = placed[o]
  BY FillsFinite DEF BrokerInv, OrderRow, OrderRows
<1>2. ASSUME NEW n \in DOMAIN filled
      PROVE  FillRow(n) \in FillRows /\ FillRow(n).id = n /\ FillRow(n).at = filled[n].at /\ FillRow(n).kind = "fill"
  <2>1. filled[n].order \in BrokerOrders /\ filled[n].at \in Nat /\ n \in Nat
    BY FilledTyped
  <2> QED
    BY <2>1 DEF FillRow, FillRows
<1>3. /\ RowsOf("order") = {OrderRow(o) : o \in {x \in BrokerOrders : placed[x] > 0}}
      /\ RowsOf("fill") = {FillRow(n) : n \in DOMAIN filled}
  BY DEF RowsOf
<1>4. \A r \in RowsOf("order") : r \in BrokerRows /\ r.kind = "order" /\ r.at \in Nat /\ r.at <= brokerTime
  BY <1>1, <1>3 DEF BrokerInv, BrokerRows
<1>5. \A r \in RowsOf("fill") : r \in BrokerRows /\ r.kind = "fill" /\ r.at \in Nat /\ r.at <= brokerTime
  <2> SUFFICES ASSUME NEW n \in DOMAIN filled
               PROVE  /\ FillRow(n) \in BrokerRows /\ FillRow(n).kind = "fill"
                      /\ FillRow(n).at \in Nat /\ FillRow(n).at <= brokerTime
    BY <1>3
  <2>1. filled[n].at \in Nat /\ filled[n].at <= brokerTime
    BY FilledTyped DEF BrokerInv
  <2> QED
    BY <1>2, <2>1 DEF BrokerRows
<1> QED
  BY <1>1, <1>2, <1>3, <1>4, <1>5

LEMMA RowsFinite ==
    ASSUME BrokerInv, NEW kind \in {"order", "fill"}
    PROVE  IsFiniteSet(RowsOf(kind))
<1>1. CASE kind = "order"
  <2> DEFINE T == {o \in BrokerOrders : placed[o] > 0}
             f == [r \in RowsOf("order") |-> r.id]
  <2>1. IsFiniteSet(T)
    BY DEF BrokerInv
  <2>2. \A r \in RowsOf("order") : r.id \in T /\ r = OrderRow(r.id)
    BY RowsTyped
  <2>3. f \in [RowsOf("order") -> T]
    BY <2>2
  <2>4. \A r, q \in RowsOf("order") : f[r] = f[q] => r = q
    <3>1. \A r \in RowsOf("order") : f[r] = r.id
      OBVIOUS
    <3> HIDE DEF f, T
    <3> QED
      BY <2>2, <3>1
  <2> HIDE DEF f
  <2> QED
    BY <1>1, <2>1, <2>3, <2>4, Injected
<1>2. CASE kind = "fill"
  <2> DEFINE f == [r \in RowsOf("fill") |-> r.id]
  <2>1. IsFiniteSet(1 .. Len(filled)) /\ DOMAIN filled = 1 .. Len(filled)
    BY FS_Interval DEF BrokerInv
  <2>2. \A r \in RowsOf("fill") : r.id \in 1 .. Len(filled) /\ r = FillRow(r.id)
    BY <2>1, RowsTyped
  <2>3. f \in [RowsOf("fill") -> 1 .. Len(filled)]
    BY <2>2
  <2>4. \A r, q \in RowsOf("fill") : f[r] = f[q] => r = q
    <3>1. \A r \in RowsOf("fill") : f[r] = r.id
      OBVIOUS
    <3> HIDE DEF f
    <3> QED
      BY <2>2, <3>1
  <2> HIDE DEF f
  <2> QED
    BY <1>2, <2>1, <2>3, <2>4, Injected
<1> QED
  BY <1>1, <1>2

\* A page that is short has all that is left; behind a full one lies what is not
\* earlier than its last row.
LEMMA PagesLead ==
    ASSUME BrokerInv, NEW kind \in {"order", "fill"}, NEW cursor \in Nat, NEW page \in PagesFrom(kind, cursor)
    PROVE  /\ page \subseteq RowsOf(kind) /\ Cardinality(page) \in Nat
           /\ Cardinality(page) < PageLimit => \A r \in RowsOf(kind) : r.at >= cursor => r \in page
           /\ ~ (Cardinality(page) < PageLimit) =>
                 /\ Latest(page) \in Nat
                 /\ \A r \in RowsOf(kind) : r.at >= cursor => r \in page \/ r.at >= Latest(page)
<1> DEFINE eligible == {r \in RowsOf(kind) : r.at >= cursor}
<1>1. IsFiniteSet(eligible) /\ Cardinality(eligible) \in Nat
  <2>1. eligible \in SUBSET RowsOf(kind)
    OBVIOUS
  <2> QED
    BY <2>1, RowsFinite, FS_Subset, FS_CardinalityType
<1>2. /\ page \in SUBSET eligible
      /\ Cardinality(page) = IF Cardinality(eligible) < PageLimit THEN Cardinality(eligible) ELSE PageLimit
      /\ \A r \in page, s \in eligible \ page : r.at <= s.at
  BY DEF PagesFrom, kSubset
<1> HIDE DEF eligible
<1>3. IsFiniteSet(page) /\ (Cardinality(eligible) = Cardinality(page) => eligible = page)
  BY <1>1, <1>2, FS_Subset
<1>4. PageLimit \in Nat /\ PageLimit > 0
  BY ReconciliationAssumption
<1>5. Cardinality(page) \in Nat
  BY <1>3, FS_CardinalityType
<1>6. ASSUME Cardinality(page) < PageLimit PROVE \A r \in RowsOf(kind) : r.at >= cursor => r \in page
  <2>1. eligible = page
    BY <1>1, <1>2, <1>3, <1>4, <1>6
  <2> QED
    BY <2>1 DEF eligible
<1>7. ASSUME ~ (Cardinality(page) < PageLimit)
      PROVE  /\ Latest(page) \in Nat
             /\ \A r \in RowsOf(kind) : r.at >= cursor => r \in page \/ r.at >= Latest(page)
  <2>1. page # {}
    <3>1. Cardinality({}) = 0
      BY FS_EmptySet
    <3>2. Cardinality(page) # 0
      BY <1>4, <1>5, <1>7
    <3> QED
      BY <3>1, <3>2, Zenon
  <2> DEFINE ats == {r.at : r \in page}
  <2>2. ats \subseteq 0 .. brokerTime /\ ats # {}
    <3>1. \A r \in page : r.at \in Nat /\ r.at <= brokerTime
      BY <1>2, RowsTyped DEF eligible
    <3> QED
      BY <2>1, <3>1 DEF BrokerInv
  <2> HIDE DEF ats
  <2>3. \E x \in ats : \A y \in ats : x >= y
    <3>1. PICK x \in ats : \A y \in ats : y <= x
      BY <2>2, LargestExists DEF BrokerInv
    <3>2. \A y \in ats : x >= y
      BY <2>2, <3>1
    <3> QED
      BY <3>2
  <2>4. Max(ats) \in ats
    BY <2>3, Zenon DEF Max
  <2>5. PICK last \in page : Latest(page) = last.at
    BY <2>4 DEF ats, Latest
  <2>6. Latest(page) \in Nat
    BY <2>2, <2>4 DEF ats, Latest
  <2>7. ASSUME NEW r \in RowsOf(kind), r.at >= cursor, r \notin page PROVE r.at >= Latest(page)
    <3>1. last.at <= r.at
      BY <1>2, <2>7 DEF eligible
    <3>2. r.at \in Nat
      BY RowsTyped
    <3> QED
      BY <2>5, <2>6, <3>1, <3>2
  <2> QED
    BY <2>6, <2>7
<1> QED
  BY <1>2, <1>5, <1>6, <1>7 DEF eligible

LEMMA MergeKeeps ==
    ASSUME NEW table, NEW page
    PROVE  /\ \A r \in table : \E x \in Merged(table, page) : x.kind = r.kind /\ x.id = r.id
           /\ page \subseteq Merged(table, page)
           /\ \A x \in Merged(table, page) : x \in table \/ x \in page
BY DEF Merged

-----------------------------------------------------------------------------
(* The broker *)

\* Orders and fills stay as they were made.
BrokerExtends ==
    /\ \A o \in BrokerOrders : placed[o] > 0 => placed'[o] = placed[o]
    /\ \A n \in DOMAIN filled : n \in DOMAIN filled' /\ filled'[n] = filled[n]
    /\ brokerTime <= brokerTime'

LEMMA SyncStays ==
    ASSUME BrokerInv, BrokerInv', BrokerExtends, SyncInv, sync' = sync
    PROVE  SyncInv'
<1> SUFFICES ASSUME SyncOk(sync) PROVE SyncOk(sync)'
  BY DEF SyncInv
<1>1. sync \in Syncs /\ sync' \in Syncs
  BY DEF SyncOk
<1>2. /\ sync.known.order \subseteq BrokerOrders /\ sync.known.fill \subseteq Nat /\ sync.rows \subseteq BrokerRows
      /\ sync.until \in Nat /\ sync.since \in Nat /\ sync.cursor \in Nat
  BY <1>1 DEF Syncs
<1>3. ASSUME NEW o
      PROVE  /\ FillsOf(o) \subseteq FillsOf(o)'
             /\ sync.known.fill \cap FillsOf(o) = sync.known.fill \cap FillsOf(o)'
  BY DEF SyncOk, KnownOk, FillsOf, BrokerExtends
<1>4. ASSUME NEW o PROVE Cardinality(FillsOf(o)) <= Cardinality(FillsOf(o)')
                         /\ Cardinality(FillsOf(o)) \in Nat /\ Cardinality(FillsOf(o)') \in Nat
  <2>1. IsFiniteSet(FillsOf(o)) /\ Cardinality(FillsOf(o)) \in Nat
    BY FillsFinite
  <2>2. IsFiniteSet(FillsOf(o)')
    <3>1. FillsOf(o)' \in SUBSET (1 .. Len(filled')) /\ Len(filled') \in Nat
      BY DEF BrokerInv, FillsOf
    <3>2. IsFiniteSet(1 .. Len(filled'))
      BY <3>1, FS_Interval
    <3> QED
      BY <3>1, <3>2, FS_Subset
  <2> QED
    BY <1>3, <2>1, <2>2, FS_Subset, FS_CardinalityType
<1>5. \A o : Cardinality(sync.known.fill \cap FillsOf(o)) = Cardinality(sync.known.fill \cap FillsOf(o)')
  BY <1>3, Zenon
<1>6. \A n \in DOMAIN filled : FillRow(n)' = FillRow(n)
  BY DEF FillRow, BrokerExtends
<1>7. KnownOk(sync)'
  BY <1>2 DEF SyncOk, KnownOk, BrokerExtends
<1>8. PagingOk(sync)'
  BY <1>2 DEF SyncOk, KnownOk, PagingOk, BrokerExtends, IdsIn
<1>9. RowsOk(sync)'
  <2>1. \A r \in sync.rows : r.kind = "fill" => r.id \in DOMAIN filled' /\ r = FillRow(r.id)'
    BY <1>6 DEF SyncOk, RowsOk, BrokerExtends
  <2>2. ASSUME sync.phase = "order", NEW r \in sync.rows, r.kind = "order"
        PROVE  r.qty <= Cardinality(FillsOf(r.id)')
    <3>1. r.qty <= Cardinality(FillsOf(r.id)) /\ r.qty \in Nat
      BY <1>2, <2>2 DEF SyncOk, RowsOk, BrokerRows, OrderRows, FillRows
    <3> QED
      BY <1>4, <3>1
  <2>3. ASSUME sync.phase \in {"fill", "import"}, sync.since <= 1, sync.until >= brokerTime',
               NEW r \in sync.rows, r.kind = "order"
        PROVE  r.qty <= Cardinality(sync.known.fill \cap FillsOf(r.id)')
    <3>1. sync.until >= brokerTime
      BY <1>2, <2>3 DEF BrokerInv, BrokerExtends
    <3>2. r.qty <= Cardinality(sync.known.fill \cap FillsOf(r.id))
      BY <2>3, <3>1 DEF SyncOk, RowsOk
    <3> QED
      BY <1>5, <3>2
  <2> QED
    BY <2>1, <2>2, <2>3 DEF RowsOk
<1> QED
  BY <1>1, <1>7, <1>8, <1>9 DEF SyncOk

LEMMA BrokerMoves ==
    ASSUME BrokerInv, SyncInv, BrokerTrades \/ BrokerClock
    PROVE  BrokerInv' /\ SyncInv'
<1>1. /\ placed \in [BrokerOrders -> Nat] /\ filled \in Seq([order : BrokerOrders, at : Nat])
      /\ brokerTime \in Nat /\ brokerTime >= 1 /\ sync' = sync
  BY DEF BrokerInv, BrokerTrades, BrokerClock
<1>2. ASSUME NEW o \in BrokerOrders, placed[o] = 0, placed' = [placed EXCEPT ![o] = brokerTime],
             filled' = filled, brokerTime' = brokerTime
      PROVE  BrokerInv' /\ BrokerExtends
  <2>1. /\ placed' \in [BrokerOrders -> Nat]
        /\ \A p \in BrokerOrders : placed'[p] = IF p = o THEN brokerTime ELSE placed[p]
    BY <1>1, <1>2
  <2>2. {p \in BrokerOrders : placed'[p] > 0} = {p \in BrokerOrders : placed[p] > 0} \cup {o}
    BY <1>1, <2>1
  <2>3. IsFiniteSet({p \in BrokerOrders : placed'[p] > 0})
    BY <2>2, FS_AddElement DEF BrokerInv
  <2>4. BrokerInv'
    BY <1>1, <1>2, <2>1, <2>3 DEF BrokerInv
  <2> QED
    BY <1>1, <1>2, <2>1, <2>4 DEF BrokerExtends
<1>3. ASSUME NEW o \in BrokerOrders, filled' = Append(filled, [order |-> o, at |-> brokerTime]),
             placed' = placed, brokerTime' = brokerTime
      PROVE  BrokerInv' /\ BrokerExtends
  <2>1. [order |-> o, at |-> brokerTime] \in [order : BrokerOrders, at : Nat]
    BY <1>1
  <2>2. /\ filled' \in Seq([order : BrokerOrders, at : Nat]) /\ Len(filled') = Len(filled) + 1
        /\ \A n \in 1 .. Len(filled) : filled'[n] = filled[n]
        /\ filled'[Len(filled) + 1] = [order |-> o, at |-> brokerTime]
        /\ DOMAIN filled = 1 .. Len(filled) /\ DOMAIN filled' = 1 .. Len(filled')
        /\ Len(filled) \in Nat
    BY <1>1, <1>3, <2>1, AppendProperties
  <2>3. filled'[Len(filled) + 1].at = brokerTime
    BY <2>2
  <2>4. \A n \in DOMAIN filled' : n \in DOMAIN filled \/ n = Len(filled) + 1
    BY <2>2
  <2>5. \A n \in DOMAIN filled' : 1 <= filled'[n].at /\ filled'[n].at <= brokerTime'
    BY <1>1, <1>3, <2>2, <2>3, <2>4 DEF BrokerInv
  <2>6. BrokerInv'
    BY <1>1, <1>3, <2>2, <2>5 DEF BrokerInv
  <2> QED
    BY <1>1, <1>3, <2>2, <2>6 DEF BrokerExtends
<1>4. CASE BrokerClock
  <2>1. placed' = placed /\ filled' = filled /\ brokerTime' = brokerTime + 1
    BY <1>4 DEF BrokerClock
  <2>2. \A n \in DOMAIN filled : filled[n].at \in Nat
    BY FilledTyped
  <2>3. brokerTime' \in Nat /\ brokerTime <= brokerTime' /\ 1 <= brokerTime'
    BY <1>1, <2>1
  <2>4. \A o \in BrokerOrders : placed[o] <= brokerTime'
    BY <1>1, <2>3 DEF BrokerInv
  <2>5. \A n \in DOMAIN filled : 1 <= filled[n].at /\ filled[n].at <= brokerTime'
    BY <1>1, <2>2, <2>3 DEF BrokerInv
  <2>6. BrokerInv'
    BY <2>1, <2>3, <2>4, <2>5 DEF BrokerInv
  <2> QED
    BY <1>1, <2>1, <2>3, <2>6, SyncStays DEF BrokerExtends
<1> QED
  BY <1>1, <1>2, <1>3, <1>4, SyncStays DEF BrokerTrades

-----------------------------------------------------------------------------
(* The sync *)

\* The broker rests while a page is read.
LEMMA SyncSet ==
    ASSUME NEW x, SyncOk(x), UNCHANGED brokerVars, sync' = x
    PROVE  SyncInv'
BY DEF SyncInv, SyncOk, KnownOk, PagingOk, RowsOk, IdsIn, FillsOf, FillRow, brokerVars

\* What is in the window when a collection begins.
InWindow(kind, s) == {r.id : r \in {x \in RowsOf(kind) : x.at \in s.since .. s.until}}

LEMMA CollectedFields ==
    ASSUME BrokerInv, NEW s \in Syncs, NEW kind \in {"order", "fill"}
    PROVE  LET c == Collected(kind, s)
           IN  /\ c \in Syncs /\ c.phase = kind /\ c.cursor = s.since /\ c.since = s.since /\ c.until = s.until
               /\ c.rows = s.rows /\ c.complete = s.complete
               /\ kind = "order" => c.known.order = InWindow("order", s) /\ c.known.fill = s.known.fill
               /\ kind = "fill" => c.known.fill = InWindow("fill", s) /\ c.known.order = s.known.order
<1> DEFINE c == Collected(kind, s)
<1>1. InWindow("order", s) \in SUBSET BrokerOrders /\ InWindow("fill", s) \in SUBSET Nat
  <2>1. \A r \in RowsOf("order") : r.id \in BrokerOrders
    BY RowsTyped
  <2>2. \A r \in RowsOf("fill") : r.id \in Nat
    BY RowsTyped, FilledTyped
  <2> QED
    BY <2>1, <2>2 DEF InWindow
<1>2. s.known \in [order : SUBSET BrokerOrders, fill : SUBSET Nat]
  BY DEF Syncs
<1> DEFINE known == [s.known EXCEPT ![kind] = InWindow(kind, s)]
<1>3. /\ known \in [order : SUBSET BrokerOrders, fill : SUBSET Nat]
      /\ kind = "order" => known.order = InWindow("order", s) /\ known.fill = s.known.fill
      /\ kind = "fill" => known.fill = InWindow("fill", s) /\ known.order = s.known.order
  BY <1>1, <1>2
<1>4. c = [s EXCEPT !.phase = kind, !.cursor = s.since, !.attempt = 1, !.seen = {}, !.count = 0, !.known = known]
  BY DEF Collected, InWindow, Syncs
<1> HIDE DEF known, c
<1>5. /\ c.phase = kind /\ c.cursor = s.since /\ c.since = s.since /\ c.until = s.until
      /\ c.rows = s.rows /\ c.complete = s.complete /\ c.known = known
  BY <1>4 DEF Syncs
<1>6. c \in Syncs
  BY <1>3, <1>4 DEF Syncs
<1> QED
  BY <1>3, <1>5, <1>6 DEF c

LEMMA WindowFacts ==
    ASSUME BrokerInv, NEW s \in Syncs
    PROVE  /\ \A o \in InWindow("order", s) : placed[o] > 0 /\ placed[o] >= s.since /\ placed[o] <= s.until
           /\ \A n \in InWindow("fill", s) :
                 n \in DOMAIN filled /\ filled[n].at >= s.since /\ filled[n].at <= s.until
           /\ s.since <= 1 /\ s.until >= brokerTime => DOMAIN filled \subseteq InWindow("fill", s)
<1>1. s.since \in Nat /\ s.until \in Nat /\ brokerTime \in Nat
  BY DEF Syncs, BrokerInv
<1>2. ASSUME NEW o \in InWindow("order", s)
      PROVE  placed[o] > 0 /\ placed[o] >= s.since /\ placed[o] <= s.until
  <2>1. PICK r \in RowsOf("order") : r.id = o /\ r.at \in s.since .. s.until
    BY DEF InWindow
  <2>2. PICK p \in BrokerOrders : placed[p] > 0 /\ r = OrderRow(p)
    BY RowsTyped
  <2>3. p = o /\ r.at = placed[p]
    BY <2>1, <2>2, RowsTyped
  <2> QED
    BY <1>1, <2>1, <2>2, <2>3
<1>3. ASSUME NEW n \in InWindow("fill", s)
      PROVE  n \in DOMAIN filled /\ filled[n].at >= s.since /\ filled[n].at <= s.until
  <2>1. PICK r \in RowsOf("fill") : r.id = n /\ r.at \in s.since .. s.until
    BY DEF InWindow
  <2>2. PICK m \in DOMAIN filled : r = FillRow(m)
    BY RowsTyped
  <2>3. m = n /\ r.at = filled[m].at
    BY <2>1, <2>2, RowsTyped
  <2> QED
    BY <1>1, <2>1, <2>2, <2>3
<1>4. ASSUME s.since <= 1, s.until >= brokerTime, NEW n \in DOMAIN filled PROVE n \in InWindow("fill", s)
  <2>1. 1 <= filled[n].at /\ filled[n].at <= brokerTime /\ filled[n].at \in Nat
    BY FilledTyped DEF BrokerInv
  <2>2. FillRow(n) \in RowsOf("fill") /\ FillRow(n).id = n /\ FillRow(n).at = filled[n].at
    BY RowsTyped
  <2>3. FillRow(n).at \in s.since .. s.until
    BY <1>1, <1>4, <2>1, <2>2
  <2> QED
    BY <2>2, <2>3 DEF InWindow
<1> QED
  BY <1>2, <1>3, <1>4

\* A collection of orders begins.
LEMMA OrdersBegin ==
    ASSUME BrokerInv, NEW s \in Syncs, s.rows = {}, s.known.fill = {}
    PROVE  SyncOk(Collected("order", s))
<1> DEFINE c == Collected("order", s)
<1>1. /\ c \in Syncs /\ c.phase = "order" /\ c.cursor = s.since /\ c.until = s.until /\ c.rows = {}
      /\ c.known.order = InWindow("order", s) /\ c.known.fill = {}
  BY CollectedFields
<1> HIDE DEF c
<1>2. KnownOk(c) /\ PagingOk(c) /\ RowsOk(c)
  BY <1>1, WindowFacts DEF KnownOk, PagingOk, RowsOk
<1> QED
  BY <1>1, <1>2 DEF SyncOk, c

LEMMA SyncStarts ==
    ASSUME BrokerInv, StartSync
    PROVE  SyncInv'
<1>1. PICK b \in Bounds :
         sync' = Collected("order", [phase |-> "order", since |-> b[1], until |-> b[2], cursor |-> 0,
                                     attempt |-> 1, seen |-> {}, count |-> 0, rows |-> {}, odd |-> FALSE,
                                     known |-> [order |-> {}, fill |-> {}], requests |-> 0, complete |-> TRUE])
  BY DEF StartSync
<1> DEFINE s == [phase |-> "order", since |-> b[1], until |-> b[2], cursor |-> 0, attempt |-> 1, seen |-> {},
                 count |-> 0, rows |-> {}, odd |-> FALSE, known |-> [order |-> {}, fill |-> {}],
                 requests |-> 0, complete |-> TRUE]
<1>2. s \in Syncs
  BY ReconciliationAssumption DEF Syncs
<1>3. s.rows = {} /\ s.known.fill = {}
  OBVIOUS
<1>4. sync' = Collected("order", s) /\ UNCHANGED brokerVars
  BY <1>1 DEF StartSync
<1> HIDE DEF s
<1>5. SyncOk(Collected("order", s))
  BY <1>2, <1>3, OrdersBegin
<1> QED
  BY <1>4, <1>5, SyncSet

LEMMA RequestRepeats ==
    ASSUME BrokerInv, SyncInv, RequestFails
    PROVE  SyncInv'
<1>1. UNCHANGED brokerVars /\ SyncOk(sync)
  BY DEF RequestFails, Collecting, SyncInv, NoSync
<1>2. CASE sync' = NoSync
  BY <1>2 DEF SyncInv
<1> DEFINE x == [sync EXCEPT !.attempt = sync.attempt + 1, !.requests = sync.requests + 1]
<1>3. CASE sync' = x
  <2>1. sync \in Syncs
    BY <1>1 DEF SyncOk
  <2>2. /\ x.phase = sync.phase /\ x.since = sync.since /\ x.until = sync.until
        /\ x.cursor = sync.cursor /\ x.rows = sync.rows /\ x.known = sync.known /\ x.complete = sync.complete
    BY <2>1 DEF Syncs
  <2>4. sync.attempt + 1 \in Nat /\ sync.requests + 1 \in Nat
    BY <2>1 DEF Syncs
  <2>5. x \in Syncs
    BY <2>1, <2>4 DEF Syncs
  <2> HIDE DEF x
  <2>3. SyncOk(x)
    BY <1>1, <2>2, <2>5 DEF SyncOk, KnownOk, PagingOk, RowsOk
  <2> QED
    BY <1>1, <1>3, <2>3, SyncSet
<1> QED
  BY <1>2, <1>3 DEF RequestFails

\* What a page adds to the rows.
LEMMA RowsKept ==
    ASSUME BrokerInv, NEW s, SyncOk(s), NEW kind \in {"order", "fill"}, s.phase = kind,
           NEW page, page \subseteq RowsOf(kind)
    PROVE  LET table == Merged(s.rows, {r \in page : r.at <= s.until})
           IN  /\ table \subseteq BrokerRows
               /\ \A r \in table : r.kind = "fill" => r.id \in DOMAIN filled /\ r = FillRow(r.id)
               /\ kind = "order" => \A r \in table : r.kind = "order" => r.qty <= Cardinality(FillsOf(r.id))
               /\ kind = "fill" => \A r \in table : r.kind = "order" => r \in s.rows
<1> DEFINE mapped == {r \in page : r.at <= s.until}
           table  == Merged(s.rows, mapped)
<1>1. \A r \in table : r \in s.rows \/ r \in page
  BY MergeKeeps
<1> HIDE DEF mapped, table
<1>2. s.rows \subseteq BrokerRows
  BY DEF SyncOk, Syncs
<1>3. \A r \in page : r \in BrokerRows /\ r.kind = kind
  BY RowsTyped
<1>4. ASSUME NEW r \in table, r.kind = "fill" PROVE r.id \in DOMAIN filled /\ r = FillRow(r.id)
  <2>1. CASE r \in s.rows
    BY <1>4, <2>1 DEF SyncOk, RowsOk
  <2>2. CASE r \in page
    <3>1. r \in RowsOf("fill")
      BY <1>3, <1>4, <2>2
    <3> QED
      BY <3>1, RowsTyped
  <2> QED
    BY <1>1, <2>1, <2>2
<1>5. ASSUME kind = "order", NEW r \in table, r.kind = "order" PROVE r.qty <= Cardinality(FillsOf(r.id))
  <2>1. CASE r \in s.rows
    BY <1>5, <2>1 DEF SyncOk, RowsOk
  <2>2. CASE r \in page
    <3>1. PICK o \in BrokerOrders : r = OrderRow(o)
      BY <1>5, <2>2, RowsTyped
    <3>2. r.id = o /\ r.qty = Cardinality(FillsOf(o)) /\ Cardinality(FillsOf(o)) \in Nat
      BY <3>1, FillsFinite DEF OrderRow
    <3> QED
      BY <3>2
  <2> QED
    BY <1>1, <2>1, <2>2
<1>6. ASSUME kind = "fill", NEW r \in table, r.kind = "order" PROVE r \in s.rows
  BY <1>1, <1>3, <1>6
<1> QED
  BY <1>1, <1>2, <1>3, <1>4, <1>5, <1>6 DEF table, mapped

\* What was known when the collection began is in the rows or behind the page.
LEMMA KnownKept ==
    ASSUME BrokerInv, NEW s, SyncOk(s), NEW kind \in {"order", "fill"}, s.phase = kind,
           NEW page \in PagesFrom(kind, s.cursor)
    PROVE  LET table == Merged(s.rows, {r \in page : r.at <= s.until})
               short == Cardinality(page) < PageLimit
           IN  /\ \A k \in {"order", "fill"} : IdsIn(s.rows, k) \subseteq IdsIn(table, k)
               /\ kind = "order" => \A o \in s.known.order :
                     o \in IdsIn(table, "order") \/ (~ short /\ placed[o] >= Latest(page))
               /\ kind = "fill" => \A n \in s.known.fill :
                     n \in IdsIn(table, "fill") \/ (~ short /\ filled[n].at >= Latest(page))
<1> DEFINE mapped == {r \in page : r.at <= s.until}
           table  == Merged(s.rows, mapped)
           short  == Cardinality(page) < PageLimit
<1>1. \A k \in {"order", "fill"} : IdsIn(s.rows, k) \subseteq IdsIn(table, k)
  <2>1. \A r \in s.rows : \E x \in table : x.kind = r.kind /\ x.id = r.id
    BY MergeKeeps
  <2> HIDE DEF table
  <2> QED
    BY <2>1 DEF IdsIn
<1>2. \A r \in page : r.at <= s.until => r \in table
  BY MergeKeeps
<1>3. s \in Syncs /\ s.cursor \in Nat /\ s.known.order \subseteq BrokerOrders
  BY DEF SyncOk, Syncs
<1>4. ASSUME NEW r \in RowsOf(kind), r.at >= s.cursor, r.at <= s.until
      PROVE  r \in table \/ (~ short /\ r.at >= Latest(page))
  BY <1>2, <1>3, <1>4, PagesLead
<1> HIDE DEF table, mapped, short
<1>5. ASSUME kind = "order", NEW o \in s.known.order
      PROVE  o \in IdsIn(table, "order") \/ (~ short /\ placed[o] >= Latest(page))
  <2>1. placed[o] > 0 /\ placed[o] <= s.until /\ o \in BrokerOrders
    BY <1>3 DEF SyncOk, KnownOk
  <2>2. o \in IdsIn(s.rows, "order") \/ placed[o] >= s.cursor
    BY <1>5 DEF SyncOk, PagingOk
  <2>3. /\ OrderRow(o) \in RowsOf("order") /\ OrderRow(o).kind = "order"
        /\ OrderRow(o).id = o /\ OrderRow(o).at = placed[o]
    BY <2>1, RowsTyped
  <2>4. CASE placed[o] >= s.cursor
    BY <1>4, <1>5, <2>1, <2>3, <2>4 DEF IdsIn
  <2> QED
    BY <1>1, <2>2, <2>4
<1>6. ASSUME kind = "fill", NEW n \in s.known.fill
      PROVE  n \in IdsIn(table, "fill") \/ (~ short /\ filled[n].at >= Latest(page))
  <2>1. n \in DOMAIN filled /\ filled[n].at <= s.until
    BY DEF SyncOk, KnownOk
  <2>2. n \in IdsIn(s.rows, "fill") \/ filled[n].at >= s.cursor
    BY <1>6 DEF SyncOk, PagingOk
  <2>3. /\ FillRow(n) \in RowsOf("fill") /\ FillRow(n).kind = "fill"
        /\ FillRow(n).id = n /\ FillRow(n).at = filled[n].at
    BY <2>1, RowsTyped
  <2>4. CASE filled[n].at >= s.cursor
    BY <1>4, <1>6, <2>1, <2>3, <2>4 DEF IdsIn
  <2> QED
    BY <1>1, <2>2, <2>4
<1> QED
  BY <1>1, <1>5, <1>6 DEF table, mapped, short

\* A page that was received, before it is decided how to go on.
Taken(s, table, odd, ok) ==
    [s EXCEPT !.rows = table, !.count = s.count + 1, !.requests = s.requests + 1, !.odd = odd, !.complete = ok]

LEMMA PageTaken ==
    ASSUME NEW s \in Syncs, NEW table, table \subseteq BrokerRows, NEW odd \in BOOLEAN, NEW ok \in BOOLEAN
    PROVE  /\ Taken(s, table, odd, ok) \in Syncs
           /\ Taken(s, table, odd, ok).phase = s.phase /\ Taken(s, table, odd, ok).since = s.since
           /\ Taken(s, table, odd, ok).until = s.until /\ Taken(s, table, odd, ok).cursor = s.cursor
           /\ Taken(s, table, odd, ok).seen = s.seen /\ Taken(s, table, odd, ok).rows = table
           /\ Taken(s, table, odd, ok).known = s.known /\ Taken(s, table, odd, ok).complete = ok
<1> DEFINE got == Taken(s, table, odd, ok)
<1>1. /\ got.phase = s.phase /\ got.since = s.since /\ got.until = s.until
      /\ got.cursor = s.cursor /\ got.seen = s.seen /\ got.rows = table /\ got.known = s.known
      /\ got.complete = ok
  BY DEF Syncs, Taken
<1>2. s.count + 1 \in Nat /\ s.requests + 1 \in Nat
  BY DEF Syncs
<1>3. got \in Syncs
  BY <1>2 DEF Syncs, Taken
<1> QED
  BY <1>1, <1>3

\* What a page makes of the sync.
Answered(page, odd) ==
    LET mapped  == {r \in page : r.at <= sync.until}
        outcome == Outcome(page, mapped, odd)
        got     == [sync EXCEPT !.rows = Merged(@, mapped), !.count = @ + 1,
                                !.requests = @ + 1,
                                !.odd = @ \/ odd,
                                !.complete = @ /\ outcome # "partial"]
    IN  /\ odd => page # {}
        /\ sync' = IF outcome = "more"
                   THEN [got EXCEPT !.cursor = NewCursor(page), !.attempt = 1,
                                    !.seen = @ \cup {mapped}]
                   ELSE IF sync.phase = "order" THEN Collected("fill", got)
                   ELSE [got EXCEPT !.phase = "import"]

LEMMA PageReceived ==
    ASSUME BrokerInv, SyncInv, ReceivePage
    PROVE  SyncInv'
<1>1. UNCHANGED brokerVars /\ SyncOk(sync) /\ sync.phase \in {"order", "fill"} /\ sync \in Syncs
  BY DEF ReceivePage, Collecting, SyncInv, NoSync, SyncOk
<1>2. PICK page \in PagesFrom(sync.phase, sync.cursor), odd \in BOOLEAN : Answered(page, odd)
  BY Zenon DEF ReceivePage, Answered
<1> DEFINE mapped == {r \in page : r.at <= sync.until}
           out    == Outcome(page, mapped, odd)
           table  == Merged(sync.rows, mapped)
           odds   == sync.odd \/ odd
           ok     == sync.complete /\ out # "partial"
           g      == Taken(sync, table, odds, ok)
<1>3. sync.cursor \in Nat /\ sync.complete \in BOOLEAN /\ odds \in BOOLEAN /\ ok \in BOOLEAN
  BY <1>1 DEF Syncs
<1>4. /\ page \subseteq RowsOf(sync.phase)
      /\ ~ (Cardinality(page) < PageLimit) => Latest(page) \in Nat
  BY <1>1, <1>2, <1>3, PagesLead
<1>5. /\ table \subseteq BrokerRows
      /\ \A r \in table : r.kind = "fill" => r.id \in DOMAIN filled /\ r = FillRow(r.id)
      /\ sync.phase = "order" => \A r \in table : r.kind = "order" => r.qty <= Cardinality(FillsOf(r.id))
      /\ sync.phase = "fill" => \A r \in table : r.kind = "order" => r \in sync.rows
  BY <1>1, <1>4, RowsKept
<1>6. /\ \A k \in {"order", "fill"} : IdsIn(sync.rows, k) \subseteq IdsIn(table, k)
      /\ sync.phase = "order" => \A o \in sync.known.order :
            o \in IdsIn(table, "order") \/ (~ (Cardinality(page) < PageLimit) /\ placed[o] >= Latest(page))
      /\ sync.phase = "fill" => \A n \in sync.known.fill :
            n \in IdsIn(table, "fill") \/ (~ (Cardinality(page) < PageLimit) /\ filled[n].at >= Latest(page))
  BY <1>1, <1>2, KnownKept
<1>7. /\ out \in {"partial", "complete", "more"}
      /\ out = "complete" => Cardinality(page) < PageLimit
      /\ out = "more" => ~ (Cardinality(page) < PageLimit)
  BY DEF Outcome
<1>8. /\ g \in Syncs /\ g.phase = sync.phase /\ g.since = sync.since /\ g.until = sync.until
      /\ g.cursor = sync.cursor /\ g.seen = sync.seen /\ g.rows = table /\ g.known = sync.known
      /\ g.complete = ok
  <2>1. sync \in Syncs /\ table \subseteq BrokerRows /\ odds \in BOOLEAN /\ ok \in BOOLEAN
    BY <1>1, <1>3, <1>5
  <2> HIDE DEF mapped, out, table, odds, ok
  <2> QED
    BY <2>1, PageTaken
<1>9. /\ out = "more" => sync' = [g EXCEPT !.cursor = NewCursor(page), !.attempt = 1,
                                            !.seen = g.seen \cup {mapped}]
      /\ out # "more" /\ sync.phase = "order" => sync' = Collected("fill", g)
      /\ out # "more" /\ sync.phase = "fill" => sync' = [g EXCEPT !.phase = "import"]
  BY <1>1, <1>2 DEF Answered, Taken
<1>10. mapped \in SUBSET BrokerRows
  BY <1>4, <1>1, RowsTyped
<1>11. KnownOk(g)
  BY <1>1, <1>8 DEF SyncOk, KnownOk
<1> HIDE DEF g, table, out, ok, odds, mapped
<1>12. CASE out = "more"
  <2> DEFINE x == [g EXCEPT !.cursor = NewCursor(page), !.attempt = 1, !.seen = g.seen \cup {mapped}]
  <2>1. NewCursor(page) \in Nat /\ NewCursor(page) = Latest(page)
    BY <1>4, <1>7, <1>12 DEF NewCursor
  <2>2. /\ x.phase = g.phase /\ x.since = g.since /\ x.until = g.until /\ x.cursor = NewCursor(page)
        /\ x.rows = g.rows /\ x.known = g.known /\ x.complete = g.complete
    BY <1>8 DEF Syncs
  <2>3. g.seen \cup {mapped} \in SUBSET SUBSET BrokerRows
    BY <1>8, <1>10 DEF Syncs
  <2>4. x \in Syncs
    <3> DEFINE seen == g.seen \cup {mapped}
    <3> HIDE DEF seen
    <3> QED BY <1>8, <2>1, <2>3 DEF Syncs, seen
  <2>5. sync' = x
    BY <1>9, <1>12
  <2> HIDE DEF x
  <2>6. KnownOk(x)
    BY <1>11, <2>2 DEF KnownOk
  <2>7. PagingOk(x)
    BY <1>1, <1>3, <1>6, <1>8, <2>1, <2>2 DEF SyncOk, PagingOk, ok
  <2>8. RowsOk(x)
    BY <1>1, <1>5, <1>8, <2>2 DEF SyncOk, RowsOk
  <2> QED
    BY <1>1, <2>4, <2>5, <2>6, <2>7, <2>8, SyncSet DEF SyncOk
<1>13. CASE out # "more" /\ sync.phase = "order"
  <2> DEFINE c == Collected("fill", g)
  <2>1. /\ c \in Syncs /\ c.phase = "fill" /\ c.cursor = g.since /\ c.since = g.since /\ c.until = g.until
        /\ c.rows = table /\ c.complete = ok
        /\ c.known.fill = InWindow("fill", g) /\ c.known.order = sync.known.order
    BY <1>8, CollectedFields
  <2>2. sync' = c
    BY <1>9, <1>13
  <2> HIDE DEF c
  <2>3. KnownOk(c)
    BY <1>8, <1>11, <2>1, WindowFacts DEF KnownOk
  <2>4. PagingOk(c)
    <3>1. \A n \in InWindow("fill", g) : filled[n].at >= g.since
      BY <1>8, WindowFacts
    <3>2. ok => sync.known.order \subseteq IdsIn(table, "order")
      BY <1>6, <1>7, <1>13 DEF ok
    <3> QED
      BY <2>1, <3>1, <3>2 DEF PagingOk
  <2>5. RowsOk(c)
    <3>1. ASSUME c.since <= 1, c.until >= brokerTime, NEW r \in table, r.kind = "order"
          PROVE  r.qty <= Cardinality(c.known.fill \cap FillsOf(r.id))
      <4>1. FillsOf(r.id) \subseteq InWindow("fill", g)
        BY <1>8, <2>1, <3>1, WindowFacts DEF FillsOf
      <4>2. c.known.fill \cap FillsOf(r.id) = FillsOf(r.id)
        BY <2>1, <4>1
      <4>3. r.qty <= Cardinality(FillsOf(r.id))
        BY <1>5, <1>13, <3>1
      <4> QED
        BY <4>2, <4>3
    <3> QED
      BY <1>5, <2>1, <3>1 DEF RowsOk
  <2> QED
    BY <1>1, <2>1, <2>2, <2>3, <2>4, <2>5, SyncSet DEF SyncOk
<1>14. CASE out # "more" /\ sync.phase = "fill"
  <2> DEFINE x == [g EXCEPT !.phase = "import"]
  <2>1. /\ x \in Syncs /\ x.phase = "import" /\ x.since = g.since /\ x.until = g.until
        /\ x.rows = g.rows /\ x.known = g.known /\ x.complete = g.complete
    BY <1>8 DEF Syncs
  <2>2. sync' = x
    BY <1>9, <1>14
  <2> HIDE DEF x
  <2>3. KnownOk(x)
    BY <1>11, <2>1 DEF KnownOk
  <2>4. PagingOk(x)
    <3>1. ok => Cardinality(page) < PageLimit /\ sync.complete
      BY <1>7, <1>14 DEF ok
    <3>2. sync.complete => sync.known.order \subseteq IdsIn(sync.rows, "order")
      BY <1>1, <1>14 DEF SyncOk, PagingOk
    <3>3. ok => sync.known.order \subseteq IdsIn(table, "order") /\ sync.known.fill \subseteq IdsIn(table, "fill")
      BY <1>6, <1>14, <3>1, <3>2
    <3> QED
      BY <1>8, <2>1, <3>3 DEF PagingOk
  <2>5. RowsOk(x)
    BY <1>1, <1>5, <1>8, <1>14, <2>1 DEF SyncOk, RowsOk
  <2> QED
    BY <1>1, <2>1, <2>2, <2>3, <2>4, <2>5, SyncSet DEF SyncOk
<1> QED
  BY <1>1, <1>12, <1>13, <1>14

-----------------------------------------------------------------------------
(* The ledger, its projection and the threads *)

LedgerExtends == brokerLedger' = brokerLedger \/ \E x : brokerLedger' = Append(brokerLedger, x)

LEMMA LedgerGrows ==
    ASSUME IsSeq(brokerLedger), LedgerExtends
    PROVE  /\ IsSeq(brokerLedger') /\ Extends(brokerLedger', brokerLedger)
           /\ DOMAIN brokerLedger = 1 .. Len(brokerLedger)
           /\ Len(brokerLedger) \in Nat /\ Len(brokerLedger') \in Nat /\ Len(brokerLedger) <= Len(brokerLedger')
<1>1. Len(brokerLedger) \in Nat /\ DOMAIN brokerLedger = 1 .. Len(brokerLedger)
  BY DEF IsSeq
<1>2. CASE brokerLedger' = brokerLedger
  BY <1>1, <1>2 DEF Extends
<1>3. ASSUME NEW x, brokerLedger' = Append(brokerLedger, x)
      PROVE  /\ IsSeq(brokerLedger') /\ Extends(brokerLedger', brokerLedger)
             /\ Len(brokerLedger') = Len(brokerLedger) + 1
  <2>1. IsSeq(brokerLedger') /\ Extends(brokerLedger', brokerLedger)
    BY <1>3, AppendFacts
  <2>2. Len(brokerLedger') = Len(brokerLedger) + 1
    <3> DEFINE S == {brokerLedger[i] : i \in DOMAIN brokerLedger} \cup {x}
    <3>1. brokerLedger \in Seq(S) /\ x \in S
      BY DEF IsSeq
    <3> HIDE DEF S
    <3> QED
      BY <1>3, <3>1, AppendProperties
  <2> QED
    BY <2>1, <2>2
<1> QED
  BY <1>1, <1>2, <1>3 DEF LedgerExtends

\* What was observed stays observed.
LEMMA ObservationsStay ==
    ASSUME IsSeq(brokerLedger), LedgerExtends, NEW n \in 0 .. Len(brokerLedger)
    PROVE  Observations(n)' = Observations(n)
<1>1. /\ Extends(brokerLedger', brokerLedger) /\ DOMAIN brokerLedger = 1 .. Len(brokerLedger)
      /\ Len(brokerLedger) \in Nat /\ DOMAIN brokerLedger' = 1 .. Len(brokerLedger') /\ Len(brokerLedger') \in Nat
  BY LedgerGrows DEF IsSeq
<1> DEFINE Kept == {j \in Imports : j <= n /\ brokerLedger[j].source = "api"}
<1>2. Kept' = Kept
  BY <1>1 DEF Imports, Extends
<1>3. \A k \in Kept : brokerLedger'[k] = brokerLedger[k]
  BY <1>1 DEF Imports, Extends
<1>4. Observations(n) = UNION {{<<k, r>> : r \in brokerLedger[k].doc} : k \in Kept}
  BY DEF Observations
<1>5. Observations(n)' = UNION {{<<k, r>> : r \in brokerLedger'[k].doc} : k \in Kept'}
  BY DEF Observations
<1> HIDE DEF Kept
<1>6. {{<<k, r>> : r \in brokerLedger'[k].doc} : k \in Kept} = {{<<k, r>> : r \in brokerLedger[k].doc} : k \in Kept}
  BY <1>3
<1> QED
  BY <1>2, <1>4, <1>5, <1>6

LEMMA ProjectionStays ==
    ASSUME IsSeq(brokerLedger), LedgerExtends, ProjectionOk(projection), projection' = projection
    PROVE  ProjectionOk(projection)'
<1>1. CASE projection.through = 0 - 1
  BY <1>1 DEF ProjectionOk
<1>2. CASE projection.through \in 0 .. Len(brokerLedger) /\ projection.records = Observations(projection.through)
  <2> DEFINE n == projection.through
  <2>1. \A m \in 0 .. Len(brokerLedger) : Observations(m)' = Observations(m)
    BY ObservationsStay
  <2>2. n' = n
    OBVIOUS
  <2>3. projection'.records = Observations(projection.through)' /\ projection'.through \in 0 .. Len(brokerLedger')
    BY <1>2, <2>1, LedgerGrows DEF Observations, Imports
  <2> QED
    BY <1>2, <2>3 DEF ProjectionOk
<1> QED
  BY <1>1, <1>2 DEF ProjectionOk

LEMMA Imported ==
    ASSUME NEW entry, Import(entry)
    PROVE  LedgerExtends
BY DEF Import, LedgerExtends

LEMMA ImportsKeep ==
    ASSUME ReconciliationInv, ImportSnapshot \/ ImportFile
    PROVE  ReconciliationInv'
<1>1. LedgerExtends /\ UNCHANGED <<brokerVars, projection, deciding>> /\ sync' \in {sync, NoSync}
  BY Imported DEF ImportSnapshot, ImportFile
<1>2. BrokerInv' /\ BrokerExtends
  BY <1>1 DEF BrokerInv, BrokerExtends, brokerVars, ReconciliationInv
<1>3. SyncInv'
  BY <1>1, <1>2, SyncStays DEF ReconciliationInv, SyncInv
<1>4. ProjectionOk(projection)' /\ IsSeq(brokerLedger')
  BY <1>1, ProjectionStays, LedgerGrows DEF ReconciliationInv, LedgerInv
<1>5. ThreadsOk'
  BY <1>1, LedgerGrows DEF ReconciliationInv, LedgerInv, ThreadsOk
<1> QED
  BY <1>2, <1>3, <1>4, <1>5 DEF ReconciliationInv, LedgerInv

\* What a thread holds is read from the ledger as it is.
LEMMA Held ==
    ASSUME LedgerInv, NEW d \in Deciders, NEW t, Holds(d, t), LedgerExtends,
           t.op \in {"rebuild", "coverage"} => t.through \in 0 .. Len(brokerLedger)
    PROVE  ThreadsOk'
<1>1. PICK S : deciding \in [Deciders -> S]
  BY DEF LedgerInv, ThreadsOk
<1>2. deciding' = [deciding EXCEPT ![d] = t]
  BY DEF Holds
<1>3. deciding' \in [Deciders -> S \cup {t}]
  BY <1>1, <1>2
<1>4. \A e \in Deciders : deciding'[e] = IF e = d THEN t ELSE deciding[e]
  BY <1>1, <1>2
<1>5. /\ Len(brokerLedger) \in Nat /\ Len(brokerLedger') \in Nat /\ Len(brokerLedger) <= Len(brokerLedger')
  BY LedgerGrows DEF LedgerInv
<1>6. \A e \in Deciders : deciding'[e].op \in {"rebuild", "coverage"} =>
                               deciding'[e].through \in 0 .. Len(brokerLedger)
  BY <1>4 DEF LedgerInv, ThreadsOk
<1>7. \A e \in Deciders : deciding'[e].op \in {"rebuild", "coverage"} =>
                               deciding'[e].through \in 0 .. Len(brokerLedger')
  BY <1>5, <1>6
<1> QED
  BY <1>3, <1>7 DEF ThreadsOk

LEMMA ThreadsStep ==
    ASSUME ReconciliationInv, NEW d \in Deciders,
           \/ ScanLedger(d) \/ WriteSnapshot(d) \/ ScanForCoverage(d)
           \/ AnswerCoverage(d) \/ ReadItem(d) \/ CommitDecision(d)
    PROVE  ReconciliationInv'
<1>1. UNCHANGED <<brokerVars, sync>>
  BY DEF ScanLedger, WriteSnapshot, ScanForCoverage, AnswerCoverage, ReadItem, CommitDecision
<1>2. BrokerInv' /\ SyncInv'
  <2>1. BrokerInv' /\ BrokerExtends
    BY <1>1 DEF BrokerInv, BrokerExtends, brokerVars, ReconciliationInv
  <2> QED
    BY <1>1, <2>1, SyncStays DEF ReconciliationInv
<1>3. LedgerInv /\ Len(brokerLedger) \in Nat
  BY DEF ReconciliationInv, LedgerInv, IsSeq
<1>4. ASSUME LedgerExtends, projection' = projection, ThreadsOk' PROVE ReconciliationInv'
  BY <1>2, <1>3, <1>4, LedgerGrows, ProjectionStays DEF ReconciliationInv, LedgerInv
<1>5. CASE ScanLedger(d)
  <2>1. Holds(d, [op |-> "rebuild", through |-> Len(brokerLedger)]) /\ LedgerExtends /\ projection' = projection
    BY <1>5 DEF ScanLedger, LedgerExtends
  <2> QED
    BY <1>3, <1>4, <2>1, Held
<1>6. CASE WriteSnapshot(d)
  <2>1. Holds(d, [op |-> "none"]) /\ brokerLedger' = brokerLedger
    BY <1>6 DEF WriteSnapshot, Done
  <2>2. ThreadsOk'
    BY <1>3, <2>1, Held DEF LedgerExtends
  <2>3. deciding[d].through \in 0 .. Len(brokerLedger)
    BY <1>3, <1>6 DEF WriteSnapshot, LedgerInv, ThreadsOk
  <2>4. ASSUME NEW n \in 0 .. Len(brokerLedger) PROVE ProjectionOk(Projected(n))
    BY <1>3, <2>4 DEF ProjectionOk, Projected
  <2>5. ProjectionOk([projection EXCEPT !.status = "FAILED"])
    <3> DEFINE p == [projection EXCEPT !.status = "FAILED"]
    <3>1. ProjectionOk(projection)
      BY <1>3 DEF LedgerInv
    <3>2. p.records = projection.records /\ p.through = projection.through /\ p.status = "FAILED"
      BY <3>1 DEF ProjectionOk
    <3>3. p \in [records : {p.records}, through : Int, status : {"NONE", "SUCCESS", "FAILED"}]
      BY <3>1, <3>2 DEF ProjectionOk
    <3> HIDE DEF p
    <3>4. ProjectionOk(p)
      BY <3>1, <3>2, <3>3 DEF ProjectionOk
    <3> QED
      BY <3>4 DEF p
  <2>6. PICK p : projection' = p /\ ProjectionOk(p)
    BY <1>6, <2>3, <2>4, <2>5 DEF WriteSnapshot
  <2>7. ProjectionOk(projection)'
    BY <2>1, <2>6 DEF ProjectionOk, Observations, Imports
  <2> QED
    BY <1>2, <1>3, <2>1, <2>2, <2>7 DEF ReconciliationInv, LedgerInv
<1>7. CASE ScanForCoverage(d)
  <2>1. Holds(d, [op |-> "coverage", through |-> Len(brokerLedger)]) /\ LedgerExtends /\ projection' = projection
    BY <1>7 DEF ScanForCoverage, LedgerExtends
  <2> QED
    BY <1>3, <1>4, <2>1, Held
<1>8. CASE AnswerCoverage(d)
  <2>1. Holds(d, [op |-> "none"]) /\ LedgerExtends /\ projection' = projection
    BY <1>8 DEF AnswerCoverage, Done, LedgerExtends
  <2> QED
    BY <1>3, <1>4, <2>1, Held
<1>9. CASE ReadItem(d)
  <2>1. PICK item, decision : Holds(d, [op |-> "decide", item |-> item, decision |-> decision])
    BY <1>9 DEF ReadItem
  <2>2. LedgerExtends /\ projection' = projection
    BY <1>9 DEF ReadItem, LedgerExtends
  <2> QED
    BY <1>3, <1>4, <2>1, <2>2, Held
<1>10. CASE CommitDecision(d)
  <2>1. Holds(d, [op |-> "none"]) /\ projection' = projection
    BY <1>10 DEF CommitDecision, Done
  <2>2. LedgerExtends
    BY <1>10 DEF CommitDecision, LedgerExtends
  <2> QED
    BY <1>3, <1>4, <2>1, <2>2, Held
<1> QED
  BY <1>5, <1>6, <1>7, <1>8, <1>9, <1>10

-----------------------------------------------------------------------------
LEMMA ReconciliationBegins == ReconciliationInit => ReconciliationInv
<1> SUFFICES ASSUME ReconciliationInit PROVE ReconciliationInv
  OBVIOUS
<1>1. BrokerInv
  <2>1. placed \in [BrokerOrders -> Nat] /\ \A o \in BrokerOrders : placed[o] = 0
    BY DEF ReconciliationInit
  <2>2. {o \in BrokerOrders : placed[o] > 0} = {}
    BY <2>1
  <2>3. IsFiniteSet({o \in BrokerOrders : placed[o] > 0})
    BY <2>2, FS_EmptySet
  <2>4. filled \in Seq([order : BrokerOrders, at : Nat]) /\ DOMAIN filled = {} /\ brokerTime = 1
    BY DEF ReconciliationInit
  <2> QED
    BY <2>1, <2>3, <2>4 DEF BrokerInv
<1>2. SyncInv
  BY DEF ReconciliationInit, SyncInv
<1>3. IsSeq(brokerLedger)
  BY DEF ReconciliationInit, IsSeq
<1>4. ProjectionOk(projection)
  BY DEF ReconciliationInit, ProjectionOk
<1>5. ThreadsOk
  <2>1. deciding \in [Deciders -> {[op |-> "none"]}]
    BY DEF ReconciliationInit
  <2>2. \A d \in Deciders : deciding[d].op = "none"
    BY DEF ReconciliationInit
  <2> QED
    BY <2>1, <2>2 DEF ThreadsOk
<1> QED
  BY <1>1, <1>2, <1>3, <1>4, <1>5 DEF ReconciliationInv, LedgerInv

LEMMA ReconciliationGoesOn == ReconciliationInv /\ [ReconciliationNext]_reconciliationVars => ReconciliationInv'
<1> SUFFICES ASSUME ReconciliationInv, [ReconciliationNext]_reconciliationVars PROVE ReconciliationInv'
  OBVIOUS
<1>1. ASSUME UNCHANGED <<brokerLedger, projection, deciding>>, BrokerInv', SyncInv' PROVE ReconciliationInv'
  <2>1. LedgerInv'
    BY <1>1, ProjectionStays DEF ReconciliationInv, LedgerInv, LedgerExtends, ThreadsOk
  <2> QED
    BY <1>1, <2>1 DEF ReconciliationInv
<1>2. CASE BrokerTrades \/ BrokerClock
  <2>1. UNCHANGED <<brokerLedger, projection, deciding>>
    BY <1>2 DEF BrokerTrades, BrokerClock
  <2> QED
    BY <1>1, <1>2, <2>1, BrokerMoves DEF ReconciliationInv
<1>3. CASE StartSync \/ RequestFails \/ ReceivePage
  <2>1. UNCHANGED <<brokerVars, brokerLedger, projection, deciding>>
    BY <1>3 DEF StartSync, RequestFails, ReceivePage
  <2>2. BrokerInv'
    BY <2>1 DEF ReconciliationInv, BrokerInv, brokerVars
  <2>3. SyncInv'
    BY <1>3, SyncStarts, RequestRepeats, PageReceived DEF ReconciliationInv
  <2> QED
    BY <1>1, <2>1, <2>2, <2>3
<1>4. CASE UNCHANGED reconciliationVars
  <2>1. BrokerInv' /\ BrokerExtends
    BY <1>4 DEF ReconciliationInv, BrokerInv, BrokerExtends, reconciliationVars
  <2>2. SyncInv'
    BY <1>4, <2>1, SyncStays DEF ReconciliationInv, reconciliationVars
  <2> QED
    BY <1>1, <1>4, <2>1, <2>2 DEF reconciliationVars
<1> QED
  BY <1>2, <1>3, <1>4, ImportsKeep, ThreadsStep DEF ReconciliationNext

\* A document without a dispute has as many fills of an order as the broker had
\* when their collection began.
LEMMA SnapshotIsComplete == ReconciliationInv => SnapshotComplete
<1> SUFFICES ASSUME ReconciliationInv, sync.phase = "import", sync.complete PROVE SnapshotComplete
  BY DEF SnapshotComplete
<1>1. BrokerInv /\ SyncOk(sync) /\ sync \in Syncs
  BY DEF ReconciliationInv, SyncInv, NoSync, SyncOk
<1>2. sync.known.order \subseteq IdsIn(sync.rows, "order") /\ sync.known.fill \subseteq IdsIn(sync.rows, "fill")
  BY <1>1 DEF SyncOk, PagingOk
<1>3. ASSUME sync.since <= 1, sync.until >= brokerTime, Disputes(sync.rows, TRUE) = {}, NEW r \in DocOrders(sync.rows)
      PROVE  r.qty = Cardinality(sync.known.fill \cap FillsOf(r.id))
  <2> DEFINE K == sync.known.fill \cap FillsOf(r.id)
             D == DocFills(sync.rows, r.id)
             f == [n \in K |-> FillRow(n)]
             h == [x \in D |-> x.id]
  <2>1. r \in sync.rows /\ r.kind = "order"
    BY <1>3 DEF DocOrders
  <2>2. r.qty <= Cardinality(K)
    BY <1>1, <1>3, <2>1 DEF SyncOk, RowsOk
  <2>3. \A x \in D : x.id \in DOMAIN filled /\ x = FillRow(x.id)
    BY <1>1 DEF SyncOk, RowsOk, DocFills
  <2>4. \A n \in K : n \in DOMAIN filled /\ FillRow(n) \in D /\ FillRow(n).id = n
    <3> SUFFICES ASSUME NEW n \in K PROVE n \in DOMAIN filled /\ FillRow(n) \in D /\ FillRow(n).id = n
      OBVIOUS
    <3>1. n \in DOMAIN filled /\ filled[n].order = r.id
      BY DEF FillsOf
    <3>2. PICK x \in sync.rows : x.kind = "fill" /\ x.id = n
      BY <1>2 DEF IdsIn
    <3>3. x = FillRow(n)
      BY <1>1, <3>2 DEF SyncOk, RowsOk
    <3>4. FillRow(n).order = r.id /\ FillRow(n).kind = "fill"
      BY <3>1 DEF FillRow
    <3> QED
      BY <3>1, <3>2, <3>3, <3>4 DEF DocFills
  <2>5. IsFiniteSet(DOMAIN filled)
    <3>1. DOMAIN filled = 1 .. Len(filled) /\ Len(filled) \in Nat
      BY <1>1 DEF BrokerInv
    <3> QED
      BY <3>1, FS_Interval
  <2> HIDE DEF K, D
  <2>6. IsFiniteSet(D) /\ Cardinality(D) \in Nat
    <3>1. h \in [D -> DOMAIN filled]
      BY <2>3
    <3>2. \A x, y \in D : h[x] = h[y] => x = y
      <4>1. \A x \in D : h[x] = x.id
        OBVIOUS
      <4> HIDE DEF h
      <4> QED
        BY <2>3, <4>1
    <3> HIDE DEF h
    <3> QED
      BY <2>5, <3>1, <3>2, Injected
  <2>7. Cardinality(K) <= Cardinality(D) /\ Cardinality(K) \in Nat
    <3>1. f \in [K -> D]
      BY <2>4
    <3>2. \A x, y \in K : f[x] = f[y] => x = y
      <4>1. \A n \in K : f[n] = FillRow(n)
        OBVIOUS
      <4> HIDE DEF f
      <4> QED
        BY <2>4, <4>1
    <3> HIDE DEF f
    <3> QED
      BY <2>6, <3>1, <3>2, Injected
  <2>8. Cardinality(D) = r.qty
    <3>1. {<<"QUANTITY_MISMATCH", x.id>> :
              x \in {y \in DocOrders(sync.rows) : Cardinality(DocFills(sync.rows, y.id)) # y.qty}} = {}
      BY <1>3 DEF Disputes
    <3>2. ~ (Cardinality(DocFills(sync.rows, r.id)) # r.qty)
      BY <1>3, <3>1
    <3> QED
      BY <3>2 DEF D
  <2>9. r.qty = Cardinality(K)
    BY <2>2, <2>6, <2>7, <2>8
  <2> QED
    BY <2>9 DEF K
<1> QED
  BY <1>2, <1>3 DEF SnapshotComplete, IdsIn

\* A snapshot of a broker that is called complete has what the broker had when
\* each collection began, and coverage that is called current is that of the
\* ledger it was read for: the pages, the import and the observations of the
\* read-only sync (read_only_broker_sync.py, broker_observation_repo.py).
THEOREM BrokerEvidenceHolds == ReconciliationSpec => []BrokerEvidenceSound
<1>1. ReconciliationInv => CoverageHonest
  BY DEF ReconciliationInv, LedgerInv, ProjectionOk, ThreadsOk, CoverageHonest, CoverageOf
<1>2. ReconciliationInv => BrokerEvidenceSound
  BY <1>1, SnapshotIsComplete DEF BrokerEvidenceSound
<1> QED
  BY <1>2, ReconciliationBegins, ReconciliationGoesOn, PTL DEF ReconciliationSpec
==============================================================================
