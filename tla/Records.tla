-------------------------------- MODULE Records --------------------------------
(***************************************************************************)
(* The versioned records Kuantra keeps beside its trades, with an evidence *)
(* event for each version: risk policies and the orders decided under them *)
(* (app/services/risk_policy_service.py, app/quant/risk_guard.py),         *)
(* playbooks and the audits against them (app/playbook/playbook_service    *)
(* .py), and the weekly reviews, which are a projection of the ledger and  *)
(* of the decisions recorded in it (app/services/weekly_review.py).        *)
(*                                                                         *)
(* A handler reads what is current, computes, and commits in a later       *)
(* transaction; handlers of other threads run in between.  A policy is its *)
(* limit, a playbook its title and its rules.  The ledger is a sequence of *)
(* events, each with the time it is about and the time it was received.    *)
(* An event whose key is taken is answered with the one that has it when   *)
(* the two are the same, their times included; otherwise the append raises *)
(* and the transaction it is part of is rolled back.                       *)
(***************************************************************************)
EXTENDS Integers, Sequences, FiniteSets, SequencesExt

CONSTANTS
    Users,          \* threads of the request pool
    Limits,         \* max_risk_pct_per_trade
    DefaultLimit,   \* default_max_risk_pct
    Risks, Stops,   \* what an order may lose; whether it has a stop loss, TRUE or FALSE
    Gates, Clear,   \* what the gates after the limit see of account and market; what they let pass
    Playbooks,      \* playbook ids
    Titles, Rules,  \* titles and rule sets of a playbook
    AuditedTrades,  \* trades that are audited
    Notes,          \* notes of a review decision
    Asks,           \* the kinds of request the environment sends
    MaxEvidence,    \* bound: events in the ledger
    MaxClock,       \* bound: the clock
    Second,         \* instants in a second
    Missing         \* NULL

ASSUME RecordsAssumption ==
    /\ Limits \subseteq Nat /\ DefaultLimit \in Limits
    /\ Missing \notin Limits \cup Titles \cup Rules
    /\ Risks \subseteq Nat /\ Stops \subseteq BOOLEAN
    /\ Clear \subseteq Gates /\ "limit" \notin Gates
    /\ MaxEvidence \in Nat /\ MaxClock \in Nat /\ Second \in Nat \ {0}

VARIABLES
    evidence,   \* the ledger
    policies,   \* risk_policy_versions of one policy id
    setting,    \* the setting max_risk_pct_per_trade
    books,      \* the playbooks row and rules
    versions,   \* playbook_versions
    checks,     \* trade_rule_checks: the last audit of a trade and its time
    call,       \* what each caller has read and not yet committed
    shownDecisions, \* the decision last acknowledged for each review
    clock       \* the clock

recordVars == <<evidence, policies, setting, books, versions, checks, call, shownDecisions, clock>>

\* Orders the guard is asked about.
DeskOrders == [risk : Risks, stop : Stops]

UnchangedPolicies  == UNCHANGED <<policies, setting>>
UnchangedPlaybooks == UNCHANGED <<books, versions, checks>>

DecisionEvent(kind, key, body, at) ==
    [kind |-> kind, key |-> key, body |-> body, at |-> at, received |-> clock]

HasEvent(kind, key) == \E n \in DOMAIN evidence : evidence[n].kind = kind /\ evidence[n].key = key

\* Faulty variant: a known key is answered whenever it happened.
FaultyAccepts(kind, key, body, at) ==
    \A n \in DOMAIN evidence :
        evidence[n].kind = kind /\ evidence[n].key = key => evidence[n].body = body

\* _same_semantic_event: no event of that key says something else, or of another
\* time.  When it was received is not compared.
Accepts(kind, key, body, at) ==
    \A n \in DOMAIN evidence :
        evidence[n].kind = kind /\ evidence[n].key = key =>
            evidence[n].body = body /\ evidence[n].at = at

\* append_event of what the ledger accepts.
WithEvidence(kind, key, body, at) ==
    IF HasEvent(kind, key) THEN evidence ELSE Append(evidence, DecisionEvent(kind, key, body, at))

\* A caller is free, or free again with the answer of the guard.
NoCall == [op |-> "none"]
Asked(c, kind) == kind \in Asks /\ call[c].op \in {"none", "answered"} /\ Len(evidence) < MaxEvidence
Next_(c, r) == call' = [call EXCEPT ![c] = r]

\* A transaction that fails, for a conflict of evidence or otherwise.
RolledBack == UNCHANGED <<evidence, policies, setting, books, versions, checks, shownDecisions, clock>>

-----------------------------------------------------------------------------
(* Risk policies and the guard *)

HasLatest(limit) == policies # <<>> /\ Last(policies) = limit

\* Faulty variant: the latest version is not looked at again under the lock.
FaultyPolicyWith(limit, next) == Append(policies, limit)

\* The policy after create_policy has the lock: the latest one may have become
\* equal, and the snapshot computed before the lock may have been stored.
PolicyWith(limit, next) ==
    IF HasLatest(limit) \/ (next <= Len(policies) /\ policies[next] = limit)
    THEN policies
    ELSE Append(policies, limit)

VersionFor(limit, next) ==
    IF ~ HasLatest(limit) /\ next <= Len(policies) /\ policies[next] = limit
    THEN next ELSE Len(PolicyWith(limit, next))

\* Settings are written without a policy version; an order that is being decided, or
\* was, has met a change then.
ChangeSetting ==
    /\ "setting" \in Asks
    /\ \E limit \in Limits \ {setting} : setting' = limit
    /\ call' = [c \in Users |-> IF "steady" \in DOMAIN call[c] THEN [call[c] EXCEPT !.steady = FALSE]
                                ELSE call[c]]
    /\ UNCHANGED <<evidence, policies, shownDecisions, clock>> /\ UnchangedPlaybooks

\* A call for an order with the version it has pinned, or with the one it will make.
Pinning(op, order, steady, pinned) == [op |-> op, order |-> order, steady |-> steady, pinned |-> pinned]
Making(order, steady, limit, next, then) ==
    [op |-> "create", order |-> order, steady |-> steady, limit |-> limit, next |-> next, then |-> then]

\* validate_pre_execution_risk begins with the active policy.
AskGuard(c) ==
    /\ Asked(c, "order")
    /\ \E o \in DeskOrders :
          Next_(c, IF policies = <<>> THEN Making(o, TRUE, DefaultLimit, 1, "compare")
                   ELSE Pinning("compare", o, TRUE, Len(policies)))
    /\ UNCHANGED <<evidence, shownDecisions, clock>> /\ UnchangedPolicies /\ UnchangedPlaybooks

\* Faulty variant: a changed setting does not become a version.
FaultyCompareSetting(c) ==
    /\ call[c].op = "compare"
    /\ Next_(c, [call[c] EXCEPT !.op = "decide"])
    /\ UNCHANGED <<evidence, shownDecisions, clock>> /\ UnchangedPolicies /\ UnchangedPlaybooks

\* _get_policy: a changed setting becomes an explicit version.
CompareSetting(c) ==
    /\ call[c].op = "compare"
    /\ LET order  == call[c].order
           steady == call[c].steady
       IN  Next_(c, IF setting = Missing \/ setting = policies[call[c].pinned]
                    THEN Pinning("decide", order, steady, call[c].pinned)
                    ELSE IF HasLatest(setting) THEN Pinning("decide", order, steady, Len(policies))
                    ELSE Making(order, steady, setting, Len(policies) + 1, "decide"))
    /\ UNCHANGED <<evidence, shownDecisions, clock>> /\ UnchangedPolicies /\ UnchangedPlaybooks

\* The guard answers its caller.
Approves(c) ==
    Next_(c, [op |-> "answered", steady |-> call[c].steady, approved |-> TRUE, why |-> "cleared",
              order |-> call[c].order, pinned |-> call[c].pinned, setting |-> setting, at |-> clock])
Refuses(c, why) == Next_(c, [op |-> "answered", approved |-> FALSE, why |-> why])

\* create_policy, under the lock: the version and its event, or neither; without a
\* policy the order is refused.
CreatePolicy(c) ==
    /\ call[c].op = "create"
    /\ LET limit   == call[c].limit
           version == VersionFor(limit, call[c].next)
           updated == PolicyWith(limit, call[c].next)
       IN  \/ /\ updated # policies => Accepts("policy", Len(updated), limit, clock)
              /\ policies' = updated
              /\ evidence' = IF updated = policies THEN evidence
                             ELSE WithEvidence("policy", Len(updated), limit, clock)
              /\ Next_(c, Pinning(call[c].then, call[c].order, call[c].steady, version))
              /\ UNCHANGED <<setting, shownDecisions, clock>> /\ UnchangedPlaybooks
           \/ Refuses(c, "unavailable") /\ RolledBack

\* The limit is compared with an order that has a stop loss; of one that has none a
\* nominal risk is put on record and compared with nothing.
Within(order, limit) == order.stop => order.risk <= limit

\* What the decision turns on: the limit, and after it the other gates.
Finding(order, limit, gates) == IF Within(order, limit) THEN gates ELSE "limit"

\* record_evaluation: one event for each distinct decision, whose identity does not
\* hold the time.
EvaluationKey(order, pinned, found) == <<order, pinned, found>>

\* Faulty variant: the decision is returned when its evidence is not written.
FaultyUnrecorded(c, found, why) == IF found \in Clear THEN Approves(c) ELSE Refuses(c, found)

\* No decision is trusted whose evidence cannot be recorded.
Unrecorded(c, found, why) == Refuses(c, why)

\* validate_pre_execution_risk against the version that was read, and _decision.  An
\* order names no time of its own, so the decision has the time it is made at; the
\* same decision on record from another time is a conflict.
Decide(c) ==
    /\ call[c].op = "decide"
    /\ \E gates \in Gates :
          LET found == Finding(call[c].order, policies[call[c].pinned], gates)
              key   == EvaluationKey(call[c].order, call[c].pinned, found)
          IN  \/ /\ Accepts("evaluation", key, found, clock)
                 /\ evidence' = WithEvidence("evaluation", key, found, clock)
                 /\ IF found \in Clear THEN Approves(c) ELSE Refuses(c, found)
              \/ /\ ~ Accepts("evaluation", key, found, clock)
                 /\ Unrecorded(c, found, "conflict") /\ UNCHANGED evidence
              \/ Unrecorded(c, found, "failed") /\ UNCHANGED evidence
    /\ UNCHANGED <<policies, setting, shownDecisions, clock>> /\ UnchangedPlaybooks

-----------------------------------------------------------------------------
(* Playbooks *)

Book(title, rules) == [title |-> title, rules |-> rules]

\* _append_version_in_transaction, with the current row in the same transaction.
WriteBook(p, book) ==
    /\ books' = [books EXCEPT ![p] = book]
    /\ versions' = [versions EXCEPT ![p] = Append(@, book)]
    /\ Accepts("playbook", <<p, Len(versions[p]) + 1>>, book, clock)
    /\ evidence' = WithEvidence("playbook", <<p, Len(versions[p]) + 1>>, book, clock)
    /\ UNCHANGED <<checks, shownDecisions, clock>> /\ UnchangedPolicies

\* A playbook that is older than its versions is pinned when the process starts,
\* before any request.
BackfillLegacy(p) ==
    /\ books[p] # Missing /\ versions[p] = <<>>
    /\ WriteBook(p, books[p])
    /\ UNCHANGED call

Backfilled == \A p \in Playbooks : books[p] # Missing => versions[p] # <<>>

CreatePlaybook(c) ==
    /\ Asked(c, "playbook") /\ Backfilled
    /\ \E p \in Playbooks, title \in Titles, rules \in Rules :
          books[p] = Missing /\ WriteBook(p, Book(title, rules))
    /\ UNCHANGED call

\* create_playbook_version reads the fields it does not change outside the lock.
EditPlaybook(c) ==
    /\ Asked(c, "edit") /\ Backfilled
    /\ \E p \in Playbooks, title \in Titles \cup {Missing}, rules \in Rules \cup {Missing} :
          /\ versions[p] # <<>>
          /\ Next_(c, [op |-> "edit", playbook |-> p,
                       book |-> Book(IF title = Missing THEN Last(versions[p]).title ELSE title,
                                     IF rules = Missing THEN Last(versions[p]).rules ELSE rules)])
    /\ UNCHANGED <<evidence, shownDecisions, clock>> /\ UnchangedPolicies /\ UnchangedPlaybooks

\* Faulty variant: the current row is left for later.
FaultyCommitEdit(c) ==
    /\ call[c].op = "edit"
    /\ versions' = [versions EXCEPT ![call[c].playbook] = Append(@, call[c].book)]
    /\ evidence' = WithEvidence("playbook", <<call[c].playbook, Len(versions[call[c].playbook]) + 1>>,
                         call[c].book, clock)
    /\ UNCHANGED <<books, checks, shownDecisions, clock>> /\ UnchangedPolicies
    /\ Next_(c, NoCall)

CommitEdit(c) ==
    /\ call[c].op = "edit"
    /\ WriteBook(call[c].playbook, call[c].book) \/ RolledBack
    /\ Next_(c, NoCall)

\* get_playbook: a version shows what was pinned, whatever the current row says.
RulesOf(p, v) == versions[p][v].rules

\* audit_trade_discipline reads the rules of the latest or of a named version, and
\* the time.
Audit(c) ==
    /\ Asked(c, "audit") /\ Backfilled
    /\ \E t \in AuditedTrades, p \in Playbooks : \E v \in DOMAIN versions[p], passed \in BOOLEAN :
          Next_(c, [op |-> "audit", trade |-> t, at |-> clock,
                    audit |-> [playbook |-> p, version |-> v, passed |-> passed,
                               rules |-> RulesOf(p, v)]])
    /\ UNCHANGED <<evidence, shownDecisions, clock>> /\ UnchangedPolicies /\ UnchangedPlaybooks

\* The checklist replaces the one of the trade, with its event in one transaction.
\* An audit that was recorded before, at another time, is a conflict.
CommitAudit(c) ==
    /\ call[c].op = "audit"
    /\ \/ /\ Accepts("audit", <<call[c].trade, call[c].audit>>, call[c].audit, call[c].at)
          /\ checks' = [checks EXCEPT ![call[c].trade] = [audit |-> call[c].audit, at |-> call[c].at]]
          /\ evidence' = WithEvidence("audit", <<call[c].trade, call[c].audit>>, call[c].audit, call[c].at)
          /\ UNCHANGED <<books, versions, shownDecisions, clock>> /\ UnchangedPolicies
       \/ RolledBack
    /\ Next_(c, NoCall)

-----------------------------------------------------------------------------
(* Weekly reviews *)

IsReview(e) == e.kind = "review"

\* What was known at the cut-off: it had happened, and it had been received.
KnownAt(e, asOf) == e.at <= asOf /\ e.received <= asOf
Sources(asOf) == {n \in DOMAIN evidence : ~ IsReview(evidence[n]) /\ KnownAt(evidence[n], asOf)}
Late(asOf)    == {n \in DOMAIN evidence : ~ IsReview(evidence[n]) /\ ~ KnownAt(evidence[n], asOf)}

\* _rule_reference: the version of a policy or a playbook that an event names.
RuleOf(e) == IF e.kind = "evaluation" THEN <<"risk", e.key[2]>>
             ELSE IF e.kind = "policy" THEN <<"risk", e.key>>
             ELSE IF e.kind = "playbook" THEN <<"playbook", e.key>>
             ELSE <<"playbook", <<e.body.playbook, e.body.version>>>>

\* _rules: those the evidence of the review refers to, each once.
ApplicableRules(asOf) == {RuleOf(evidence[n]) : n \in Sources(asOf)}

\* A review is identified by its cut-off, the evidence it rests on and its rules.
WeeklyReview(asOf) == [asOf |-> asOf, sources |-> Sources(asOf), rules |-> ApplicableRules(asOf)]

CompletionAllowed(asOf) == Sources(asOf) # {} /\ Late(asOf) = {}

DecisionsOf(review) ==
    {n \in DOMAIN evidence : IsReview(evidence[n]) /\ evidence[n].key[1] = review}

Newer(m, n) == evidence[m].at > evidence[n].at \/ (evidence[m].at = evidence[n].at /\ m >= n)

\* _review_decision: the newest by time, then by place in the ledger.
DecisionOf(review) ==
    IF DecisionsOf(review) = {} THEN Missing
    ELSE evidence[CHOOSE m \in DecisionsOf(review) :
                     \A n \in DecisionsOf(review) : Newer(m, n)].key[2]

\* decide_weekly_review builds the review, then records the decision.
BuildReview(c) ==
    /\ Asked(c, "review")
    /\ \E asOf \in 0 .. clock, decision \in {"COMPLETED", "REOPENED"}, note \in Notes :
          /\ CompletionAllowed(asOf)
          /\ LET key == <<WeeklyReview(asOf), decision, note>>
             IN  Next_(c, [op |-> "review", key |-> key, known |-> HasEvent("review", key)])
    /\ UNCHANGED <<evidence, shownDecisions, clock>> /\ UnchangedPolicies /\ UnchangedPlaybooks

\* The time of a decision is cut to the second.
SecondOf(at) == at - (at % Second)

\* record_decision looks the decision up and answers one it finds; later it appends
\* the one it did not find, which another request may have recorded by then.
RecordDecision(c) ==
    /\ call[c].op = "review"
    /\ \/ /\ \/ HasEvent("review", call[c].key) /\ UNCHANGED evidence
             \/ /\ ~ call[c].known
                /\ Accepts("review", call[c].key, call[c].key[2], SecondOf(clock))
                /\ evidence' = WithEvidence("review", call[c].key, call[c].key[2], SecondOf(clock))
          /\ shownDecisions' = (call[c].key[1] :> call[c].key[2]) @@ shownDecisions
          /\ UNCHANGED clock /\ UnchangedPolicies /\ UnchangedPlaybooks
       \/ RolledBack
    /\ Next_(c, NoCall)

Tick ==
    /\ clock < MaxClock /\ clock' = clock + 1
    /\ UNCHANGED <<evidence, call, shownDecisions>> /\ UnchangedPolicies /\ UnchangedPlaybooks

-----------------------------------------------------------------------------
RecordsInit ==
    /\ evidence = <<>> /\ policies = <<>>
    /\ setting \in {Missing} \cup Limits
    /\ \E old \in [Playbooks -> {Missing} \cup [title : Titles, rules : Rules]] :
          books = IF "playbook" \in Asks THEN old ELSE [p \in Playbooks |-> Missing]
    /\ versions = [p \in Playbooks |-> <<>>]
    /\ checks = [t \in AuditedTrades |-> Missing]
    /\ call = [c \in Users |-> NoCall]
    /\ shownDecisions = <<>> /\ clock = 0

RecordsNext ==
    \/ ChangeSetting \/ Tick
    \/ \E p \in Playbooks : BackfillLegacy(p)
    \/ \E c \in Users :
          \/ AskGuard(c) \/ CompareSetting(c) \/ CreatePolicy(c) \/ Decide(c)
          \/ CreatePlaybook(c) \/ EditPlaybook(c) \/ CommitEdit(c) \/ Audit(c) \/ CommitAudit(c)
          \/ BuildReview(c) \/ RecordDecision(c)

RecordsSpec == RecordsInit /\ [][RecordsNext]_recordVars

-----------------------------------------------------------------------------
(* Properties *)

Evidenced(kind, key, body) ==
    \E n \in DOMAIN evidence : /\ evidence[n].kind = kind /\ evidence[n].key = key
                               /\ evidence[n].body = body

EvidencedAt(kind, key, body, at) ==
    \E n \in DOMAIN evidence : /\ evidence[n].kind = kind /\ evidence[n].key = key
                               /\ evidence[n].body = body /\ evidence[n].at = at

\* However handlers interleave: every version of a policy and of a playbook has
\* its own event that says what the version says, repeating a policy makes no
\* version, a playbook shows its last version, and the checklist of a trade is
\* one that was recorded with the very time it shows, against the rules of the
\* version it names (playbook_service.py: DELETE, INSERT and append in one
\* transaction that a repeated audit rolls back).
RecordsEvidenced ==
    /\ \A v \in DOMAIN policies : /\ Evidenced("policy", v, policies[v])
                                  /\ v > 1 => policies[v] # policies[v - 1]
    /\ \A p \in Playbooks :
          /\ \A v \in DOMAIN versions[p] : Evidenced("playbook", <<p, v>>, versions[p][v])
          /\ versions[p] # <<>> => books[p] = Last(versions[p])
    /\ \A t \in AuditedTrades : checks[t] # Missing =>
          LET a == checks[t].audit
          IN  /\ a.rules = versions[a.playbook][a.version].rules
              /\ EvidencedAt("audit", <<t, a>>, a, checks[t].at)

\* An order is approved only with evidence of that decision, made then and cleared
\* by the other gates, under a version whose limit it keeps if it has a stop loss;
\* when the setting did not change meanwhile, that is the limit set.
GuardSound ==
    \A c \in Users : call[c].op = "answered" /\ call[c].approved =>
        /\ \E found \in Clear :
              EvidencedAt("evaluation", EvaluationKey(call[c].order, call[c].pinned, found), found, call[c].at)
        /\ call[c].order.stop => call[c].order.risk <= policies[call[c].pinned]
        /\ call[c].steady /\ call[c].setting # Missing =>
              policies[call[c].pinned] = call[c].setting

\* "Append an idempotent RiskEvaluated event for one guard decision.": no decision is
\* refused because the ledger has it already.
DecisionsAreIdempotent ==
    \A c \in Users : call[c].op = "answered" => call[c].why # "conflict"

\* "Real-time Max Risk % per trade guard": an approved order keeps the limit.
LimitHolds ==
    \A c \in Users : call[c].op = "answered" /\ call[c].approved =>
        call[c].order.risk <= policies[call[c].pinned]

\* The decision a user was last told is recorded is the one the review shows.
LastDecisionShown ==
    \A review \in DOMAIN shownDecisions : DecisionOf(review) = shownDecisions[review]

\* Policies, playbooks and audits agree with the evidence written with them, and
\* the risk guard decides by the policy it names and by evidence of that moment.
RecordsSound == RecordsEvidenced /\ GuardSound
=============================================================================
