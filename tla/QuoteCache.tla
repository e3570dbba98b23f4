------------------------------ MODULE QuoteCache ------------------------------
(***************************************************************************)
(* The prices shown beside open trades (quote_refresh.py), the public       *)
(* providers they come from (public_fetcher.py) and the freshness they are  *)
(* given (quote_quality.py).  An identity is the provider and the symbol a  *)
(* user confirmed.  Refreshes run as tasks of one event loop: every task    *)
(* waits for a slot of its refresh, then for the provider, and what it      *)
(* learnt replaces the entry of the identity in the shared cache.           *)
(***************************************************************************)
EXTENDS Integers, FiniteSets

CONSTANTS
    Ids,            \* identities: [source, kind]
    Refreshers,     \* refreshes that may be under way at once
    Slots,          \* MAX_CONCURRENCY
    LiveFor,        \* LIVE_CACHE_SECONDS
    CachedFor,      \* NON_LIVE_CACHE_SECONDS
    Backoff,        \* BACKOFF_BASE_SECONDS
    MaxBackoff,     \* BACKOFF_MAX_SECONDS
    FreshFor,       \* age up to which an event is fresh
    MaxTime,        \* bound: the clock
    MaxFailures     \* bound: failures counted in a row

ASSUME QuoteAssumption ==
    /\ Slots \in Nat \ {0} /\ MaxFailures \in Nat \ {0}
    /\ {LiveFor, CachedFor, Backoff, MaxBackoff, FreshFor, MaxTime} \subseteq Nat

VARIABLES
    time,       \* the clock
    cache,      \* _cache
    refresh,    \* each refresh: where it is, and its reference time
    task,       \* the task of a refresh for an identity
    shown       \* the answers given in this step

quoteVars == <<time, cache, refresh, task, shown>>

NoQuote == [price |-> FALSE, status |-> "UNAVAILABLE", basis |-> "UNKNOWN", observed |-> 0]
NoEntry == [kind |-> "none", quote |-> NoQuote, fetched |-> 0, failures |-> 0, retry |-> 0]
NoTask  == [at |-> "idle", asked |-> 0, quote |-> NoQuote]

-----------------------------------------------------------------------------
(* Quotes *)

\* Faulty variant: what was live when it was fetched stays live.
FaultyQuality(q, now) ==
    [price |-> q.price, status |-> q.status, observed |-> q.observed, fresh |-> q.status = "LIVE"]

\* quote_quality: only a recent event of the provider is live.
Quality(q, now) ==
    LET fresh == q.basis = "EVENT" /\ now - q.observed <= FreshFor
    IN  [price |-> q.price, observed |-> q.observed,
         status |-> IF q.status = "LIVE" /\ ~ fresh THEN "DELAYED" ELSE q.status,
         fresh |-> fresh /\ q.status # "UNAVAILABLE"]

\* fetch_tracking_quote: the time of the event, never that of the request.
EventQuote(observed) == [price |-> TRUE, status |-> "LIVE", basis |-> "EVENT", observed |-> observed]

\* The close of the last candle, stamped with its opening.
CandleQuote(source, observed) ==
    [price |-> TRUE, status |-> IF source = "stooq" THEN "EOD" ELSE "DELAYED",
     basis |-> "CANDLE", observed |-> observed]

\* fetch_quote: what the source of an identity may answer when asked at a time,
\* an event or candle of then or one that is old; a source that does not serve
\* the instrument is not asked.
Served(i) == CASE i.kind = "crypto"  -> i.source \in {"binance", "bybit"}
               [] i.kind = "metal"   -> i.source \in {"biquote", "yahoo", "stooq"}
               [] i.kind = "generic" -> i.source \in {"yahoo", "stooq"}

Answers(i, asked, now) ==
    IF ~ Served(i) THEN {NoQuote}
    ELSE {NoQuote} \cup
         {IF i.kind = "crypto" THEN [EventQuote(observed) EXCEPT !.status = Quality(EventQuote(observed), now).status]
          ELSE CandleQuote(i.source, observed) : observed \in {asked, 0}}

-----------------------------------------------------------------------------
(* The cache *)

Lifetime(q) == IF q.status = "LIVE" THEN LiveFor ELSE CachedFor

\* _cached_quote: the entry while it is young, or the failure while it cools.
IsCached(i, now) ==
    \/ cache[i].kind = "error" /\ now < cache[i].retry
    \/ cache[i].kind = "quote" /\ now - cache[i].fetched < Lifetime(cache[i].quote)
Cached(i) == IF cache[i].kind = "error" THEN NoQuote ELSE cache[i].quote

\* Faulty variant: a second failure forgets the price.
FaultyFailed(entry, since) ==
    LET failures == IF entry.kind = "error" THEN entry.failures + 1 ELSE 1
    IN  [kind |-> "error", fetched |-> 0, failures |-> failures, retry |-> since + Backoff,
         quote |-> IF entry.kind = "quote" THEN entry.quote ELSE NoQuote]

\* _register_failure: the last known price stays, the pause doubles.
Failed(entry, since) ==
    LET failures == IF entry.kind = "error" THEN entry.failures + 1 ELSE 1
        pause    == Backoff * 2 ^ (failures - 1)
    IN  [kind |-> "error", fetched |-> 0, quote |-> entry.quote,
         failures |-> IF failures > MaxFailures THEN MaxFailures ELSE failures,
         retry |-> since + (IF pause > MaxBackoff THEN MaxBackoff ELSE pause)]

-----------------------------------------------------------------------------
(* A refresh *)

Tasks(r, at) == {i \in Ids : task[r][i].at = at}

\* refresh, and the first look of each task at the cache.
BeginRefresh(r, wanted) ==
    /\ refresh[r].at = "idle" /\ wanted # {}
    /\ refresh' = [refresh EXCEPT ![r] = [at |-> "running", since |-> time]]
    /\ task' = [task EXCEPT ![r] = [i \in Ids |->
                    IF i \notin wanted THEN NoTask
                    ELSE IF IsCached(i, time) THEN [NoTask EXCEPT !.at = "done", !.quote = Cached(i)]
                    ELSE [NoTask EXCEPT !.at = "queued"]]]
    /\ UNCHANGED <<time, cache>> /\ shown' = {}

\* Faulty variant: the slot of a fetch is not given back.
FaultyHasSlot(r) == Cardinality(Tasks(r, "fetching") \cup Tasks(r, "done")) < Slots

HasSlot(r) == Cardinality(Tasks(r, "fetching")) < Slots

\* A slot is free: the cache is looked at again, then the provider is asked.
Ask(r, i) ==
    /\ task[r][i].at = "queued" /\ HasSlot(r)
    /\ task' = [task EXCEPT ![r][i] =
                    IF IsCached(i, time) THEN [NoTask EXCEPT !.at = "done", !.quote = Cached(i)]
                    ELSE [NoTask EXCEPT !.at = "fetching", !.asked = time]]
    /\ UNCHANGED <<time, cache, refresh>> /\ shown' = {}

Done(r, i, q) == task' = [task EXCEPT ![r][i] = [NoTask EXCEPT !.at = "done", !.quote = q]]

\* The answer; the entry is dated from the beginning of the refresh.
QuoteAnswer(r, i) ==
    /\ task[r][i].at = "fetching"
    /\ \E q \in Answers(i, task[r][i].asked, time) :
          /\ Done(r, i, q)
          /\ cache' = [cache EXCEPT ![i] =
                 IF q.price THEN [NoEntry EXCEPT !.kind = "quote", !.quote = q, !.fetched = refresh[r].since]
                 ELSE Failed(@, refresh[r].since)]
    /\ UNCHANGED <<time, refresh>> /\ shown' = {}

\* The provider asks to wait.  The handler of this exception raises another one
\* (float of an exception), which ends the refresh without an entry; the other
\* tasks go on.
RateLimited(r, i) ==
    /\ task[r][i].at = "fetching" /\ i.kind = "crypto" /\ Served(i)
    /\ Done(r, i, NoQuote) /\ refresh' = [refresh EXCEPT ![r].at = "failed"]
    /\ UNCHANGED <<time, cache>> /\ shown' = {}

\* What is answered about an identity: the quote with the freshness it has now,
\* or the last known price.
View(i, q) ==
    LET v == Quality(q, time)
    IN  [id |-> i, price |-> v.price, fresh |-> v.fresh, observed |-> v.observed,
         last |-> ~ v.price /\ cache[i].quote.price]

\* Every task has ended.
Finish(r) ==
    /\ refresh[r].at # "idle" /\ \A i \in Ids : task[r][i].at \in {"idle", "done"}
    /\ shown' = IF refresh[r].at = "failed" THEN {} ELSE {View(i, task[r][i].quote) : i \in Tasks(r, "done")}
    /\ refresh' = [refresh EXCEPT ![r] = [at |-> "idle", since |-> 0]]
    /\ task' = [task EXCEPT ![r] = [i \in Ids |-> NoTask]]
    /\ UNCHANGED <<time, cache>>

\* cached_quote, for the portfolio: the price of the entry, stale after a
\* failure or when it is no fresh event.
Read(i) ==
    /\ cache[i].quote.price
    /\ LET v == Quality(cache[i].quote, time)
       IN  shown' = {[id |-> i, price |-> TRUE, observed |-> v.observed, last |-> FALSE,
                      fresh |-> v.fresh /\ cache[i].kind = "quote"]}
    /\ UNCHANGED <<time, cache, refresh, task>>

Pass == time < MaxTime /\ time' = time + 1 /\ shown' = {} /\ UNCHANGED <<cache, refresh, task>>

QuoteInit == /\ time = 0 /\ cache = [i \in Ids |-> NoEntry]
             /\ refresh = [r \in Refreshers |-> [at |-> "idle", since |-> 0]]
             /\ task = [r \in Refreshers |-> [i \in Ids |-> NoTask]]
             /\ shown = {}

Work(r) == Finish(r) \/ \E i \in Ids : Ask(r, i) \/ QuoteAnswer(r, i) \/ RateLimited(r, i)

QuoteNext == \/ Pass \/ \E i \in Ids : Read(i)
             \/ \E r \in Refreshers : Work(r) \/ \E wanted \in SUBSET Ids : BeginRefresh(r, wanted)

\* The loop schedules the tasks, and a provider that is silent is timed out.
QuoteSpec == /\ QuoteInit /\ [][QuoteNext]_quoteVars
             /\ \A r \in Refreshers : WF_quoteVars(Work(r))

-----------------------------------------------------------------------------
(* Properties *)

\* Whatever refreshes overlap, fail or wait for each other, a price that was
\* obtained for an identity can always be shown afterwards, as a quote or as the
\* last known price.
PriceKept == [][\A i \in Ids : cache[i].quote.price => cache'[i].quote.price]_quoteVars

\* A price that is shown as fresh was an event of the last minute when it was
\* shown, however long the fetch, the queue or the cache held it.
FreshIsRecent ==
    \A v \in shown : v.fresh => v.id.kind = "crypto" /\ time - v.observed <= FreshFor

\* Every refresh ends, whatever its providers do.
RefreshEnds == \A r \in Refreshers : refresh[r].at # "idle" ~> refresh[r].at = "idle"

\* "failures back off exponentially": a request that brought no price is followed
\* by a pause.
FailuresCool ==
    [][\A r \in Refreshers, i \in Ids :
          task[r][i].at = "fetching" /\ task'[r][i].at = "done" /\ ~ task'[r][i].quote.price
          => cache'[i].kind = "error" /\ cache'[i].retry > time]_quoteVars

\* What is shown as fresh is recent, and a failed refresh never costs the last
\* good price.
QuotesHonest == []FreshIsRecent /\ PriceKept
=============================================================================
