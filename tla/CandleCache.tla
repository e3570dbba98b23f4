----------------------------- MODULE CandleCache -----------------------------
(***************************************************************************)
(* The bars of one chart: the SQLite cache (candles_repo.py) in front of    *)
(* the public providers (public_fetcher.py).  A bar is the number of its    *)
(* slot; the bar of the current slot is still forming.  A request looks at  *)
(* the cache, perhaps awaits the providers, stores what they sent and       *)
(* answers from the cache; requests and the refresh of an open position     *)
(* (replay_service.py) overlap.                                             *)
(***************************************************************************)
EXTENDS Integers, FiniteSets, FiniteSetsExt

CONSTANTS
    Requests,       \* requests under way at once
    Queries,        \* [from, to, limit], None where absent
    None,
    MaxPages,       \* MAX_HISTORY_PAGES
    MaxNow          \* bound: slots

ASSUME CandleAssumption ==
    /\ MaxNow \in Nat /\ MaxPages \in Nat \ {0}
    /\ \A q \in Queries : q.limit \in Nat \ {0}

VARIABLES
    crypto,     \* whether the symbol is an explicit crypto pair
    now,        \* the current slot
    rows,       \* the cache: the slot, the state in which it was seen, the width
    request,    \* the query of each request that waits for a provider
    answer      \* the answer given in this step

candleVars == <<crypto, now, rows, request, answer>>

NoAnswer == [query |-> None]

Bar(t, width) == [slot |-> t, final |-> t < now, width |-> width]

-----------------------------------------------------------------------------
(* The cache *)

Newest(bars, n) == {b \in bars : Cardinality({c \in bars : c.slot > b.slot}) < n}
Oldest(bars, n) == {b \in bars : Cardinality({c \in bars : c.slot < b.slot}) < n}

IsHistory(q) == q.from # None \/ q.to # None
InRange(bars, q) == {b \in bars : (q.from = None \/ b.slot >= q.from) /\ (q.to = None \/ b.slot <= q.to)}

\* get_cached_candles: the latest bars, or the first ones of a range.
CachedBars(bars, q) == IF IsHistory(q) THEN Oldest(InRange(bars, q), q.limit) ELSE Newest(bars, q.limit)

\* save_candles_batch: INSERT OR IGNORE.
Saved(bars, fetched) == bars \cup {b \in fetched : \A c \in bars : c.slot # b.slot}

\* _is_fresh: until two bars have passed.
IsFresh(bars) == bars # {} /\ now - Max({b.slot : b \in bars}) < 2

\* Faulty variant: a full window is used whatever its age.
FaultyHit(q, found) ==
    \/ Cardinality(found) >= q.limit
    \/ q.from # None /\ q.to # None /\ found # {}

\* A full window that is still current; for a range, anything that is cached.
Hit(q, found) ==
    \/ Cardinality(found) >= q.limit /\ ~ IsHistory(q) /\ IsFresh(found)
    \/ q.from # None /\ q.to # None /\ found # {}

-----------------------------------------------------------------------------
(* The providers *)

Market(q, width) == InRange({Bar(t, width) : t \in 0 .. now}, q)

\* fetch_crypto_candles: Binance is walked backwards in pages; a provider that
\* counts a page from the start of the range ends the walk at once.  The others
\* are asked for one page.
CryptoAnswers(q) ==
    LET page == IF q.from = None THEN {Newest(Market(q, "own"), q.limit)}
                ELSE {Newest(Market(q, "own"), q.limit), Oldest(Market(q, "own"), q.limit)}
    IN  page \cup (IF q.from = None THEN {} ELSE {Newest(Market(q, "own"), q.limit * MaxPages)})

\* fetch_macro_candles: the provider's own width where it has no such interval,
\* and days from the last resort; a range has an end only with a start.
MacroAnswers(q) ==
    {Market(IF q.from = None THEN [q EXCEPT !.to = None] ELSE q, width) : width \in {"own", "provider"}}
    \cup {Market([from |-> None, to |-> None], "day")}

\* Nothing, when every provider failed.
Fetched(q) == {{}} \cup IF crypto THEN CryptoAnswers(q) ELSE MacroAnswers(q)

-----------------------------------------------------------------------------
(* Operations *)

\* get_or_fetch_candles, up to the await.
Look(r, q, force) ==
    /\ request[r] = NoAnswer
    /\ IF ~ force /\ Hit(q, CachedBars(rows, q))
       THEN answer' = [query |-> q, bars |-> CachedBars(rows, q), fetched |-> {}, asked |-> FALSE] /\ UNCHANGED request
       ELSE answer' = NoAnswer /\ request' = [request EXCEPT ![r] = [query |-> q]]
    /\ UNCHANGED <<crypto, now, rows>>

\* ... and after it.
Receive(r) ==
    /\ request[r] # NoAnswer
    /\ LET q == request[r].query
       IN  \E fetched \in Fetched(q) :
              /\ rows' = Saved(rows, fetched)
              /\ answer' = [query |-> q, bars |-> CachedBars(rows', q), fetched |-> fetched, asked |-> TRUE]
    /\ request' = [request EXCEPT ![r] = NoAnswer]
    /\ UNCHANGED <<crypto, now>>

\* _cache_snapshot_best_effort: the bars of a declared provider are stored too.
SaveSnapshot ==
    /\ \E n \in {q.limit : q \in Queries} :
          rows' = Saved(rows, Newest({Bar(t, "own") : t \in 0 .. now}, n))
    /\ answer' = NoAnswer /\ UNCHANGED <<crypto, now, request>>

\* clear_cache
Clear == rows # {} /\ rows' = {} /\ answer' = NoAnswer /\ UNCHANGED <<crypto, now, request>>

NextSlot == now < MaxNow /\ now' = now + 1 /\ answer' = NoAnswer /\ UNCHANGED <<crypto, rows, request>>

CandleInit == /\ crypto \in BOOLEAN /\ now = 0 /\ rows = {} /\ answer = NoAnswer
              /\ request = [r \in Requests |-> NoAnswer]

CandleNext == \/ NextSlot \/ SaveSnapshot \/ Clear
              \/ \E r \in Requests : Receive(r) \/ \E q \in Queries, force \in BOOLEAN : Look(r, q, force)

CandleSpec == CandleInit /\ [][CandleNext]_candleVars

-----------------------------------------------------------------------------
(* Properties *)

\* A chart of the latest bars ends within two bars of now, or shows the newest
\* bar that its provider has; whatever other requests stored or cleared while
\* it waited, it never shows an old window when a newer one was obtained.
ChartIsCurrent ==
    answer # NoAnswer /\ ~ IsHistory(answer.query) =>
        \/ IsFresh(answer.bars)
        \/ answer.asked /\ answer.fetched = {}
        \/ answer.asked /\ Max({b.slot : b \in answer.fetched}) \in {b.slot : b \in answer.bars}

\* "If sufficient cached data exists": a range that is answered from the cache
\* holds every bar of the range, as far as its limit.
RangeIsWhole ==
    answer # NoAnswer /\ ~ answer.asked /\ IsHistory(answer.query) =>
        Cardinality(answer.bars) = Cardinality(CachedBars(Market(answer.query, "own"), answer.query))

\* "instead of serving a frozen chart": a bar obtained once its slot is over
\* is shown as it ended.
BarsEnd ==
    answer # NoAnswer /\ answer.asked =>
        \A b \in answer.bars : (\E f \in answer.fetched : f.slot = b.slot /\ f.final) => b.final
=============================================================================
