------------------------------- MODULE OrderBook -------------------------------
(***************************************************************************)
(* The in-memory limit order book (matching/order_book.py): price levels    *)
(* with their orders in time order, a map from an identifier to the order   *)
(* it named last, and one call per order, which matches and then rests,     *)
(* cancels or rejects.  Nothing stops a caller from using an identifier     *)
(* twice.  Sizes are whole numbers: the rounding of floats is left out.     *)
(***************************************************************************)
EXTENDS Integers, Sequences, FiniteSets, SequencesExt, FiniteSetsExt, Functions, TLC

CONSTANTS
    OrderIds,   \* identifiers callers use
    Ticks,      \* prices
    Calls,      \* orders callers may give: [id, side, price, size, type]
    MaxResting  \* bound: orders that rest at the same time

ASSUME OrderBookAssumption ==
    /\ Ticks \subseteq Nat \ {0} /\ MaxResting \in Nat
    /\ \A c \in Calls : c.id \in OrderIds /\ c.price \in Ticks /\ c.size \in Nat \ {0}

VARIABLES
    levels,     \* bids and asks: side -> price -> the volume and the orders of a level
    byId,       \* orders_map: identifier -> the side and the price it was put at last
    reply       \* what the last call returned

bookVars == <<levels, byId, reply>>

Sides == {"BUY", "SELL"}
OrderTypes == {"LIMIT", "MARKET", "IOC", "FOK", "POST_ONLY"}
Opposite(side) == IF side = "BUY" THEN "SELL" ELSE "BUY"
Better(side, p, q) == IF side = "BUY" THEN p < q ELSE p > q

Reply(call, status, filled, left, fills) ==
    [call |-> call, status |-> status, filled |-> filled, left |-> left, fills |-> fills]

-----------------------------------------------------------------------------
(* Reading the book *)

\* An order meets the prices that are no worse than its own.
Within(side, price, p) == IF side = "BUY" THEN p <= price ELSE p >= price

\* The levels an order of a side meets, the best first.
TicksFrom == [side \in Sides |-> SetToSortSeq(Ticks, LAMBDA p, q : Better(side, p, q))]
Ladder(side) == SelectSeq(TicksFrom[side], LAMBDA p : p \in DOMAIN levels[Opposite(side)])

\* get_bbo says whether an order would be executed at once.
Crosses(side, price) == \E p \in DOMAIN levels[Opposite(side)] : Within(side, price, p)

\* Faulty variant: the volume of every level is counted.
FaultyCanFill(side, price, size) ==
    MapThenSumSet(LAMBDA p : levels[Opposite(side)][p].volume, DOMAIN levels[Opposite(side)]) >= size

\* _can_fill_completely
CanFill(side, price, size) ==
    MapThenSumSet(LAMBDA p : levels[Opposite(side)][p].volume,
                  {p \in DOMAIN levels[Opposite(side)] : Within(side, price, p)}) >= size

-----------------------------------------------------------------------------
(* Matching *)

\* Faulty variant: the newest order of a level is met first.
FaultyTakeLevel(level, price, left) ==
    LET Take(acc, o) ==
            LET size == IF acc.left < o.left THEN acc.left ELSE o.left
            IN  [left |-> acc.left - size, volume |-> acc.volume - size,
                 fills |-> IF size = 0 THEN acc.fills
                           ELSE Append(acc.fills, [id |-> o.id, price |-> price, size |-> size]),
                 orders |-> IF o.left = size THEN acc.orders
                            ELSE <<[o EXCEPT !.left = @ - size]>> \o acc.orders,
                 gone |-> IF o.left = size THEN acc.gone \cup {o.id} ELSE acc.gone]
    IN  FoldLeft(Take, [left |-> left, volume |-> level.volume, fills |-> <<>>,
                        orders |-> <<>>, gone |-> {}], Reverse(level.orders))

\* The orders of a level in time order, each as far as the incoming order goes.
TakeLevel(level, price, left) ==
    LET Take(acc, o) ==
            LET size == IF acc.left < o.left THEN acc.left ELSE o.left
            IN  [left |-> acc.left - size, volume |-> acc.volume - size,
                 fills |-> IF size = 0 THEN acc.fills
                           ELSE Append(acc.fills, [id |-> o.id, price |-> price, size |-> size]),
                 orders |-> IF o.left = size THEN acc.orders
                            ELSE Append(acc.orders, [o EXCEPT !.left = @ - size]),
                 gone |-> IF o.left = size THEN acc.gone \cup {o.id} ELSE acc.gone]
    IN  FoldLeft(Take, [left |-> left, volume |-> level.volume, fills |-> <<>>,
                        orders |-> <<>>, gone |-> {}], level.orders)

\* The matching loop: level by level until the order is done or meets no price.
Match(side, price, size, type) ==
    LET Meet(acc, p) ==
            IF acc.left = 0 \/ (type # "MARKET" /\ ~ Within(side, price, p)) THEN acc
            ELSE LET taken == TakeLevel(acc.book[p], p, acc.left)
                 IN  [left  |-> taken.left,
                      fills |-> acc.fills \o taken.fills,
                      gone  |-> acc.gone \cup taken.gone,
                      book  |-> IF taken.volume <= 0 \/ taken.orders = <<>>
                                THEN Restrict(acc.book, DOMAIN acc.book \ {p})
                                ELSE [acc.book EXCEPT ![p] = [volume |-> taken.volume,
                                                              orders |-> taken.orders]]]
    IN  FoldLeft(Meet, [left |-> size, fills |-> <<>>, gone |-> {},
                        book |-> levels[Opposite(side)]], Ladder(side))

-----------------------------------------------------------------------------
(* Calls *)

Resting == UNION {{<<side, p, n>> : n \in DOMAIN levels[side][p].orders} :
                     <<side, p>> \in {sp \in Sides \X Ticks : sp[2] \in DOMAIN levels[sp[1]]}}

Rest(side, price, order) ==
    IF price \in DOMAIN levels[side]
    THEN [levels[side] EXCEPT ![price].volume = @ + order.left, ![price].orders = Append(@, order)]
    ELSE levels[side] @@ (price :> [volume |-> order.left, orders |-> <<order>>])

RefuseCall(side, price, size, type) ==
    /\ \/ type = "POST_ONLY" /\ Crosses(side, price)
       \/ type = "FOK" /\ ~ CanFill(side, price, size)
    /\ reply' = Reply([op |-> type, side |-> side, price |-> price, size |-> size],
                      "REFUSED", 0, size, <<>>)
    /\ UNCHANGED <<levels, byId>>

Accept(id, side, price, size, type) ==
    /\ ~ (type = "POST_ONLY" /\ Crosses(side, price))
    /\ ~ (type = "FOK" /\ ~ CanFill(side, price, size))
    /\ LET met   == Match(side, price, size, type)
           rests == type \notin {"IOC", "MARKET"} /\ met.left > 0
           known == Restrict(byId, DOMAIN byId \ met.gone)
       IN  /\ levels' = [levels EXCEPT ![Opposite(side)] = met.book,
                            ![side] = IF rests THEN Rest(side, price, [id |-> id, left |-> met.left]) ELSE @]
           /\ byId' = IF rests THEN (id :> [side |-> side, price |-> price]) @@ known ELSE known
           /\ reply' = Reply([op |-> type, side |-> side, price |-> price, size |-> size],
                             IF rests THEN "RESTS" ELSE IF met.left = 0 THEN "FILLED" ELSE "CANCELLED",
                             size - met.left, met.left, met.fills)
    /\ Cardinality(Resting') <= MaxResting

\* remove_order: the first order of the level with the identifier.
Without(level, id) ==
    LET at == SelectInSeq(level.orders, LAMBDA o : o.id = id)
    IN  IF at = 0 THEN level
        ELSE [volume |-> level.volume - level.orders[at].left, orders |-> RemoveAt(level.orders, at)]

CancelResting(id) ==
    /\ IF id \notin DOMAIN byId
       THEN /\ reply' = Reply([op |-> "CANCEL", id |-> id], "ORDER_NOT_FOUND", 0, 0, <<>>)
            /\ UNCHANGED <<levels, byId>>
       ELSE LET side == byId[id].side
                price == byId[id].price
            IN  /\ byId' = Restrict(byId, DOMAIN byId \ {id})
                /\ reply' = Reply([op |-> "CANCEL", id |-> id], "CANCELLED_SUCCESS", 0, 0, <<>>)
                /\ levels' = IF price \notin DOMAIN levels[side] THEN levels
                             ELSE LET level == Without(levels[side][price], id)
                                  IN  IF level.volume <= 0 \/ level.orders = <<>>
                                      THEN [levels EXCEPT ![side] = Restrict(@, DOMAIN @ \ {price})]
                                      ELSE [levels EXCEPT ![side][price] = level]

\* simulate_sweep: what an order of a size would take, level by level.
Swept(side, size) ==
    LET Take(acc, p) ==
            LET volume == levels[Opposite(side)][p].volume
                taken  == IF acc.left < volume THEN acc.left ELSE volume
            IN  [left |-> acc.left - taken, cost |-> acc.cost + taken * p]
    IN  FoldLeft(Take, [left |-> size, cost |-> 0], Ladder(side))

-----------------------------------------------------------------------------
BookInit ==
    /\ levels = [side \in Sides |-> <<>>]
    /\ byId = <<>>
    /\ reply = Reply([op |-> "NONE"], "NONE", 0, 0, <<>>)

BookNext ==
    \/ \E c \in Calls : \/ RefuseCall(c.side, c.price, c.size, c.type)
                       \/ Accept(c.id, c.side, c.price, c.size, c.type)
    \/ \E id \in OrderIds : CancelResting(id)

BookSpec == BookInit /\ [][BookNext]_bookVars

-----------------------------------------------------------------------------
(* Properties *)

Held(side) == MapThenSumSet(LAMBDA r : levels[side][r[2]].orders[r[3]].left,
                            {r \in Resting : r[1] = side})

\* The book is never crossed, every level is the sum of the orders that rest
\* in it and none is empty: whatever was matched, cancelled or left.
BookSound ==
    /\ \A bid \in DOMAIN levels["BUY"], ask \in DOMAIN levels["SELL"] : bid < ask
    /\ \A side \in Sides : \A p \in DOMAIN levels[side] :
          /\ levels[side][p].orders # <<>>
          /\ levels[side][p].volume =
                 SumFunction([n \in DOMAIN levels[side][p].orders |-> levels[side][p].orders[n].left])
          /\ \A n \in DOMAIN levels[side][p].orders : levels[side][p].orders[n].left > 0

IsOrder == reply'.call.op \in OrderTypes

\* Nothing is made or lost: an order takes from the other side what it reports
\* as filled, at its price or a better one, and leaves the rest on its own side
\* or nowhere; one that must be filled whole or not at all is; and a market
\* order pays what the sweep of its size foretold.
NothingLost ==
    LET call == reply'.call
        cost == SumFunction([n \in DOMAIN reply'.fills |-> reply'.fills[n].price * reply'.fills[n].size])
    IN  IsOrder =>
           /\ reply'.filled + reply'.left = call.size
           /\ \A side \in Sides :
                 Held(side)' - Held(side) = CASE side # call.side -> - reply'.filled
                                              [] reply'.status = "RESTS" -> reply'.left
                                              [] OTHER -> 0
           /\ call.op # "MARKET" =>
                 \A n \in DOMAIN reply'.fills : Within(call.side, call.price, reply'.fills[n].price)
           /\ call.op = "FOK" => reply'.filled \in {0, call.size}
           /\ call.op = "MARKET" => Swept(call.side, call.size) = [left |-> reply'.left, cost |-> cost]

MatchingConserves == [][NothingLost]_bookVars

\* Price and time decide: an order is filled, in part or whole, only after every
\* order of its side with a better price, or with its price and longer there.
PriorityKept ==
    [][IsOrder =>
        LET side == Opposite(reply'.call.side)
            Left(p) == IF p \in DOMAIN levels'[side] THEN levels'[side][p].orders ELSE <<>>
            Touched(p) == p \in DOMAIN levels[side] /\ Left(p) # levels[side][p].orders
        IN  \A p \in DOMAIN levels[side] : Touched(p) =>
               /\ \A q \in DOMAIN levels[side] : Better(Opposite(side), q, p) => Left(q) = <<>>
               /\ IF Left(p) = <<>> THEN TRUE
                  ELSE LET n == Len(levels[side][p].orders) - Len(Left(p)) + 1
                       IN  /\ Tail(Left(p)) = SubSeq(levels[side][p].orders, n + 1, Len(levels[side][p].orders))
                           /\ Head(Left(p)).id = levels[side][p].orders[n].id]_bookVars

\* What cancel_order says it does: an order that rests is found by its identifier.
RestingIsCancellable ==
    \A r \in Resting : LET o == levels[r[1]][r[2]].orders[r[3]]
                       IN  o.id \in DOMAIN byId /\ byId[o.id] = [side |-> r[1], price |-> r[2]]

\* Matching neither makes nor loses volume and respects price and time.
MatchingSound == MatchingConserves /\ PriorityKept
=============================================================================
