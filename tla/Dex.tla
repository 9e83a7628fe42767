-------------------------------- MODULE Dex --------------------------------
(***************************************************************************)
(* The exchange: the order book of one pair of assets and one liquidity pool. *)
(* Amounts are unsigned words of PoolWidth values.                            *)
(*                                                                          *)
(* An order's identity is the hash of amount, price, time stamp and trader,   *)
(* but not of its side: two orders that agree in these share their entry in    *)
(* orders_by_id_.                                                            *)
(***************************************************************************)
EXTENDS Integers, FiniteSets, Sequences, SequencesExt

CONSTANTS
    Trader, Price, Volume,      \* of the limit orders that are placed
    MaxRequests,                \* bound on the orders placed and the requests to the pool
    PoolWidth,                  \* number of values of a uint64
    Provider,
    Deposits,                   \* pairs of amounts that open a pool or are added to it
    Inputs,                     \* amounts swapped in
    FeeRate

ASSUME DexAssumption ==
    /\ Price \cup Volume \subseteq Nat \ {0} /\ MaxRequests \in Nat
    /\ PoolWidth \in Nat \ {0} /\ FeeRate \in Nat /\ Inputs \subseteq 0 .. PoolWidth - 1

VARIABLES
    bids, asks,     \* price -> the sequence of orders resting at it
    byId,           \* orders_by_id_
    served,         \* number of orders placed and of requests to the pool
    trades,         \* what the last MatchOrders returned
    amm             \* the liquidity pool
dexVars == <<bids, asks, byId, served, trades, amm>>

NoLevels == [p \in {} |-> <<>>]
MaxWord == PoolWidth - 1

InitDex ==
    /\ bids = NoLevels /\ asks = NoLevels /\ byId = {} /\ served = 0 /\ trades = <<>>
    /\ amm = [a |-> 0, b |-> 0, total |-> 0, shares |-> [p \in Provider |-> 0], open |-> FALSE]

-----------------------------------------------------------------------------
BestAsk(levels) == CHOOSE p \in DOMAIN levels : \A q \in DOMAIN levels : p <= q
BestBid(levels) == CHOOSE p \in DOMAIN levels : \A q \in DOMAIN levels : q <= p

RestIn(levels, o) ==
    [p \in DOMAIN levels \cup {o.price} |->
       IF p # o.price THEN levels[p]
       ELSE Append(IF p \in DOMAIN levels THEN levels[p] ELSE <<>>, o)]

Left(o) == o.amount - o.filled

(* The first order of a level gives amount: it leaves when filled, and an empty level goes *)
FillFirst(levels, p, amount) ==
    LET first == Head(levels[p])
        queue == IF Left(first) = amount THEN Tail(levels[p])
                 ELSE <<[first EXCEPT !.filled = @ + amount]>> \o Tail(levels[p])
    IN  IF queue = <<>> THEN [q \in DOMAIN levels \ {p} |-> levels[q]]
        ELSE [levels EXCEPT ![p] = queue]

(* Mutant: a bid one below the ask trades too *)
Crossed_Loose(b, s) == DOMAIN b # {} /\ DOMAIN s # {} /\ BestBid(b) + 1 >= BestAsk(s)

Crossed(b, s) == DOMAIN b # {} /\ DOMAIN s # {} /\ BestBid(b) >= BestAsk(s)

RECURSIVE Matched(_, _, _)
Matched(b, s, done) ==
    IF ~Crossed(b, s) THEN [bids |-> b, asks |-> s, trades |-> done]
    ELSE LET bid    == Head(b[BestBid(b)])
             ask    == Head(s[BestAsk(s)])
             amount == IF Left(bid) < Left(ask) THEN Left(bid) ELSE Left(ask)
         IN  Matched(FillFirst(b, bid.price, amount), FillFirst(s, ask.price, amount),
                     Append(done, [bid |-> bid, ask |-> ask, price |-> ask.price, amount |-> amount]))

MatchOrders ==
    LET result == Matched(bids, asks, <<>>) IN
    /\ bids' = result.bids /\ asks' = result.asks /\ trades' = result.trades
    /\ UNCHANGED <<byId, served, amm>>

(* The assets and the side are those of the book *)
ValidateOrder(o) == o.amount # 0 /\ o.price # 0

(* The time stamp in the identity is the caller's, left 0; number only tells orders apart *)
PlaceOrder(side, o) ==
    /\ served < MaxRequests /\ ValidateOrder(o)
    /\ served' = served + 1
    /\ byId' = byId \cup {[trader |-> o.trader, price |-> o.price, amount |-> o.amount]}
    /\ bids' = IF side = "buy" THEN RestIn(bids, o) ELSE bids
    /\ asks' = IF side = "sell" THEN RestIn(asks, o) ELSE asks
    /\ UNCHANGED <<trades, amm>>

(* The order itself stays in the book *)
CancelOrder(id) ==
    /\ byId' = byId \ {id}
    /\ UNCHANGED <<bids, asks, served, trades, amm>>

(* A market buy gets an entry but never rests in the book; a market sell has price 0 and is *)
(* refused.  Then the resting orders are matched.                                            *)
ExecuteMarketOrder(trader, buys, amount) ==
    LET order  == [trader |-> trader, price |-> IF buys THEN MaxWord ELSE 0, amount |-> amount]
        result == Matched(bids, asks, <<>>)
    IN
    /\ served < MaxRequests
    /\ served' = served + 1
    /\ byId' = byId \cup IF ValidateOrder(order) THEN {order} ELSE {}
    /\ bids' = result.bids /\ asks' = result.asks /\ trades' = result.trades
    /\ UNCHANGED amm

BookStep ==
    \/ \E side \in {"buy", "sell"} : \E t \in Trader : \E p \in Price \cup {0} : \E v \in Volume \cup {0} :
          PlaceOrder(side, [trader |-> t, price |-> p, amount |-> v, filled |-> 0, number |-> served])
    \/ \E id \in byId : CancelOrder(id)
    \/ \E t \in Trader : \E buys \in BOOLEAN : \E v \in Volume : ExecuteMarketOrder(t, buys, v)
    \/ MatchOrders

-----------------------------------------------------------------------------
Served ==
    /\ served < MaxRequests
    /\ served' = served + 1
    /\ UNCHANGED <<bids, asks, byId, trades>>

(* The liquidity pool.  A product beyond a word is capped. *)
Times(x, y) == IF x > 0 /\ y > MaxWord \div x THEN MaxWord ELSE x * y

CreatePool(d) ==
    /\ amm' = [a |-> d[1], b |-> d[2], total |-> Times(d[1], d[2]),
               shares |-> [p \in Provider |-> 0], open |-> TRUE]
    /\ Served

SharesFor(d) ==
    IF amm.total = 0 THEN Times(d[1], d[2])
    ELSE LET portion(x, reserve) ==
                IF x > MaxWord \div amm.total THEN MaxWord ELSE (x * amm.total) \div reserve
             forA == portion(d[1], amm.a)
             forB == portion(d[2], amm.b)
         IN  IF forA < forB THEN forA ELSE forB

(* The provider's shares are added a second time *)
Credited(held, s) ==
    LET once == (held + s) % PoolWidth
    IN  IF once > MaxWord - s THEN MaxWord ELSE once + s

AddLiquidity(p, d) ==
    /\ amm.open /\ (amm.total = 0 \/ (amm.a # 0 /\ amm.b # 0))
    /\ amm.a + d[1] <= MaxWord /\ amm.b + d[2] <= MaxWord
    /\ LET s == SharesFor(d) IN
       /\ amm.total + s <= MaxWord
       /\ amm' = [amm EXCEPT !.a = @ + d[1], !.b = @ + d[2], !.total = @ + s,
                             !.shares[p] = Credited(@, s)]
    /\ Served

(* safe_amount *)
Withdrawable(s, reserve) ==
    LET perShare == reserve \div amm.total
    IN  IF reserve = 0 \/ s = 0 THEN 0
        ELSE IF s <= MaxWord \div reserve THEN (s * reserve) \div amm.total
        ELSE IF perShare > 0 /\ s > MaxWord \div perShare THEN reserve
        ELSE perShare * s

RemoveLiquidity(p, s) ==
    /\ amm.open /\ amm.shares[p] >= s /\ amm.total # 0
    /\ amm' = [amm EXCEPT !.a = (@ - Withdrawable(s, @)) % PoolWidth,
                          !.b = (@ - Withdrawable(s, @)) % PoolWidth,
                          !.total = (@ - s) % PoolWidth, !.shares[p] = @ - s]
    /\ Served

NetInput(input) == input * (10000 - FeeRate)

(* 0 when a product leaves the word *)
GetOutputAmount(input, from, to) ==
    LET net == NetInput(input)
    IN  IF \/ FeeRate >= 10000 \/ from = 0 \/ to = 0
           \/ input > MaxWord \div (10000 - FeeRate) \/ net > MaxWord \div to
           \/ from > MaxWord \div 10000 \/ from * 10000 + net > MaxWord
        THEN 0
        ELSE (net * to) \div (from * 10000 + net)

(* A reserve that leaves the word wraps *)
SwapAssets(input, minimum) ==
    /\ amm.open
    /\ \/ LET output == GetOutputAmount(input, amm.a, amm.b) IN
          /\ output >= minimum
          /\ amm' = [amm EXCEPT !.a = (@ + input) % PoolWidth, !.b = (@ - output) % PoolWidth]
       \/ LET output == GetOutputAmount(input, amm.b, amm.a) IN
          /\ output >= minimum
          /\ amm' = [amm EXCEPT !.b = (@ + input) % PoolWidth, !.a = (@ - output) % PoolWidth]
    /\ Served

PoolStep ==
    \/ \E d \in Deposits : CreatePool(d)
    \/ \E p \in Provider :
          \/ \E d \in Deposits : AddLiquidity(p, d)
          \/ \E part \in {1, 2} : RemoveLiquidity(p, amm.shares[p] \div part)
    \/ \E i \in Inputs : \E minimum \in {0, 1} : SwapAssets(i, minimum)

-----------------------------------------------------------------------------
RestingOrders(levels) == UNION {ToSet(levels[p]) : p \in DOMAIN levels}

RestingVolume(levels) == MapThenSumSet(Left, RestingOrders(levels))

Moved(done) == FoldSeq(LAMBDA t, sum : t.amount + sum, 0, done)

DexTypeOK ==
    /\ \A levels \in {bids, asks} : \A p \in DOMAIN levels :
          levels[p] # <<>> /\ \A o \in ToSet(levels[p]) : o.price = p /\ o.filled < o.amount
    /\ {amm.a, amm.b, amm.total} \subseteq 0 .. MaxWord
    /\ amm.shares \in [Provider -> 0 .. MaxWord]

(* Matching is fair: each trade is at a price both limits allow, no order that rested at a   *)
(* better price or longer at the same price is passed over, what the trades moved is what the *)
(* two sides lost, and nothing that could trade is left.  A swap never lowers the product of   *)
(* the reserves nor takes the last of one, unless the reserve it adds to wraps, and then it    *)
(* pays nothing out; no check of the code keeps such a swap away, and its product does fall.    *)
DexIsFair ==
    [][ /\ RestingVolume(bids') < RestingVolume(bids) =>
             LET moved == Moved(trades')
                 ahead(x, y, sign) == \/ sign * x.price > sign * y.price
                                      \/ x.price = y.price /\ x.number < y.number
             IN  /\ moved = RestingVolume(bids) - RestingVolume(bids')
                 /\ moved = RestingVolume(asks) - RestingVolume(asks')
                 /\ \A t \in ToSet(trades') :
                       /\ t.ask.price <= t.price /\ t.price <= t.bid.price
                       /\ \A o \in RestingOrders(bids') : ~ahead(o, t.bid, 1)
                       /\ \A o \in RestingOrders(asks') : ~ahead(o, t.ask, -1)
                 /\ \A p \in DOMAIN bids' : \A q \in DOMAIN asks' : p < q
        /\ \A input \in Inputs :
             SwapAssets(input, 0) =>
                LET fits(x, y) == amm[x] + input <= MaxWord /\ amm'[x] = amm[x] + input /\ amm'[y] <= amm[y]
                    wraps(x, y) == amm'[x] = amm[x] + input - PoolWidth /\ amm'[y] = amm[y]
                IN  \/ wraps("a", "b") \/ wraps("b", "a")
                    \/ /\ fits("a", "b") \/ fits("b", "a")
                       /\ amm'.a * amm'.b >= amm.a * amm.b
                       /\ amm.a > 0 /\ amm.b > 0 => amm'.a > 0 /\ amm'.b > 0
      ]_dexVars

(* The comment RemoveLiquidity rests its arithmetic on: nobody holds more shares of the pool *)
(* than there are                                                                             *)
SharesWithinTotal == \A p \in Provider : amm.shares[p] <= amm.total
=============================================================================
