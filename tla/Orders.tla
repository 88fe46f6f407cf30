------------------------------- MODULE Orders -------------------------------
(***************************************************************************)
(* The order state machine of the simulator, crates/sim-core/src/orders:   *)
(* what each transition of OrderState makes of one order. Prices are       *)
(* positive; a price that a kind does not have is NoPrice, so a market     *)
(* order has neither a stop nor a limit. Client references and instruments *)
(* are left out: the facade serves one instrument.                         *)
(***************************************************************************)
EXTENDS Integers, Sequences, FiniteSetsExt, Sums

CONSTANTS
    Price,          \* the price atoms of an instance
    NoPrice,        \* a price the kind of an order does not have
    NoQuote         \* an input without a top of book

ASSUME PriceAssumption ==
    Price \subseteq Nat \ {0} /\ IsFiniteSet(Price) /\ NoPrice \notin Price

Side == {"BUY", "SELL"}
TimeInForce == {"GTC", "IOC", "FOK"}
OrderStatus == {"DORMANT", "WORKING", "PARTIALLY_FILLED", "FILLED", "CANCELLED", "REJECTED"}
OrderKind == [stop: Price \cup {NoPrice}, limit: Price \cup {NoPrice}]

Order ==
    [side: Side, quantity: Nat \ {0}, filled: Nat, kind: OrderKind, tif: TimeInForce,
     reduce_only: BOOLEAN, post_only: BOOLEAN, marketable_only: BOOLEAN,
     submitted: Nat, revision: Nat, status: OrderStatus]

IsStop(kind) == kind.stop # NoPrice
IsTerminal(o) == o.status \in {"FILLED", "CANCELLED", "REJECTED"}
IsExecutable(o) == o.status \in {"WORKING", "PARTIALLY_FILLED"}
Remaining(o) == o.quantity - o.filled

-----------------------------------------------------------------------------
\* A limit at or through the other side of the book takes liquidity at once.
IsMarketable(side, kind, quote) ==
    CASE kind.limit = NoPrice -> ~IsStop(kind)
      [] kind.limit # NoPrice /\ side = "BUY" -> kind.limit >= quote.ask
      [] kind.limit # NoPrice /\ side = "SELL" -> kind.limit <= quote.bid

\* A stop is not checked before it triggers; a constraint needs a quote.
LiquidityAllows(side, kind, post_only, marketable_only, quote) ==
    \/ IsStop(kind)
    \/ ~post_only /\ ~marketable_only
    \/ /\ quote # NoQuote
       /\ post_only => ~IsMarketable(side, kind, quote)
       /\ marketable_only => IsMarketable(side, kind, quote)

ValidRequest(r) ==
    /\ r.quantity > 0
    /\ ~(r.post_only /\ r.marketable_only)
    /\ r.post_only => r.kind.limit # NoPrice

-----------------------------------------------------------------------------
\* What an order of this side may take off the position.
Reducible(side, position) ==
    CASE position > 0 /\ side = "SELL" -> position
      [] position < 0 /\ side = "BUY" -> -position
      [] OTHER -> 0

\* What a live reduce-only order of the side claims of the position.
Claim(o, side) ==
    IF o.side = side /\ o.reduce_only /\ ~IsTerminal(o) THEN Remaining(o) ELSE 0

\* What the other orders of the side already claim.
Reserved(orders, side, excluding) ==
    Total([i \in DOMAIN orders \ excluding |-> Claim(orders[i], side)])

\* The whole position for every order, whatever the others claim.
ReduceOnlyQuantity_unreserved(orders, side, requested, position, excluding) ==
    Min({requested, Reducible(side, position)})

\* The quantity a reduce-only order is admitted with; 0 when it is refused.
ReduceOnlyQuantity(orders, side, requested, position, excluding) ==
    Min({requested,
         Max({0, Reducible(side, position) - Reserved(orders, side, excluding)})})

-----------------------------------------------------------------------------
\* The order that a request becomes, with the quantity it is admitted with.
Admitted(r, quantity, frontier) ==
    [side |-> r.side, quantity |-> quantity, filled |-> 0, kind |-> r.kind,
     tif |-> r.tif, reduce_only |-> r.reduce_only, post_only |-> r.post_only,
     marketable_only |-> r.marketable_only, submitted |-> frontier, revision |-> 0,
     status |-> IF IsStop(r.kind) THEN "DORMANT" ELSE "WORKING"]

LiveStatus(o) == IF o.filled = 0 THEN "WORKING" ELSE "PARTIALLY_FILLED"

\* A replacement keeps identity and fills; remaining is what it may still fill.
Replaced(o, remaining, kind) ==
    [o EXCEPT !.quantity = o.filled + remaining, !.kind = kind, !.revision = @ + 1,
              !.status = IF IsStop(kind) THEN "DORMANT" ELSE LiveStatus(o)]

Cancelled(o) == [o EXCEPT !.status = "CANCELLED"]

\* Some quantity of an order executes; nothing of it leaves the order alone.
ApplyFill(o, quantity) ==
    IF quantity = 0 THEN o
    ELSE [o EXCEPT !.filled = @ + quantity,
                   !.status = IF o.filled + quantity = o.quantity
                              THEN "FILLED" ELSE "PARTIALLY_FILLED"]

\* One liquidity attempt of an IOC or FOK order, after which it is over.
ExecuteImmediate(o, available) ==
    IF o.tif = "FOK" /\ available < Remaining(o) THEN Cancelled(o)
    ELSE LET after == ApplyFill(o, Min({available, Remaining(o)}))
         IN  IF IsTerminal(after) THEN after ELSE Cancelled(after)

\* Offers liquidity to an executable order, the way its time in force has it.
Offer(o, available) ==
    IF o.tif = "GTC" THEN ApplyFill(o, Min({available, Remaining(o)}))
    ELSE ExecuteImmediate(o, available)

\* A dormant stop that a price reaches becomes a live order of the converted
\* kind, or is rejected when its liquidity constraint no longer holds.
TriggerStop(o, price, quote) ==
    LET converted == [o.kind EXCEPT !.stop = NoPrice]
        reached == IF o.side = "BUY" THEN price >= o.kind.stop ELSE price <= o.kind.stop
    IN  IF ~reached THEN o
        ELSE IF LiquidityAllows(o.side, converted, o.post_only, o.marketable_only, quote)
        THEN [o EXCEPT !.kind = converted, !.status = LiveStatus(o)]
        ELSE [o EXCEPT !.status = "REJECTED"]

=============================================================================
