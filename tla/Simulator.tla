----------------------------- MODULE Simulator ------------------------------
(***************************************************************************)
(* The simulator facade, crates/sim-core/src/facade: orders, position and  *)
(* depth of one session under the inputs the replay feeds it. Every action *)
(* is one accepted input; a refused input changes nothing, because apply   *)
(* works on a clone, except the L2 update that loses the book, which is    *)
(* consumed. The execution tiers are crates/sim-core/src/execution.        *)
(*                                                                         *)
(* Amounts of money are left out, and with them funding, fees, leverage    *)
(* and margin, which read orders and position and change neither.          *)
(***************************************************************************)
EXTENDS Depth

CONSTANTS
    Tier,               \* the execution tiers of an instance
    InitialPosition,    \* the position a session starts with
    Request,            \* the orders a player may ask for
    Replacement,        \* the quantities and kinds a player may ask for instead
    Quote,              \* tops of book: bid, ask and their sizes
    Bar,                \* completed bars: open, high and low
    Trade,              \* public trades: price and quantity
    FirstDepth,         \* the venue's book before its first update
    Feed,               \* the venue's updates of its book, in order
    Cap,                \* caps on the size of one fill
    Slippage,           \* configured slippages of market orders
    MaxOrders,          \* the last order id
    MaxRevision,        \* the last revision of an order
    MaxSequence         \* the last market event of bars, quotes and prints

ASSUME SessionAssumption ==
    /\ Tier \subseteq {"F0", "F1", "F2"}
    /\ InitialPosition \in Int
    /\ Request \subseteq [side: Side, quantity: Nat, kind: OrderKind, tif: TimeInForce,
                         reduce_only: BOOLEAN, post_only: BOOLEAN, marketable_only: BOOLEAN]
    /\ Replacement \subseteq [quantity: Nat, kind: OrderKind]
    /\ Cap \cup Slippage \subseteq Nat
    /\ {MaxOrders, MaxRevision, MaxSequence} \subseteq Nat

ASSUME MarketAssumption ==
    /\ Quote \subseteq [bid: Price, ask: Price, bid_size: Nat, ask_size: Nat]
    /\ Bar \subseteq [open: Price, high: Price, low: Price]
    /\ Trade \subseteq [price: Price, quantity: Nat]
    /\ FirstDepth \in [bids: Levels, asks: Levels]
    /\ Feed \in Seq([side: {"BID", "ASK"}, price: Nat, quantity: Nat])

VARIABLES
    tier,               \* the tier the session is pinned to
    orders,             \* every order ever admitted, by id
    position,           \* signed base quantity
    book,               \* the reconstructed book, of tier F2
    market_event_seq,   \* the last market event an input showed
    execution           \* the Execution event of the last input

vars == << tier, orders, position, book, market_event_seq, execution >>

NoExecution == [order |-> 0, fills |-> {}]

Init ==
    /\ tier \in Tier
    /\ orders = << >>
    /\ position = InitialPosition
    /\ book = NewBook
    /\ market_event_seq = NoSequence
    /\ execution = NoExecution

\* Market events may repeat but never go back.
Observe(seq) ==
    /\ market_event_seq = NoSequence \/ seq >= market_event_seq
    /\ market_event_seq' = seq

\* An order is entered at the event the session has reached.
Frontier == IF market_event_seq = NoSequence THEN 0 ELSE market_event_seq

-----------------------------------------------------------------------------
(***************************************************************************)
(* The player's inputs                                                     *)
(***************************************************************************)

\* handle_submit. The quote is the one the caller attached, if any.
Submit(r, quote) ==
    /\ Len(orders) < MaxOrders
    /\ ValidRequest(r)
    /\ LiquidityAllows(r.side, r.kind, r.post_only, r.marketable_only, quote)
    /\ LET accepted == IF r.reduce_only
                       THEN ReduceOnlyQuantity(orders, r.side, r.quantity, position, {})
                       ELSE r.quantity
       IN  /\ accepted > 0
           /\ orders' = Append(orders, Admitted(r, accepted, Frontier))
    /\ execution' = NoExecution
    /\ UNCHANGED << tier, position, book, market_event_seq >>

\* An order that is over is cancelled all the same.
Cancel_any(i) ==
    /\ orders' = [orders EXCEPT ![i] = Cancelled(@)]
    /\ execution' = NoExecution
    /\ UNCHANGED << tier, position, book, market_event_seq >>

\* handle_cancel: live orders only, dormant stops included.
Cancel(i) ==
    /\ ~IsTerminal(orders[i])
    /\ orders' = [orders EXCEPT ![i] = Cancelled(@)]
    /\ execution' = NoExecution
    /\ UNCHANGED << tier, position, book, market_event_seq >>

\* handle_replace: quantity and kind change, identity and fills stay. The event
\* the order was submitted at stays too.
Replace(i, change, quote) ==
    LET o == orders[i]
        desired == change.quantity - o.filled
        accepted == IF o.reduce_only
                    THEN ReduceOnlyQuantity(orders, o.side, desired, position, {i})
                    ELSE desired
    IN  /\ ~IsTerminal(o)
        /\ o.revision < MaxRevision
        /\ LiquidityAllows(o.side, change.kind, o.post_only, o.marketable_only, quote)
        /\ desired > 0
        /\ accepted > 0
        /\ orders' = [orders EXCEPT ![i] = Replaced(o, accepted, change.kind)]
        /\ execution' = NoExecution
        /\ UNCHANGED << tier, position, book, market_event_seq >>

\* reconcile_execution: the fills of an order move the position.
Reconcile(i, after, fills) ==
    /\ orders' = [orders EXCEPT ![i] = after]
    /\ position' = IF after.side = "BUY" THEN position + QuantityOf(fills)
                                         ELSE position - QuantityOf(fills)
    /\ execution' = [order |-> i, fills |-> fills]

\* The one fill, at one price, that took an order from before to after.
FillAt(price, before, after) ==
    IF after.filled = before.filled THEN {}
    ELSE {[price |-> price, quantity |-> after.filled - before.filled]}

-----------------------------------------------------------------------------
(***************************************************************************)
(* Tier F0: completed bars                                                 *)
(***************************************************************************)

StopTouched(o, bar) == IF o.side = "BUY" THEN bar.high >= o.kind.stop ELSE bar.low <= o.kind.stop
LimitTouched(o, bar) == IF o.side = "BUY" THEN bar.low <= o.kind.limit ELSE bar.high >= o.kind.limit
GapTriggered(o, bar) == IF o.side = "BUY" THEN bar.open >= o.kind.stop ELSE bar.open <= o.kind.stop

AdverseSlippage(price, side, slippage) ==
    IF side = "BUY" THEN price + slippage ELSE price - slippage

\* The price of a market order, or of a stop the bar turned into one.
MarketFillPrice(o, bar, slippage) ==
    AdverseSlippage(IF IsStop(o.kind) /\ ~GapTriggered(o, bar) THEN o.kind.stop ELSE bar.open,
                    o.side, slippage)

\* A bar that opens through the limit gives the better price.
LimitFillPrice_atOpen(o, bar) == bar.open

LimitFillPrice(o, bar) ==
    IF o.side = "BUY" THEN Min({bar.open, o.kind.limit}) ELSE Max({bar.open, o.kind.limit})

\* Stop and limit lie inside the bar and nothing says which came first.
SameBarAmbiguous(o, bar) ==
    /\ ~GapTriggered(o, bar)
    /\ IF o.side = "BUY" THEN o.kind.limit < o.kind.stop ELSE o.kind.limit > o.kind.stop

\* handle_f0 and execute_bar. The intrabar policy resolves an ambiguous bar;
\* favorable is its choice. An order the bar does not reach stays as it is,
\* whatever its time in force.
ExecuteF0(i, bar, seq, favorable, slippage) ==
    LET o == orders[i]
        skipped == IsTerminal(o) \/ seq <= o.submitted
        stopped == o.status = "DORMANT"
        active == IF stopped /\ StopTouched(o, bar)
                  THEN TriggerStop(o, o.kind.stop, NoQuote) ELSE o
        market == o.kind.limit = NoPrice
        reached == /\ IsExecutable(active)
                   /\ \/ market
                      \/ /\ LimitTouched(o, bar)
                         /\ stopped /\ SameBarAmbiguous(o, bar) => favorable
        price == IF market THEN MarketFillPrice(o, bar, slippage) ELSE LimitFillPrice(o, bar)
        after == IF skipped THEN o
                 ELSE IF reached THEN Offer(active, Remaining(active)) ELSE active
    IN  /\ tier = "F0"
        /\ Observe(seq)
        /\ ~skipped /\ market /\ (stopped => StopTouched(o, bar)) => price > 0
        /\ Reconcile(i, after, FillAt(price, o, after))
        /\ UNCHANGED << tier, book >>

-----------------------------------------------------------------------------
(***************************************************************************)
(* Tier F1: quotes and public trades                                       *)
(***************************************************************************)

\* handle_f1_quote and execute_on_quote. A stop waits for a quote later than its
\* submission; any other order takes what the quote displays.
ExecuteF1Quote(i, quote, seq, cap) ==
    LET o == orders[i]
        price == IF o.side = "BUY" THEN quote.ask ELSE quote.bid
        displayed == IF o.side = "BUY" THEN quote.ask_size ELSE quote.bid_size
        active == IF o.status = "DORMANT" /\ seq > o.submitted
                  THEN TriggerStop(o, price, quote) ELSE o
        after == IF ~IsExecutable(active) THEN active
                 ELSE IF IsMarketable(active.side, active.kind, quote)
                 THEN Offer(active, Min({displayed, cap}))
                 ELSE Offer(active, 0)
    IN  /\ tier = "F1"
        /\ Observe(seq)
        /\ Reconcile(i, after, FillAt(price, o, after))
        /\ UNCHANGED << tier, book >>

\* handle_f1_trade and execute_resting_on_trade: a later print at or through the
\* limit fills what it leaves after the displayed queue ahead.
ExecuteF1Trade(i, trade, seq, eligible_after, ahead, cap) ==
    LET o == orders[i]
        reaches == IF o.side = "BUY" THEN trade.price <= o.kind.limit ELSE trade.price >= o.kind.limit
        fillable == Min({Max({0, trade.quantity - ahead}), Remaining(o), cap})
        after == IF IsExecutable(o) /\ seq > Max({o.submitted, eligible_after}) /\ reaches
                 THEN ApplyFill(o, fillable) ELSE o
    IN  /\ tier = "F1"
        /\ Observe(seq)
        /\ o.tif = "GTC" /\ o.kind.limit # NoPrice /\ ~IsStop(o.kind)
        /\ Reconcile(i, after, FillAt(o.kind.limit, o, after))
        /\ UNCHANGED << tier, book >>

-----------------------------------------------------------------------------
(***************************************************************************)
(* Tier F2: reconstructed depth                                            *)
(***************************************************************************)

\* The venue's own book after its first n updates.
VenueLevels(n, side) ==
    [p \in Price |->
        LET updates == {k \in 1 .. n : Feed[k].side = side /\ Feed[k].price = p}
        IN  IF updates # {} THEN Feed[Max(updates)].quantity
            ELSE IF side = "BID" THEN FirstDepth.bids[p] ELSE FirstDepth.asks[p]]

\* handle_f2_snapshot: the complete book after n updates, a crossed one refused.
F2Snapshot(n) ==
    LET s == [sequence |-> n, bids |-> VenueLevels(n, "BID"), asks |-> VenueLevels(n, "ASK")]
    IN  /\ tier = "F2"
        /\ Observe(n)
        /\ Uncrossed(s.bids, s.asks)
        /\ book' = ApplySnapshot(s)
        /\ execution' = NoExecution
        /\ UNCHANGED << tier, orders, position >>

\* handle_f2_delta. The feed may lose, repeat and reorder updates. One that the
\* book cannot follow is consumed all the same and leaves it disabled.
F2Delta(n) ==
    LET d == [previous_sequence |-> n - 1, sequence |-> n, side |-> Feed[n].side,
              price |-> Feed[n].price, quantity |-> Feed[n].quantity]
    IN  /\ tier = "F2"
        /\ Observe(n)
        /\ book' = ApplyDelta(book, d)
        /\ execution' = NoExecution
        /\ UNCHANGED << tier, orders, position >>

\* handle_f2_execution and execute_taker: a sweep of the depth, which it leaves
\* without what it took.
ExecuteF2(i, max_levels, cap) ==
    LET o == orders[i]
        waiting == o.status = "DORMANT" /\ book.sequence > o.submitted
        active == IF ~waiting THEN o
                  ELSE TriggerStop(o, IF o.side = "BUY" THEN Top(book).ask ELSE Top(book).bid,
                                   Top(book))
        plan == PlanSweep(book, o.side, Min({Remaining(o), cap}), o.kind.limit, max_levels)
        after == IF IsExecutable(active) THEN Offer(active, QuantityOf(plan)) ELSE active
        consumed == PlanSweep(book, o.side, after.filled - o.filled, o.kind.limit, max_levels)
    IN  /\ tier = "F2"
        /\ book.enabled
        /\ waiting => HasTop(book)
        /\ book' = Consume(book, o.side, consumed)
        /\ Reconcile(i, after, consumed)
        /\ UNCHANGED << tier, market_event_seq >>

-----------------------------------------------------------------------------
Enter ==
    \E quote \in Quote \cup {NoQuote} :
        \/ \E r \in Request : Submit(r, quote)
        \/ \E i \in DOMAIN orders, change \in Replacement : Replace(i, change, quote)

Withdraw == \E i \in DOMAIN orders : Cancel(i)

ShowMarket ==
    \E i \in DOMAIN orders, seq \in Frontier .. MaxSequence :
        \/ \E bar \in Bar, favorable \in BOOLEAN, slippage \in Slippage :
               ExecuteF0(i, bar, seq, favorable, slippage)
        \/ \E quote \in Quote, cap \in Cap : ExecuteF1Quote(i, quote, seq, cap)
        \/ \E trade \in Trade, eligible_after \in 0 .. Frontier, ahead \in 0 .. 1, cap \in Cap :
               ExecuteF1Trade(i, trade, seq, eligible_after, ahead, cap)

ShowDepth ==
    \/ \E n \in 0 .. Len(Feed) : F2Snapshot(n)
    \/ \E n \in 1 .. Len(Feed) : F2Delta(n)
    \/ \E i \in DOMAIN orders, max_levels \in 1 .. 2, cap \in Cap : ExecuteF2(i, max_levels, cap)

Next == Enter \/ Withdraw \/ ShowMarket \/ ShowDepth

Spec == Init /\ [][Next]_vars

-----------------------------------------------------------------------------
(***************************************************************************)
(* Properties                                                              *)
(***************************************************************************)

TypeOK ==
    /\ tier \in {"F0", "F1", "F2"}
    /\ orders \in Seq(Order)
    /\ position \in Int
    /\ book \in L2Book
    /\ market_event_seq \in Nat \cup {NoSequence}
    /\ execution.order \in 0 .. Len(orders)

\* Whatever sequence of fills, triggers and replacements an order went through,
\* its status says what has filled and whether it may still execute; an order
\* that waits for a stop has one and an order that may execute has none.
LifecycleSound ==
    \A i \in DOMAIN orders : LET o == orders[i] IN
        /\ o.filled <= o.quantity
        /\ o.status = "FILLED" <=> o.filled = o.quantity
        /\ o.status = "WORKING" => o.filled = 0
        /\ o.status = "PARTIALLY_FILLED" => o.filled > 0
        /\ o.status = "DORMANT" => IsStop(o.kind)
        /\ IsExecutable(o) => ~IsStop(o.kind)

\* An IOC or FOK order that has filled at all is over, and an FOK order fills
\* all or nothing, replacements of a resting one included (execute_immediate).
ImmediatesAtomic ==
    \A i \in DOMAIN orders : LET o == orders[i] IN
        /\ o.tif # "GTC" /\ o.filled > 0 => IsTerminal(o)
        /\ o.tif = "FOK" => o.filled \in {0, o.quantity}

\* No post-only order becomes an executable market order: replace does not
\* repeat the check of validate_request, and trigger_stop has to catch it.
PostOnlyKeepsLimit ==
    \A i \in DOMAIN orders :
        orders[i].post_only /\ IsExecutable(orders[i]) => orders[i].kind.limit # NoPrice

\* In every tier, what a limit order fills it fills at its limit or better
\* (docs/trading-rules.md:102), a stop turned into a limit included.
FillsAtLimit ==
    execution.fills # {} =>
        LET o == orders[execution.order] IN
            o.kind.limit # NoPrice =>
                \A f \in execution.fills :
                    IF o.side = "BUY" THEN f.price <= o.kind.limit ELSE f.price >= o.kind.limit

\* The order state machine keeps its promises under every tier.
OrdersSound == TypeOK /\ LifecycleSound /\ ImmediatesAtomic /\ PostOnlyKeepsLimit /\ FillsAtLimit

\* What all orders of a side have filled.
FilledBy(side) ==
    Total([i \in DOMAIN orders |-> IF orders[i].side = side THEN orders[i].filled ELSE 0])

\* The position is what the session started with and every fill the order book
\* records, sweeps of several levels included (reconcile_execution).
PositionIsFills == position = InitialPosition + FilledBy("BUY") - FilledBy("SELL")

\* As long as only reduce-only orders have filled, the live ones together never
\* claim more than the position leaves to reduce: admission, replacement and the
\* race of two of them included (reduce_only_quantity). The condition is needed:
\* no execution path looks at the position again, so an order that has been
\* admitted to reduce opens a new position once another one has closed the old.
ReservedCovered ==
    (\A i \in DOMAIN orders : orders[i].filled > 0 => orders[i].reduce_only) =>
        \A side \in Side : Reserved(orders, side, {}) <= Reducible(side, position)

\* Position and orders account for each other.
PositionAccounted == PositionIsFills /\ ReservedCovered

Missing(shown, levels) == Total([p \in Price |-> shown[p] - levels[p]])

\* While the book is enabled it is the venue's book at its sequence, less what
\* the session itself has taken: no lost, repeated or late update goes unseen
\* and no sweep is filled from depth that was not there.
DepthIsVenues ==
    book.enabled =>
        LET bids == VenueLevels(book.sequence, "BID")
            asks == VenueLevels(book.sequence, "ASK")
        IN  /\ \A p \in Price : book.bids[p] <= bids[p] /\ book.asks[p] <= asks[p]
            /\ Missing(bids, book.bids) <= FilledBy("SELL")
            /\ Missing(asks, book.asks) <= FilledBy("BUY")

\* from_snapshot accepts every state the facade can be in: a crashed replay can
\* always resume from its snapshot, a quarantined book included.
Restorable ==
    /\ book.enabled => book.sequence = market_event_seq /\ Uncrossed(book.bids, book.asks)
    /\ book.sequence # NoSequence =>
           market_event_seq # NoSequence /\ book.sequence <= market_event_seq
    /\ tier # "F2" => book = NewBook

\* Depth can be trusted, and the facade restored, at every step.
DepthTrusted == DepthIsVenues /\ Restorable

\* An order never loses a fill, never changes side or terms of admission, and
\* once terminal never changes again; ids are never reused; market events never
\* go back.
OrdersMonotone ==
    [][/\ Len(orders') >= Len(orders)
       /\ \A i \in DOMAIN orders :
              /\ orders'[i].filled >= orders[i].filled
              /\ orders'[i].side = orders[i].side
              /\ orders'[i].submitted = orders[i].submitted
              /\ IsTerminal(orders[i]) => orders'[i] = orders[i]
       /\ market_event_seq # NoSequence => market_event_seq' >= market_event_seq]_vars

=============================================================================
