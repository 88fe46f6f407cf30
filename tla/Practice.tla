------------------------------ MODULE Practice ------------------------------
(***************************************************************************)
(* The practice simulator behind the playable game: one Session of         *)
(* internal/practice/model.go, driven by the commands order, leverage and  *)
(* advance of internal/practicehttp/server.go.                             *)
(*                                                                         *)
(* The server's mutex makes a command atomic. Advance and SubmitOrder are  *)
(* loops and sequences inside one command; here each turn is a step, and   *)
(* `call` says where the command in progress stands. A new command starts  *)
(* only when call.at = "ready", so states with another value of call.at    *)
(* are never seen by a player.                                             *)
(*                                                                         *)
(* Prices, quantities and rates are integers in the code's units; the      *)
(* constants scale them down. RemainingMilli is qty - filled and           *)
(* nextOrderID is Len(orders) + 1; both follow from the code's updates.    *)
(***************************************************************************)
EXTENDS Integers, Sequences, FiniteSetsExt, Sums

CONSTANTS
    Prices,             \* practicePricesCents, the sealed path
    StartingEquity,     \* StartingEquityCents
    HalfSpread,         \* HalfSpreadCents
    TakerFee, MakerFee, \* fee rates, parts of Rate
    MaintenanceRate,    \* MaintenanceRatePPB, parts of Rate
    Unit,               \* quantity units per instrument unit, 1000 in the code
    Rate,               \* the base of rates, 10^9 in the code
    StartLeverage,      \* leverage of a new session, 5 in the code
    MaxLeverage,        \* 50 in the code
    MaxSteps,           \* steps one advance may take, 8 in the code
    Request,            \* the OrderRequest values a player may send
    MaxOrders,          \* bound: orders of one run
    NoPrice             \* a nil price

Intent == {"BUY", "SELL", "SHORT", "COVER", "REVERSE", "CLOSE"}
PriceMode == {"MARKET", "BID", "ASK", "MID", "STOP"}

ASSUME PricesAssumption ==
    /\ Prices \in Seq(Nat)
    /\ Len(Prices) >= 2
    /\ \A i \in DOMAIN Prices : Prices[i] > HalfSpread

ASSUME UnitsAssumption ==
    /\ {StartingEquity, HalfSpread, TakerFee, MakerFee, MaintenanceRate} \subseteq Nat
    /\ {Unit, Rate, MaxLeverage, MaxSteps} \subseteq Nat \ {0}
    /\ StartLeverage \in 1..MaxLeverage
    /\ MaxOrders \in Nat
    /\ NoPrice \notin Int

ASSUME RequestAssumption ==
    Request \subseteq [intent: Intent, qty: Int, mode: PriceMode, stop: Int,
                       reduceOnly: BOOLEAN, makerOnly: BOOLEAN, takerOnly: BOOLEAN]

VARIABLES
    cursor,     \* index of the last revealed price, from 1
    status,
    leverage,
    position,   \* positionMilli, negative when short
    entry,      \* averageEntry
    realized,   \* realizedPnL
    fees,
    peak,       \* peakEquity
    drawdown,   \* maxDrawdown
    orders,
    call        \* the command in progress

bookVars == <<position, entry, realized, fees>>
riskVars == <<peak, drawdown>>
vars == <<cursor, status, leverage, bookVars, riskVars, orders, call>>

Price == Int \cup {NoPrice}

Order == [side: {"BUY", "SELL"}, qty: Int, filled: Int, price: Price, stop: Price,
          reduceOnly: BOOLEAN, makerOnly: BOOLEAN, takerOnly: BOOLEAN,
          status: {"WORKING", "FILLED", "CANCELED", "REJECTED"}, system: BOOLEAN]

Ready == [at |-> "ready", advancing |-> FALSE, steps |-> 0, index |-> 0]

Call == [at: {"ready", "reveal", "orders", "risk"}, advancing: BOOLEAN,
         steps: 0..MaxSteps, index: Nat]

PracticeTypeOK ==
    /\ cursor \in DOMAIN Prices
    /\ status \in {"ACTIVE", "COMPLETED", "LIQUIDATED"}
    /\ leverage \in 1..MaxLeverage
    /\ position \in Int
    /\ entry \in Price
    /\ realized \in Int
    /\ fees \in Int
    /\ peak \in Int
    /\ drawdown \in Int
    /\ orders \in Seq(Order)
    /\ call \in Call

-----------------------------------------------------------------------------
\* Fixed-point arithmetic and the derived figures of Snapshot.

\* mulDiv: exact product, quotient truncated toward zero.
MulDiv(a, b, d) ==
    IF a * b >= 0 THEN (a * b) \div d ELSE -((-(a * b)) \div d)

AbsOf(x) == IF x < 0 THEN -x ELSE x
SignOf(x) == IF x < 0 THEN -1 ELSE IF x > 0 THEN 1 ELSE 0
MinOf(a, b) == IF a < b THEN a ELSE b
MaxOf(a, b) == IF a > b THEN a ELSE b

Mark == Prices[cursor]

UnrealizedAt(pos, basis) ==
    IF pos = 0 \/ basis = NoPrice THEN 0 ELSE MulDiv(pos, Mark - basis, Unit)

Equity == StartingEquity + realized + UnrealizedAt(position, entry) - fees

NotionalOf(pos) == MulDiv(AbsOf(pos), Mark, Unit)
InitialMargin(pos, lev) == MulDiv(NotionalOf(pos), 1, lev)
MaintenanceMargin == MulDiv(NotionalOf(position), MaintenanceRate, Rate)

Init ==
    /\ cursor = 1
    /\ status = "ACTIVE"
    /\ leverage = StartLeverage
    /\ position = 0
    /\ entry = NoPrice
    /\ realized = 0
    /\ fees = 0
    /\ peak = StartingEquity
    /\ drawdown = 0
    /\ orders = <<>>
    /\ call = Ready

-----------------------------------------------------------------------------
\* fillOrder

\* Mutation: reduce-only is enforced at acceptance only.
FillQuantity_uncapped(o) == o.qty - o.filled

FillQuantity(o) ==
    LET reducible == MaxOf(0, IF o.side = "BUY" THEN -position ELSE position)
    IN  IF o.reduceOnly THEN MinOf(o.qty - o.filled, reducible)
                        ELSE o.qty - o.filled

\* Mutation: the sum is divided by the quantity of the fill.
AveragedEntry_byFill(fill, price) ==
    (AbsOf(position) * (IF entry = NoPrice THEN price ELSE entry)
        + AbsOf(fill) * price) \div AbsOf(fill)

\* A fill in the direction of the position averages the entry price.
AveragedEntry(fill, price) ==
    (AbsOf(position) * (IF entry = NoPrice THEN price ELSE entry)
        + AbsOf(fill) * price) \div AbsOf(position + fill)

\* A fill against it leaves the entry of what remains, or opens the other side.
EntryAfterClosing(fill, price) ==
    IF position + fill = 0 THEN NoPrice
    ELSE IF SignOf(position + fill) = SignOf(position) THEN entry ELSE price

\* ... and realizes the closed part.
RealizedByClosing(fill, price) ==
    LET basis == IF entry = NoPrice THEN price ELSE entry
        side  == IF position < 0 THEN -1 ELSE 1
    IN  realized + MulDiv(MinOf(AbsOf(position), AbsOf(fill)),
                          side * (price - basis), Unit)

\* projectPosition
Project(fill, price) ==
    IF position = 0 \/ SignOf(position) = SignOf(fill)
    THEN [position |-> position + fill, realized |-> realized,
          entry |-> AveragedEntry(fill, price)]
    ELSE [position |-> position + fill, realized |-> RealizedByClosing(fill, price),
          entry |-> EntryAfterClosing(fill, price)]

CreatesOrIncreasesExposure(before, after) ==
    /\ after # 0
    /\ \/ before = 0
       \/ SignOf(before) # SignOf(after)
       \/ AbsOf(after) > AbsOf(before)

\* Mutation: the new fill's own fee and spread loss are not counted.
Affordable_currentEquity(p, fee) == InitialMargin(p.position, leverage) <= Equity

\* The margin check of a fill that would lead to p at the given fee.
Affordable(p, fee) ==
    InitialMargin(p.position, leverage)
        <= StartingEquity + p.realized + UnrealizedAt(p.position, p.entry) - fees - fee

\* fillOrder returns early: the account stays as it is.
Unfilled(o, verdict) ==
    [order |-> [o EXCEPT !.status = verdict], position |-> position,
     entry |-> entry, realized |-> realized, fees |-> fees]

\* The part a reduce-only order could not fill is canceled with it.
Filled(o, q, price) ==
    [o EXCEPT !.filled = @ + q, !.price = price,
       !.status = IF o.filled + q < o.qty THEN "CANCELED" ELSE "FILLED"]

\* The order and the account after an attempt to fill o at `price`.
FillOrder(o, price, feeRate) ==
    LET q   == FillQuantity(o)
        p   == Project(IF o.side = "BUY" THEN q ELSE -q, price)
        fee == MulDiv(MulDiv(q, price, Unit), feeRate, Rate)
    IN  IF q = 0 THEN Unfilled(o, "CANCELED")
        ELSE IF /\ ~o.system
                /\ CreatesOrIncreasesExposure(position, p.position)
                /\ ~Affordable(p, fee)
        THEN Unfilled(o, "REJECTED")
        ELSE [order |-> Filled(o, q, price), position |-> p.position,
              entry |-> p.entry, realized |-> p.realized, fees |-> fees + fee]

\* The account takes the result of FillOrder.
Book(result) ==
    /\ position' = result.position
    /\ entry' = result.entry
    /\ realized' = result.realized
    /\ fees' = result.fees

-----------------------------------------------------------------------------
\* SubmitOrder

\* validateOrder. Its upper limits on quantity and stop price, which keep the
\* products inside 64 bits, are those of Request.
ValidRequest(r) ==
    /\ r.qty > 0
    /\ ~(r.makerOnly /\ r.takerOnly)
    /\ ~(r.makerOnly /\ r.mode \in {"MARKET", "STOP"})
    /\ r.mode = "STOP" => r.stop > 0

\* resolveIntent
ResolvedSide(intent) ==
    CASE intent \in {"BUY", "COVER"} -> "BUY"
      [] intent \in {"SELL", "SHORT"} -> "SELL"
      [] intent \in {"CLOSE", "REVERSE"} -> IF position < 0 THEN "BUY" ELSE "SELL"

ResolvedQuantity(r) ==
    CASE r.intent = "CLOSE" -> AbsOf(position)
      [] r.intent = "REVERSE" -> AbsOf(position) + r.qty
      [] OTHER -> r.qty

PriceForMode(mode) ==
    CASE mode = "BID" -> Mark - HalfSpread
      [] mode = "ASK" -> Mark + HalfSpread
      [] mode = "MID" -> Mark
      [] OTHER -> NoPrice

NewOrder(r) ==
    [side |-> ResolvedSide(r.intent), qty |-> ResolvedQuantity(r), filled |-> 0,
     price |-> PriceForMode(r.mode),
     stop |-> IF r.mode = "STOP" THEN r.stop ELSE NoPrice,
     reduceOnly |-> r.reduceOnly \/ r.intent \in {"COVER", "CLOSE"},
     makerOnly |-> r.makerOnly, takerOnly |-> r.takerOnly \/ r.mode = "MARKET",
     status |-> "WORKING", system |-> FALSE]

ExecutionPrice(side) == IF side = "BUY" THEN Mark + HalfSpread ELSE Mark - HalfSpread

Marketable(o) ==
    o.price # NoPrice =>
        IF o.side = "BUY" THEN o.price >= ExecutionPrice("BUY")
                          ELSE o.price <= ExecutionPrice("SELL")

\* The order ends or waits without a fill, and the command returns at once.
Record(o, verdict) ==
    /\ orders' = Append(orders, [o EXCEPT !.status = verdict])
    /\ call' = Ready
    /\ UNCHANGED bookVars

\* A flat account has nothing to close; a maker-only order would take.
RejectNew(o) ==
    /\ \/ o.qty = 0
       \/ o.stop = NoPrice /\ o.makerOnly /\ Marketable(o)
    /\ Record(o, "REJECTED")

ParkStop(o) == o.qty # 0 /\ o.stop # NoPrice /\ Record(o, "WORKING")

\* A taker-only order never rests.
CancelNew(o) ==
    /\ o.qty # 0 /\ o.stop = NoPrice /\ o.takerOnly /\ ~Marketable(o)
    /\ Record(o, "CANCELED")

\* Mutation: the risk check after a fill is left to the next advance.
AfterPlacement_noRisk == Ready

AfterPlacement == [Ready EXCEPT !.at = "risk"]

TakeNow(o) ==
    LET result == FillOrder(o, ExecutionPrice(o.side), TakerFee)
    IN  /\ o.qty # 0 /\ o.stop = NoPrice /\ ~o.makerOnly /\ Marketable(o)
        /\ orders' = Append(orders, result.order)
        /\ Book(result)
        /\ call' = AfterPlacement

Rest(o) ==
    /\ o.qty # 0 /\ o.stop = NoPrice /\ ~o.takerOnly /\ ~Marketable(o)
    /\ orders' = Append(orders, o)
    /\ call' = AfterPlacement
    /\ UNCHANGED bookVars

SubmitOrder(r) ==
    LET o == NewOrder(r)
    IN  /\ call.at = "ready"
        /\ status = "ACTIVE"
        /\ ValidRequest(r)
        /\ Len(orders) < MaxOrders
        /\ RejectNew(o) \/ ParkStop(o) \/ CancelNew(o) \/ TakeNow(o) \/ Rest(o)
        /\ UNCHANGED <<cursor, status, leverage, riskVars>>

\* SetLeverage. A setting the account cannot carry is rolled back.
SetLeverage(lev) ==
    /\ call.at = "ready"
    /\ status = "ACTIVE"
    /\ lev \in 1..MaxLeverage
    /\ Equity - InitialMargin(position, lev) >= 0
    /\ leverage' = lev
    /\ UNCHANGED <<cursor, status, bookVars, riskVars, orders, call>>

-----------------------------------------------------------------------------
\* Advance. The branch for a cursor that is already at the end when a turn
\* starts cannot be taken: reaching the end completes the run.

Advance(steps) ==
    /\ call.at = "ready"
    /\ status = "ACTIVE"
    /\ call' = [Ready EXCEPT !.at = "reveal", !.advancing = TRUE, !.steps = steps]
    /\ UNCHANGED <<cursor, status, leverage, bookVars, riskVars, orders>>

\* A turn of the loop reveals the next price before anything else.
Reveal ==
    /\ call.at = "reveal"
    /\ cursor' = cursor + 1
    /\ call' = [call EXCEPT !.at = "orders", !.steps = @ - 1, !.index = 1]
    /\ UNCHANGED <<status, leverage, bookVars, riskVars, orders>>

Triggered(o) ==
    /\ o.stop # NoPrice
    /\ \/ o.side = "SELL" /\ Mark <= o.stop
       \/ o.side = "BUY" /\ Mark >= o.stop

Crossed(o) ==
    /\ o.stop = NoPrice /\ o.price # NoPrice
    /\ \/ o.side = "BUY" /\ Mark <= o.price
       \/ o.side = "SELL" /\ Mark >= o.price

\* Mutation: the loop does not skip orders that are done.
Pending_any(o) == TRUE

Pending(o) == o.status = "WORKING"

\* processWorkingOrders, one order.
ProcessOrder ==
    LET o == orders[call.index]
        result == IF ~Pending(o) THEN Unfilled(o, o.status)
                  ELSE IF Triggered(o) THEN FillOrder(o, ExecutionPrice(o.side), TakerFee)
                  ELSE IF Crossed(o) THEN FillOrder(o, o.price, MakerFee)
                  ELSE Unfilled(o, o.status)
    IN  /\ call.at = "orders"
        /\ call.index <= Len(orders)
        /\ orders' = [orders EXCEPT ![call.index] = result.order]
        /\ Book(result)
        /\ call' = [call EXCEPT !.index = @ + 1]
        /\ UNCHANGED <<cursor, status, leverage, riskVars>>

OrdersDone ==
    /\ call.at = "orders"
    /\ call.index > Len(orders)
    /\ call' = [call EXCEPT !.at = "risk", !.index = 0]
    /\ UNCHANGED <<cursor, status, leverage, bookVars, riskVars, orders>>

-----------------------------------------------------------------------------
\* updateRisk and what follows it.

\* Mutation: nothing is canceled.
CancelWorking_none(seq) == seq

CancelWorking(seq) ==
    [i \in DOMAIN seq |->
        IF seq[i].status = "WORKING" THEN [seq[i] EXCEPT !.status = "CANCELED"]
                                     ELSE seq[i]]

MarkRisk ==
    LET top == MaxOf(peak, Equity)
    IN  /\ peak' = top
        /\ drawdown' = MaxOf(drawdown, top - Equity)

Solvent == Equity > MaintenanceMargin \/ position = 0

PathEnded == cursor >= Len(Prices)

\* The account is solvent; the loop of Advance goes on, completes or ends.
RiskHolds ==
    /\ call.at = "risk"
    /\ Solvent
    /\ MarkRisk
    /\ IF call.advancing /\ PathEnded
       THEN /\ status' = "COMPLETED"
            /\ orders' = CancelWorking(orders)
            /\ call' = Ready
       ELSE /\ call' = IF call.steps > 0 THEN [call EXCEPT !.at = "reveal"] ELSE Ready
            /\ UNCHANGED <<status, orders>>
    /\ UNCHANGED <<cursor, leverage, bookVars>>

\* The system order that closes the whole position.
LiquidationOrder ==
    [side |-> IF position < 0 THEN "BUY" ELSE "SELL", qty |-> AbsOf(position),
     filled |-> 0, price |-> NoPrice, stop |-> NoPrice, reduceOnly |-> TRUE,
     makerOnly |-> FALSE, takerOnly |-> TRUE, status |-> "WORKING", system |-> TRUE]

Liquidate ==
    LET o == LiquidationOrder
        result == FillOrder(o, ExecutionPrice(o.side), TakerFee)
    IN  /\ call.at = "risk"
        /\ ~Solvent
        /\ MarkRisk
        /\ orders' = Append(CancelWorking(orders), result.order)
        /\ Book(result)
        /\ status' = "LIQUIDATED"
        /\ call' = Ready
        /\ UNCHANGED <<cursor, leverage>>

Next ==
    \/ \E r \in Request : SubmitOrder(r)
    \/ \E lev \in 1..MaxLeverage : SetLeverage(lev)
    \/ \E steps \in 1..MaxSteps : Advance(steps)
    \/ Reveal
    \/ ProcessOrder
    \/ OrdersDone
    \/ RiskHolds
    \/ Liquidate

Spec == Init /\ [][Next]_vars

-----------------------------------------------------------------------------
(***************************************************************************)
(* Properties                                                              *)
(***************************************************************************)

SignedFill(o) == IF o.side = "BUY" THEN o.filled ELSE -o.filled

\* The position is the signed sum of what the orders say was filled, through
\* partial reduce-only fills, reversals and liquidation.
PositionIsFills ==
    position = SumOf([i \in DOMAIN orders |-> SignedFill(orders[i])])

LowestFill == Min({Prices[i] : i \in DOMAIN Prices}) - HalfSpread
HighestFill == Max({Prices[i] : i \in DOMAIN Prices}) + HalfSpread

\* There is an entry price exactly while a position is open.
EntryIffOpen == entry = NoPrice <=> position = 0

\* However fills are averaged, closed and reversed, the entry price stays in
\* the range of prices at which a fill can happen.
EntryInRange == entry # NoPrice => LowestFill <= entry /\ entry <= HighestFill

\* Between commands an active run is solvent and its risk figures are current:
\* no order, leverage change or advance leaves an account at or below
\* maintenance, equity above the peak, or a drawdown that was not recorded.
RiskCurrent ==
    call.at = "ready" /\ status = "ACTIVE" =>
        /\ Solvent
        /\ Equity <= peak
        /\ peak - Equity <= drawdown

\* A run that ended has no working order left; liquidation left no position,
\* and only the end of the path completes a run.
EndedRunsQuiet ==
    status # "ACTIVE" =>
        /\ call.at = "ready"
        /\ \A i \in DOMAIN orders : orders[i].status # "WORKING"
        /\ status = "LIQUIDATED" => position = 0
        /\ status = "COMPLETED" => cursor = Len(Prices)

\* No terminal order is filled, revived or edited later.
TerminalOrdersFrozen ==
    [][\A i \in DOMAIN orders :
          /\ i \in DOMAIN orders'
          /\ orders[i].status # "WORKING" => orders'[i] = orders[i]]_vars

FilledNow(i) ==
    orders'[i].filled - (IF i \in DOMAIN orders THEN orders[i].filled ELSE 0)

\* A reduce-only order fills against the position there is at that moment: it
\* takes exactly what it fills off the position and never crosses zero.
ReduceOnlyReduces ==
    [][\A i \in DOMAIN orders' :
          orders'[i].reduceOnly /\ FilledNow(i) > 0 =>
              /\ AbsOf(position') = AbsOf(position) - FilledNow(i)
              /\ position' # 0 => SignOf(position') = SignOf(position)]_vars

\* A step that opens or increases exposure leaves the initial margin of the new
\* position covered by the equity that the next snapshot shows, fee and spread
\* included.
ExposureCovered ==
    [][CreatesOrIncreasesExposure(position, position') =>
          InitialMargin(position, leverage)' <= Equity']_vars

\* What the recorded fills paid and received, in units of 1/Unit.
Proceeds(o) == IF o.filled > 0 THEN -(SignedFill(o) * o.price) ELSE 0
CashFromFills == SumOf([i \in DOMAIN orders |-> Proceeds(orders[i])])

\* The quantity and the number of the fills so far.
Fills(o) == IF o.filled > 0 THEN 1 ELSE 0
Traded == SumOf([i \in DOMAIN orders |-> orders[i].filled])
FillCount == SumOf([i \in DOMAIN orders |-> Fills(orders[i])])

\* Equity reconciles with what the fills paid and received, less fees, plus the
\* position at the mark, up to what rounding can lose: less than one price atom
\* per unit held when an entry is averaged, less than one atom of money when a
\* profit is computed. No sequence of fills makes the error grow faster.
EquityReconciles ==
    call.at = "ready" =>
        AbsOf((Equity - StartingEquity + fees) * Unit - CashFromFills - position * Mark)
            <= FillCount * (Traded + Unit)

\* The account is the sum of its fills: position, entry price and equity can be
\* computed again from the orders, however fills averaged, reversed, were cut
\* down by reduce-only or forced by liquidation.
FillsAccounted == PositionIsFills /\ EntryInRange /\ EquityReconciles

\* Every account is well formed between and inside commands, and a run that has
\* ended leaves nothing open.
AccountSound == PracticeTypeOK /\ EntryIffOpen /\ EndedRunsQuiet

=============================================================================
