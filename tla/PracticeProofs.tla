--------------------------- MODULE PracticeProofs ---------------------------
(***************************************************************************)
(* Proofs about Practice for every price path, fee schedule, set of        *)
(* requests and number of orders.                                          *)
(***************************************************************************)
EXTENDS Practice, SequenceTheorems, WellFoundedInduction, TLAPS

\* A liquidation order never waits: every working order is the player's, so
\* the margin check of fillOrder applies to it.
WorkingIsPlayers ==
    \A i \in DOMAIN orders : orders[i].status = "WORKING" => ~orders[i].system

\* Where a command may stand. The end of the path is seen as soon as it is
\* reached, so a turn of Advance always has a price to reveal.
CallConsistent ==
    /\ ~call.advancing => call.steps = 0
    /\ call.at = "reveal" => call.advancing /\ call.steps > 0
    /\ call.at = "orders" => call.advancing /\ call.index > 0
    /\ status = "ACTIVE" /\ (call.at \in {"ready", "reveal"} \/ ~call.advancing)
          => cursor < Len(Prices)

Inv ==
    /\ PracticeTypeOK
    /\ EntryIffOpen
    /\ RiskCurrent
    /\ EndedRunsQuiet
    /\ WorkingIsPlayers
    /\ CallConsistent

-----------------------------------------------------------------------------
\* mulDiv returns an integer for every divisor the code uses.
LEMMA MulDivInt ==
    ASSUME NEW a \in Int, NEW b \in Int, NEW d \in Nat \ {0}
    PROVE  MulDiv(a, b, d) \in Int
<1> DEFINE p == a * b
<1>1. p \in Int
    OBVIOUS
<1>2. p \div d \in Int /\ (-p) \div d \in Int
    BY <1>1
<1> HIDE DEF p
<1>3. (IF p >= 0 THEN p \div d ELSE -((-p) \div d)) \in Int
    BY <1>1, <1>2
<1> QED
    BY <1>3 DEF MulDiv, p

\* The constants as the provers need them.
LEMMA ConstantTypes ==
    /\ StartingEquity \in Nat /\ HalfSpread \in Nat /\ TakerFee \in Nat
    /\ MakerFee \in Nat /\ MaintenanceRate \in Nat
    /\ Unit \in Nat \ {0} /\ Rate \in Nat \ {0}
    /\ \A i \in DOMAIN Prices : Prices[i] \in Nat
    /\ NoPrice \notin Int
    /\ DOMAIN Prices = 1..Len(Prices) /\ Len(Prices) \in Nat
BY PricesAssumption, UnitsAssumption, SMTT(30)

\* The figures of Snapshot are integers.
LEMMA FiguresInt ==
    ASSUME PracticeTypeOK
    PROVE  /\ Mark \in Int
           /\ \A pos \in Int, basis \in Price : UnrealizedAt(pos, basis) \in Int
           /\ Equity \in Int
           /\ \A side \in {"BUY", "SELL"} : ExecutionPrice(side) \in Int
<1>1. Mark \in Int
    BY ConstantTypes DEF PracticeTypeOK, Mark
<1>2. ASSUME NEW pos \in Int, NEW basis \in Price
      PROVE  UnrealizedAt(pos, basis) \in Int
    <2>1. CASE pos = 0 \/ basis = NoPrice
        BY <2>1 DEF UnrealizedAt
    <2>2. CASE ~(pos = 0 \/ basis = NoPrice)
        <3>1. basis \in Int
            BY <2>2 DEF Price
        <3>2. MulDiv(pos, Mark - basis, Unit) \in Int
            BY <1>1, <3>1, MulDivInt, ConstantTypes
        <3> QED
            BY <2>2, <3>2 DEF UnrealizedAt
    <2> QED
        BY <2>1, <2>2
<1>3. Equity \in Int
    BY <1>2, ConstantTypes DEF PracticeTypeOK, Equity
<1>4. \A side \in {"BUY", "SELL"} : ExecutionPrice(side) \in Int
    BY <1>1, ConstantTypes DEF ExecutionPrice
<1> QED
    BY <1>1, <1>2, <1>3, <1>4

\* projectPosition: the position moves by the fill, and it is flat exactly when
\* there is no entry price.
LEMMA ProjectFacts ==
    ASSUME PracticeTypeOK, EntryIffOpen,
           NEW fill \in Int, fill # 0, NEW price \in Int
    PROVE  /\ Project(fill, price).position = position + fill
           /\ Project(fill, price).entry \in Price
           /\ Project(fill, price).realized \in Int
           /\ Project(fill, price).entry = NoPrice <=> position + fill = 0
<1>1. CASE position = 0 \/ SignOf(position) = SignOf(fill)
    <2>1. position + fill # 0 /\ position \in Int
        BY <1>1 DEF SignOf, PracticeTypeOK
    <2>2. AbsOf(position + fill) \in Nat \ {0}
        BY <2>1 DEF AbsOf
    <2>3. (IF entry = NoPrice THEN price ELSE entry) \in Int
        BY DEF PracticeTypeOK, Price
    <2>4. AbsOf(position) \in Int /\ AbsOf(fill) \in Int
        BY <2>1 DEF AbsOf
    <2>5. AveragedEntry(fill, price) \in Int
        <3> DEFINE sum == AbsOf(position) * (IF entry = NoPrice THEN price ELSE entry)
                             + AbsOf(fill) * price
        <3>1. sum \in Int
            <4> DEFINE basis == IF entry = NoPrice THEN price ELSE entry
            <4>1. AbsOf(position) * basis \in Int
                BY <2>3, <2>4
            <4>2. AbsOf(fill) * price \in Int
                BY <2>4
            <4> QED
                BY <4>1, <4>2
        <3>2. AveragedEntry(fill, price) = sum \div AbsOf(position + fill)
            BY DEF AveragedEntry
        <3> HIDE DEF sum
        <3> QED
            BY <3>1, <3>2, <2>2
    <2> QED
        BY <1>1, <2>1, <2>5, ConstantTypes DEF Project, PracticeTypeOK, Price
<1>2. CASE ~(position = 0 \/ SignOf(position) = SignOf(fill))
    <2>1. position \in Int /\ position # 0 /\ entry # NoPrice /\ entry \in Int
        BY <1>2 DEF PracticeTypeOK, EntryIffOpen, Price
    <2>2. RealizedByClosing(fill, price) \in Int
        <3> DEFINE side == IF position < 0 THEN -1 ELSE 1
        <3>1. side * (price - entry) \in Int
            BY <2>1
        <3>2. MinOf(AbsOf(position), AbsOf(fill)) \in Int
            BY <2>1 DEF MinOf, AbsOf
        <3>3. MulDiv(MinOf(AbsOf(position), AbsOf(fill)), side * (price - entry), Unit)
                 \in Int
            BY <3>1, <3>2, MulDivInt, ConstantTypes
        <3>4. RealizedByClosing(fill, price)
                 = realized + MulDiv(MinOf(AbsOf(position), AbsOf(fill)),
                                     side * (price - entry), Unit)
            BY <2>1 DEF RealizedByClosing
        <3> QED
            BY <3>3, <3>4 DEF PracticeTypeOK
    <2>3. /\ EntryAfterClosing(fill, price) \in Price
          /\ EntryAfterClosing(fill, price) = NoPrice <=> position + fill = 0
        BY <2>1, ConstantTypes DEF EntryAfterClosing, Price
    <2> QED
        BY <1>2, <2>2, <2>3 DEF Project
<1> QED
    BY <1>1, <1>2

\* What a fill writes into its order.
LEMMA FilledFacts ==
    ASSUME NEW o \in Order, NEW q \in Int, NEW price \in Int
    PROVE  LET f == Filled(o, q, price)
           IN  /\ f \in Order
               /\ f.status # "WORKING"
               /\ f.filled = o.filled + q
               /\ f.reduceOnly = o.reduceOnly
<1> DEFINE verdict == IF o.filled + q < o.qty THEN "CANCELED" ELSE "FILLED"
<1>1. verdict \in {"CANCELED", "FILLED"}
    OBVIOUS
<1>2. o.filled + q \in Int /\ price \in Price
    BY DEF Order, Price
<1>3. Filled(o, q, price) = [o EXCEPT !.filled = o.filled + q, !.price = price,
                                      !.status = verdict]
    BY DEF Filled
<1> HIDE DEF verdict
<1> DEFINE total == o.filled + q
<1> HIDE DEF total
<1> DEFINE o1 == [o EXCEPT !.filled = total]
           o2 == [o1 EXCEPT !.price = price]
           o3 == [o2 EXCEPT !.status = verdict]
<1>4. o1 \in Order /\ o1.filled = total /\ o1.reduceOnly = o.reduceOnly
    BY <1>2 DEF Order, total
<1> HIDE DEF o1
<1>5. o2 \in Order /\ o2.filled = total /\ o2.reduceOnly = o.reduceOnly
    BY <1>2, <1>4 DEF Order
<1> HIDE DEF o2
<1>6. /\ o3 \in Order /\ o3.filled = total /\ o3.reduceOnly = o.reduceOnly
      /\ o3.status # "WORKING"
    BY <1>1, <1>5 DEF Order
<1>7. Filled(o, q, price) = o3
    BY <1>3 DEF o1, o2, total
<1> QED
    BY <1>6, <1>7 DEF total

\* fillOrder ends the order it works on and leaves an account of the right
\* types that has an entry price exactly when it has a position.
LEMMA FillOrderFacts ==
    ASSUME PracticeTypeOK, EntryIffOpen,
           NEW o \in Order, NEW price \in Int, NEW feeRate \in Int
    PROVE  LET r == FillOrder(o, price, feeRate)
           IN  /\ r.order \in Order
               /\ r.order.status # "WORKING"
               /\ r.position \in Int
               /\ r.entry \in Price
               /\ r.realized \in Int
               /\ r.fees \in Int
               /\ r.entry = NoPrice <=> r.position = 0
<1> DEFINE q   == FillQuantity(o)
           sq  == IF o.side = "BUY" THEN q ELSE -q
           p   == Project(sq, price)
           fee == MulDiv(MulDiv(q, price, Unit), feeRate, Rate)
           r   == FillOrder(o, price, feeRate)
<1>1. q \in Int
    BY DEF FillQuantity, MaxOf, MinOf, PracticeTypeOK, Order
<1>2. fee \in Int
    <2>1. MulDiv(q, price, Unit) \in Int
        BY <1>1, MulDivInt, ConstantTypes
    <2> QED
        BY <2>1, MulDivInt, ConstantTypes
<1>3. ASSUME NEW verdict \in {"CANCELED", "REJECTED"}, r = Unfilled(o, verdict)
      PROVE  /\ r.order \in Order
             /\ r.order.status # "WORKING"
             /\ r.position \in Int
             /\ r.entry \in Price
             /\ r.realized \in Int
             /\ r.fees \in Int
             /\ r.entry = NoPrice <=> r.position = 0
    <2>1. /\ [o EXCEPT !.status = verdict] \in Order
          /\ [o EXCEPT !.status = verdict].status = verdict
        BY DEF Order
    <2> HIDE DEF r, p, fee, sq, q
    <2> QED
        BY <1>3, <2>1 DEF Unfilled, PracticeTypeOK, EntryIffOpen
<1>4. ASSUME q # 0,
             r = [order |-> Filled(o, q, price), position |-> p.position,
                  entry |-> p.entry, realized |-> p.realized, fees |-> fees + fee]
      PROVE  /\ r.order \in Order
             /\ r.order.status # "WORKING"
             /\ r.position \in Int
             /\ r.entry \in Price
             /\ r.realized \in Int
             /\ r.fees \in Int
             /\ r.entry = NoPrice <=> r.position = 0
    <2>1. Filled(o, q, price) \in Order /\ Filled(o, q, price).status # "WORKING"
        BY <1>1, FilledFacts
    <2>2. sq \in Int /\ sq # 0
        BY <1>1, <1>4
    <2>3. /\ p.position = position + sq
          /\ p.entry \in Price
          /\ p.realized \in Int
          /\ p.entry = NoPrice <=> position + sq = 0
        BY <2>2, ProjectFacts
    <2> HIDE DEF sq, q, p, fee, r
    <2> QED
        BY <1>2, <1>4, <2>1, <2>2, <2>3 DEF PracticeTypeOK
<1>5. \/ r = Unfilled(o, "CANCELED")
      \/ r = Unfilled(o, "REJECTED")
      \/ /\ q # 0
         /\ r = [order |-> Filled(o, q, price), position |-> p.position,
                 entry |-> p.entry, realized |-> p.realized, fees |-> fees + fee]
    BY DEF FillOrder
<1> HIDE DEF r
<1> QED
    BY <1>3, <1>4, <1>5 DEF r

\* resolveIntent and the fields SubmitOrder fills in: a new order is unfilled
\* and the player's.
LEMMA NewOrderFacts ==
    ASSUME PracticeTypeOK, NEW r \in Request, ValidRequest(r)
    PROVE  /\ NewOrder(r) \in Order
           /\ NewOrder(r).filled = 0
           /\ ~NewOrder(r).system
<1>1. /\ r.intent \in Intent /\ r.qty \in Int /\ r.qty > 0
      /\ r.mode \in PriceMode /\ r.stop \in Int
      /\ r.reduceOnly \in BOOLEAN /\ r.makerOnly \in BOOLEAN /\ r.takerOnly \in BOOLEAN
    BY RequestAssumption DEF ValidRequest
<1>2. ResolvedSide(r.intent) \in {"BUY", "SELL"}
    BY <1>1 DEF ResolvedSide, Intent
<1>3. ResolvedQuantity(r) \in Int
    <2>1. AbsOf(position) \in Int
        BY DEF AbsOf, PracticeTypeOK
    <2> QED
        BY <1>1, <2>1 DEF ResolvedQuantity
<1>4. PriceForMode(r.mode) \in Price
    BY <1>1, FiguresInt, ConstantTypes DEF PriceForMode, PriceMode, Price
<1>5. (IF r.mode = "STOP" THEN r.stop ELSE NoPrice) \in Price
    BY <1>1 DEF Price
<1>6. /\ (r.reduceOnly \/ r.intent \in {"COVER", "CLOSE"}) \in BOOLEAN
      /\ (r.takerOnly \/ r.mode = "MARKET") \in BOOLEAN
    BY <1>1
<1> QED
    BY <1>1, <1>2, <1>3, <1>4, <1>5, <1>6 DEF NewOrder, Order

\* cancelWorkingOrders leaves no working order and touches no other.
LEMMA CancelWorkingFacts ==
    ASSUME NEW seq \in Seq(Order)
    PROVE  /\ CancelWorking(seq) \in Seq(Order)
           /\ Len(CancelWorking(seq)) = Len(seq)
           /\ \A i \in 1..Len(seq) :
                 /\ CancelWorking(seq)[i].status # "WORKING"
                 /\ seq[i].status # "WORKING" => CancelWorking(seq)[i] = seq[i]
                 /\ CancelWorking(seq)[i].filled = seq[i].filled
<1> DEFINE C(i) == IF seq[i].status = "WORKING" THEN [seq[i] EXCEPT !.status = "CANCELED"]
                                                ELSE seq[i]
<1>1. /\ DOMAIN seq = 1..Len(seq)
      /\ Len(seq) \in Nat
      /\ \A i \in 1..Len(seq) : seq[i] \in Order
    BY LenProperties, ElementOfSeq
<1>2. ASSUME NEW i \in 1..Len(seq)
      PROVE  /\ C(i) \in Order
             /\ C(i).status # "WORKING"
             /\ seq[i].status # "WORKING" => C(i) = seq[i]
             /\ C(i).filled = seq[i].filled
    <2>1. seq[i] \in Order
        BY <1>1
    <2> DEFINE o == seq[i]
    <2> HIDE DEF o
    <2>2. /\ [o EXCEPT !.status = "CANCELED"] \in Order
          /\ [o EXCEPT !.status = "CANCELED"].status = "CANCELED"
          /\ [o EXCEPT !.status = "CANCELED"].filled = o.filled
        BY <2>1 DEF Order, o
    <2> QED
        BY <2>1, <2>2 DEF o
<1> HIDE DEF C
<1>3. CancelWorking(seq) = [i \in 1..Len(seq) |-> C(i)]
    BY <1>1 DEF CancelWorking, C
<1>4. [i \in 1..Len(seq) |-> C(i)] \in [1..Len(seq) -> Order]
    BY <1>2
<1>5. CancelWorking(seq) \in Seq(Order)
    BY <1>1, <1>3, <1>4, SeqDef
<1>6. Len(CancelWorking(seq)) = Len(seq)
    BY <1>1, <1>3, <1>5, LenProperties
<1> QED
    BY <1>2, <1>3, <1>5, <1>6

\* The value of call between commands.
LEMMA ReadyFacts ==
    /\ Ready \in Call
    /\ Ready.at = "ready" /\ Ready.advancing = FALSE /\ Ready.steps = 0
BY UnitsAssumption DEF Ready, Call

\* Equity and solvency move only with the price and the account.
LEMMA FiguresStable ==
    ASSUME UNCHANGED <<cursor, bookVars>>
    PROVE  /\ Equity' = Equity
           /\ Solvent' <=> Solvent
<1>1. Mark' = Mark
    BY DEF Mark
<1>2. UnrealizedAt(position, entry)' = UnrealizedAt(position, entry)
    BY <1>1 DEF bookVars, UnrealizedAt, MulDiv
<1>3. MaintenanceMargin' = MaintenanceMargin
    BY <1>1 DEF bookVars, MaintenanceMargin, NotionalOf, AbsOf, MulDiv
<1>4. Equity' = Equity
    BY <1>2 DEF bookVars, Equity
<1> QED
    BY <1>3, <1>4 DEF Solvent, bookVars

-----------------------------------------------------------------------------
\* SubmitOrder, in each of its five endings.
LEMMA SubmitOrderKeeps ==
    ASSUME Inv, NEW r \in Request, SubmitOrder(r)
    PROVE  Inv'
<1> USE DEF Inv
<1> DEFINE o == NewOrder(r)
<1>1. o \in Order /\ ~o.system
    BY NewOrderFacts DEF SubmitOrder
<1>2. /\ status = "ACTIVE" /\ call.at = "ready" /\ cursor < Len(Prices)
      /\ UNCHANGED <<cursor, status, leverage, peak, drawdown>>
    BY DEF SubmitOrder, CallConsistent, riskVars
<1> HIDE DEF o
<1>3. ASSUME NEW e \in Order, orders' = Append(orders, e),
             e.status = "WORKING" => ~e.system
      PROVE  orders' \in Seq(Order) /\ WorkingIsPlayers'
    <2>1. /\ orders' \in Seq(Order)
          /\ Len(orders') = Len(orders) + 1
          /\ \A i \in 1..Len(orders) : orders'[i] = orders[i]
          /\ orders'[Len(orders) + 1] = e
        BY <1>3, AppendProperties DEF PracticeTypeOK
    <2>2. DOMAIN orders' = 1..(Len(orders) + 1) /\ DOMAIN orders = 1..Len(orders)
          /\ Len(orders) \in Nat
        BY <2>1, LenProperties DEF PracticeTypeOK
    <2> QED
        BY <1>3, <2>1, <2>2 DEF WorkingIsPlayers
<1>4. ASSUME NEW verdict \in {"WORKING", "CANCELED", "REJECTED"}, Record(o, verdict)
      PROVE  Inv'
    <2> DEFINE e == [o EXCEPT !.status = verdict]
    <2>1. e \in Order /\ ~e.system
        BY <1>1 DEF Order
    <2>2. orders' = Append(orders, e) /\ call' = Ready /\ UNCHANGED bookVars
        BY <1>4 DEF Record
    <2> HIDE DEF e
    <2>3. orders' \in Seq(Order) /\ WorkingIsPlayers'
        BY <1>1, <1>3, <1>4, <2>1, <2>2
    <2>4. PracticeTypeOK' /\ EntryIffOpen'
        BY <1>2, <2>2, <2>3, UnitsAssumption
        DEF PracticeTypeOK, EntryIffOpen, bookVars, Ready, Call
    <2>5. RiskCurrent'
        BY <1>2, <2>2, FiguresStable DEF RiskCurrent
    <2>6. EndedRunsQuiet' /\ CallConsistent'
        BY <1>2, <2>2 DEF EndedRunsQuiet, CallConsistent, Ready
    <2> QED
        BY <2>3, <2>4, <2>5, <2>6
<1>5. CASE RejectNew(o)
    BY <1>4, <1>5 DEF RejectNew
<1>6. CASE ParkStop(o)
    BY <1>4, <1>6 DEF ParkStop
<1>7. CASE CancelNew(o)
    BY <1>4, <1>7 DEF CancelNew
<1>8. ASSUME NEW e \in Order, orders' = Append(orders, e),
             e.status = "WORKING" => ~e.system,
             position' \in Int, entry' \in Price, realized' \in Int, fees' \in Int,
             EntryIffOpen', call' = AfterPlacement
      PROVE  Inv'
    <2>1. orders' \in Seq(Order) /\ WorkingIsPlayers'
        BY <1>3, <1>8
    <2>2. /\ call'.at = "risk" /\ call'.advancing = FALSE /\ call'.steps = 0
          /\ call' \in Call
        BY <1>8, ReadyFacts DEF AfterPlacement, Call
    <2>3. PracticeTypeOK'
        BY <1>2, <1>8, <2>1, <2>2 DEF PracticeTypeOK
    <2>4. RiskCurrent' /\ EndedRunsQuiet' /\ CallConsistent'
        BY <1>2, <2>2 DEF RiskCurrent, EndedRunsQuiet, CallConsistent
    <2> QED
        BY <1>8, <2>1, <2>3, <2>4
<1>9. CASE TakeNow(o)
    <2> DEFINE result == FillOrder(o, ExecutionPrice(o.side), TakerFee)
    <2>1. ExecutionPrice(o.side) \in Int
        BY <1>1, FiguresInt DEF Order
    <2>2. /\ result.order \in Order
          /\ result.order.status # "WORKING"
          /\ result.position \in Int
          /\ result.entry \in Price
          /\ result.realized \in Int
          /\ result.fees \in Int
          /\ result.entry = NoPrice <=> result.position = 0
        BY <1>1, <2>1, FillOrderFacts, ConstantTypes
    <2>3. /\ orders' = Append(orders, result.order) /\ call' = AfterPlacement
          /\ position' = result.position /\ entry' = result.entry
          /\ realized' = result.realized /\ fees' = result.fees
        BY <1>9 DEF TakeNow, Book
    <2> HIDE DEF result
    <2> QED
        BY <1>8, <2>2, <2>3 DEF EntryIffOpen
<1>10. CASE Rest(o)
    <2>1. /\ orders' = Append(orders, o) /\ call' = AfterPlacement
          /\ UNCHANGED bookVars
        BY <1>10 DEF Rest
    <2>2. /\ position' \in Int /\ entry' \in Price /\ realized' \in Int /\ fees' \in Int
          /\ EntryIffOpen'
        BY <2>1 DEF PracticeTypeOK, EntryIffOpen, bookVars
    <2> QED
        BY <1>1, <1>8, <2>1, <2>2
<1> QED
    BY <1>5, <1>6, <1>7, <1>9, <1>10 DEF SubmitOrder, o

\* SetLeverage changes nothing the risk figures depend on.
LEMMA SetLeverageKeeps ==
    ASSUME Inv, NEW lev \in 1..MaxLeverage, SetLeverage(lev)
    PROVE  Inv'
<1> USE DEF Inv
<1>1. /\ leverage' \in 1..MaxLeverage
      /\ UNCHANGED <<cursor, status, position, entry, realized, fees, peak, drawdown,
                     orders, call>>
    BY DEF SetLeverage, bookVars, riskVars
<1>2. PracticeTypeOK' /\ EntryIffOpen' /\ EndedRunsQuiet' /\ WorkingIsPlayers' /\ CallConsistent'
    BY <1>1 DEF PracticeTypeOK, EntryIffOpen, EndedRunsQuiet, WorkingIsPlayers, CallConsistent
<1>3. RiskCurrent'
    BY <1>1, FiguresStable DEF RiskCurrent, bookVars
<1> QED
    BY <1>2, <1>3

\* Advance starts with a price left to reveal.
LEMMA AdvanceKeeps ==
    ASSUME Inv, NEW steps \in 1..MaxSteps, Advance(steps)
    PROVE  Inv'
<1> USE DEF Inv
<1>1. /\ status = "ACTIVE" /\ call.at = "ready"
      /\ UNCHANGED <<cursor, status, leverage, position, entry, realized, fees, peak,
                     drawdown, orders>>
      /\ call' = [Ready EXCEPT !.at = "reveal", !.advancing = TRUE, !.steps = steps]
    BY DEF Advance, bookVars, riskVars
<1>2. /\ call' \in Call
      /\ call'.at = "reveal" /\ call'.advancing = TRUE /\ call'.steps = steps
    <2> DEFINE c1 == [Ready EXCEPT !.at = "reveal"]
               c2 == [c1 EXCEPT !.advancing = TRUE]
               c3 == [c2 EXCEPT !.steps = steps]
    <2>1. c1 \in Call /\ c1.at = "reveal"
        BY ReadyFacts DEF Call
    <2> HIDE DEF c1
    <2>2. c2 \in Call /\ c2.at = "reveal" /\ c2.advancing = TRUE
        BY <2>1 DEF Call
    <2> HIDE DEF c2
    <2>3. c3 \in Call /\ c3.at = "reveal" /\ c3.advancing = TRUE /\ c3.steps = steps
        BY <2>2, UnitsAssumption DEF Call
    <2>4. call' = c3
        BY <1>1 DEF c1, c2
    <2> QED
        BY <2>3, <2>4
<1>3. PracticeTypeOK' /\ EntryIffOpen' /\ WorkingIsPlayers'
    BY <1>1, <1>2 DEF PracticeTypeOK, EntryIffOpen, WorkingIsPlayers
<1>4. RiskCurrent' /\ EndedRunsQuiet' /\ CallConsistent'
    BY <1>1, <1>2 DEF RiskCurrent, EndedRunsQuiet, CallConsistent
<1> QED
    BY <1>3, <1>4

\* A turn of the loop never reads past the end of the path.
LEMMA RevealKeeps ==
    ASSUME Inv, Reveal
    PROVE  Inv'
<1> USE DEF Inv
<1>1. /\ status = "ACTIVE" /\ call.at = "reveal" /\ call.advancing /\ call.steps > 0
      /\ cursor < Len(Prices) /\ call \in Call
    BY DEF Reveal, EndedRunsQuiet, CallConsistent, PracticeTypeOK
<1>2. /\ cursor' = cursor + 1
      /\ UNCHANGED <<status, leverage, position, entry, realized, fees, peak, drawdown,
                     orders>>
    BY DEF Reveal, bookVars, riskVars
<1>3. /\ call'.at = "orders" /\ call'.advancing /\ call'.index = 1 /\ call' \in Call
    <2> DEFINE c1 == [call EXCEPT !.at = "orders"]
               c2 == [c1 EXCEPT !.steps = call.steps - 1]
               c3 == [c2 EXCEPT !.index = 1]
    <2>1. call.steps - 1 \in 0..MaxSteps
        BY <1>1, UnitsAssumption DEF Call
    <2>2. c1 \in Call /\ c1.at = "orders" /\ c1.advancing
        BY <1>1 DEF Call
    <2> HIDE DEF c1
    <2>3. c2 \in Call /\ c2.at = "orders" /\ c2.advancing
        BY <2>1, <2>2 DEF Call
    <2> HIDE DEF c2
    <2>4. c3 \in Call /\ c3.at = "orders" /\ c3.advancing /\ c3.index = 1
        BY <2>3 DEF Call
    <2>5. call' = c3
        BY DEF Reveal, c1, c2
    <2> QED
        BY <2>4, <2>5
<1>4. PracticeTypeOK' /\ EntryIffOpen' /\ WorkingIsPlayers'
    BY <1>1, <1>2, <1>3, ConstantTypes DEF PracticeTypeOK, EntryIffOpen, WorkingIsPlayers
<1>5. RiskCurrent' /\ EndedRunsQuiet' /\ CallConsistent'
    BY <1>1, <1>2, <1>3 DEF RiskCurrent, EndedRunsQuiet, CallConsistent
<1> QED
    BY <1>4, <1>5

\* processWorkingOrders: an order that is done is left alone, a working one is
\* left alone or filled.
LEMMA ProcessOrderKeeps ==
    ASSUME Inv, ProcessOrder
    PROVE  Inv'
<1> USE DEF Inv
<1> DEFINE i == call.index
           o == orders[i]
           result == IF ~Pending(o) THEN Unfilled(o, o.status)
                     ELSE IF Triggered(o) THEN FillOrder(o, ExecutionPrice(o.side), TakerFee)
                     ELSE IF Crossed(o) THEN FillOrder(o, o.price, MakerFee)
                     ELSE Unfilled(o, o.status)
<1>1. /\ status = "ACTIVE" /\ call.at = "orders" /\ call.advancing /\ call \in Call
      /\ i \in 1..Len(orders) /\ o \in Order
      /\ orders \in Seq(Order) /\ DOMAIN orders = 1..Len(orders) /\ Len(orders) \in Nat
    <2>1. call.at = "orders" /\ i <= Len(orders)
        BY DEF ProcessOrder
    <2>2. /\ status = "ACTIVE" /\ call.advancing /\ i > 0 /\ i \in Nat
          /\ call \in Call /\ orders \in Seq(Order)
        BY <2>1 DEF EndedRunsQuiet, CallConsistent, PracticeTypeOK, Call
    <2>3. DOMAIN orders = 1..Len(orders) /\ Len(orders) \in Nat
        BY <2>2, LenProperties
    <2>4. i \in 1..Len(orders)
        BY <2>1, <2>2, <2>3
    <2> QED
        BY <2>1, <2>2, <2>3, <2>4, ElementOfSeq
<1>2. /\ UNCHANGED <<cursor, status, leverage, peak, drawdown>>
      /\ orders' = [orders EXCEPT ![i] = result.order]
      /\ position' = result.position /\ entry' = result.entry
      /\ realized' = result.realized /\ fees' = result.fees
      /\ call' = [call EXCEPT !.index = i + 1]
    BY DEF ProcessOrder, Book, riskVars
<1>3. /\ result.order \in Order
      /\ result.order = o \/ result.order.status # "WORKING"
      /\ result.position \in Int
      /\ result.entry \in Price
      /\ result.realized \in Int
      /\ result.fees \in Int
      /\ result.entry = NoPrice <=> result.position = 0
    <2> HIDE DEF o
    <2>1. ASSUME result = Unfilled(o, o.status)
          PROVE  /\ result.order \in Order /\ result.order = o
                 /\ result.position \in Int
                 /\ result.entry \in Price
                 /\ result.realized \in Int
                 /\ result.fees \in Int
                 /\ result.entry = NoPrice <=> result.position = 0
        <3>1. [o EXCEPT !.status = o.status] = o
            BY <1>1 DEF Order
        <3> HIDE DEF result
        <3> QED
            BY <1>1, <2>1, <3>1 DEF Unfilled, PracticeTypeOK, EntryIffOpen
    <2>2. CASE result = FillOrder(o, ExecutionPrice(o.side), TakerFee)
        <3>1. ExecutionPrice(o.side) \in Int
            BY <1>1, FiguresInt DEF Order
        <3> HIDE DEF result
        <3> QED
            BY <1>1, <2>2, <3>1, FillOrderFacts, ConstantTypes
    <2>3. CASE result = FillOrder(o, o.price, MakerFee) /\ Crossed(o)
        <3>1. o.price \in Int
            BY <1>1, <2>3 DEF Order, Price, Crossed
        <3> HIDE DEF result
        <3> QED
            BY <1>1, <2>3, <3>1, FillOrderFacts, ConstantTypes
    <2> QED
        BY <2>1, <2>2, <2>3
<1> HIDE DEF result
<1>4. /\ orders' \in Seq(Order) /\ Len(orders') = Len(orders)
      /\ \A j \in 1..Len(orders) : orders'[j] = IF j = i THEN result.order ELSE orders[j]
    BY <1>1, <1>2, <1>3, ExceptSeq
<1>5. DOMAIN orders' = 1..Len(orders)
    BY <1>4, LenProperties
<1>6. WorkingIsPlayers'
    BY <1>1, <1>3, <1>4, <1>5 DEF WorkingIsPlayers
<1>7. /\ call' \in Call /\ call'.at = "orders" /\ call'.advancing /\ call'.index > 0
    BY <1>1, <1>2 DEF Call
<1>8. PracticeTypeOK' /\ EntryIffOpen'
    BY <1>2, <1>3, <1>4, <1>7 DEF PracticeTypeOK, EntryIffOpen
<1>9. RiskCurrent' /\ EndedRunsQuiet' /\ CallConsistent'
    BY <1>1, <1>2, <1>7 DEF RiskCurrent, EndedRunsQuiet, CallConsistent
<1> QED
    BY <1>6, <1>8, <1>9

\* The end of processWorkingOrders.
LEMMA OrdersDoneKeeps ==
    ASSUME Inv, OrdersDone
    PROVE  Inv'
<1> USE DEF Inv
<1>1. /\ status = "ACTIVE" /\ call.at = "orders" /\ call.advancing /\ call \in Call
      /\ UNCHANGED <<cursor, status, leverage, position, entry, realized, fees, peak,
                     drawdown, orders>>
    BY DEF OrdersDone, EndedRunsQuiet, CallConsistent, PracticeTypeOK, bookVars, riskVars
<1>2. call' \in Call /\ call'.at = "risk" /\ call'.advancing
    <2> DEFINE c1 == [call EXCEPT !.at = "risk"]
               c2 == [c1 EXCEPT !.index = 0]
    <2>1. c1 \in Call /\ c1.at = "risk" /\ c1.advancing
        BY <1>1 DEF Call
    <2> HIDE DEF c1
    <2>2. c2 \in Call /\ c2.at = "risk" /\ c2.advancing
        BY <2>1 DEF Call
    <2>3. call' = c2
        BY DEF OrdersDone, c1
    <2> QED
        BY <2>2, <2>3
<1>3. PracticeTypeOK' /\ EntryIffOpen' /\ WorkingIsPlayers'
    BY <1>1, <1>2 DEF PracticeTypeOK, EntryIffOpen, WorkingIsPlayers
<1>4. RiskCurrent' /\ EndedRunsQuiet' /\ CallConsistent'
    BY <1>1, <1>2 DEF RiskCurrent, EndedRunsQuiet, CallConsistent
<1> QED
    BY <1>3, <1>4

\* updateRisk on a solvent account, and the end of the path.
LEMMA RiskHoldsKeeps ==
    ASSUME Inv, RiskHolds
    PROVE  Inv'
<1> USE DEF Inv
<1>1. /\ call.at = "risk" /\ status = "ACTIVE" /\ Solvent /\ call \in Call
      /\ UNCHANGED <<cursor, leverage, position, entry, realized, fees>>
    BY DEF RiskHolds, EndedRunsQuiet, PracticeTypeOK, bookVars
<1>2. Equity \in Int /\ Equity' = Equity /\ Solvent'
    BY <1>1, FiguresInt, FiguresStable DEF bookVars
<1>3. /\ peak' \in Int /\ drawdown' \in Int
      /\ Equity' <= peak' /\ peak' - Equity' <= drawdown'
    BY <1>2 DEF RiskHolds, MarkRisk, MaxOf, PracticeTypeOK
<1>4. EntryIffOpen'
    BY <1>1 DEF EntryIffOpen
<1>5. CASE call.advancing /\ PathEnded
    <2>1. status' = "COMPLETED" /\ orders' = CancelWorking(orders) /\ call' = Ready
        BY <1>5 DEF RiskHolds
    <2>2. /\ orders' \in Seq(Order)
          /\ DOMAIN orders' = 1..Len(orders)
          /\ \A i \in 1..Len(orders) : orders'[i].status # "WORKING"
        BY <2>1, CancelWorkingFacts, LenProperties DEF PracticeTypeOK
    <2>3. PracticeTypeOK'
        BY <1>1, <1>3, <2>1, <2>2, ReadyFacts DEF PracticeTypeOK
    <2>4. cursor' = Len(Prices)
        BY <1>1, <1>5, ConstantTypes DEF PathEnded, PracticeTypeOK
    <2>5. EndedRunsQuiet' /\ WorkingIsPlayers' /\ RiskCurrent' /\ CallConsistent'
        BY <2>1, <2>2, <2>4, ReadyFacts
        DEF EndedRunsQuiet, WorkingIsPlayers, RiskCurrent, CallConsistent
    <2> QED
        BY <1>4, <2>3, <2>5
<1>6. CASE ~(call.advancing /\ PathEnded)
    <2>1. /\ UNCHANGED <<status, orders>>
          /\ call' = IF call.steps > 0 THEN [call EXCEPT !.at = "reveal"] ELSE Ready
        BY <1>6 DEF RiskHolds
    <2>2. cursor < Len(Prices)
        <3>1. CASE call.advancing
            BY <1>6, <3>1, ConstantTypes DEF PathEnded, PracticeTypeOK
        <3>2. CASE ~call.advancing
            BY <1>1, <3>2 DEF CallConsistent
        <3> QED
            BY <3>1, <3>2
    <2>3. /\ call' \in Call
          /\ \/ call'.at = "ready" /\ call'.steps = 0
             \/ call'.at = "reveal" /\ call'.steps > 0 /\ call'.advancing
        <3>1. CASE call.steps > 0
            <4>1. call.advancing
                BY <3>1 DEF CallConsistent
            <4> QED
                BY <1>1, <2>1, <3>1, <4>1 DEF Call
        <3>2. CASE ~(call.steps > 0)
            BY <2>1, <3>2, ReadyFacts
        <3> QED
            BY <3>1, <3>2
    <2>4. PracticeTypeOK' /\ WorkingIsPlayers'
        BY <1>1, <1>3, <2>1, <2>3 DEF PracticeTypeOK, WorkingIsPlayers
    <2>5. RiskCurrent'
        BY <1>2, <1>3 DEF RiskCurrent
    <2>6. EndedRunsQuiet' /\ CallConsistent'
        BY <1>1, <2>1, <2>2, <2>3 DEF EndedRunsQuiet, CallConsistent
    <2> QED
        BY <1>4, <2>4, <2>5, <2>6
<1> QED
    BY <1>5, <1>6

\* updateRisk's liquidation closes the whole position.
LEMMA LiquidateKeeps ==
    ASSUME Inv, Liquidate
    PROVE  Inv'
<1> USE DEF Inv
<1> DEFINE o == LiquidationOrder
           price == ExecutionPrice(o.side)
           result == FillOrder(o, price, TakerFee)
<1>1. /\ call.at = "risk" /\ status = "ACTIVE" /\ position \in Int /\ position # 0
      /\ status' = "LIQUIDATED" /\ call' = Ready
      /\ UNCHANGED <<cursor, leverage>>
    BY DEF Liquidate, EndedRunsQuiet, PracticeTypeOK, Solvent
<1>2. /\ orders' = Append(CancelWorking(orders), result.order)
      /\ position' = result.position /\ entry' = result.entry
      /\ realized' = result.realized /\ fees' = result.fees
    BY DEF Liquidate, Book
<1>3. /\ o \in Order /\ o.filled = 0 /\ o.qty = AbsOf(position) /\ o.reduceOnly = TRUE
      /\ o.system = TRUE /\ o.side = IF position < 0 THEN "BUY" ELSE "SELL"
    <2>1. AbsOf(position) \in Int
        BY <1>1 DEF AbsOf
    <2> QED
        BY <2>1 DEF LiquidationOrder, Order, Price
<1> HIDE DEF o
<1>4. price \in Int
    BY <1>3, FiguresInt
<1>5. /\ result.order \in Order
      /\ result.order.status # "WORKING"
      /\ result.position \in Int
      /\ result.entry \in Price
      /\ result.realized \in Int
      /\ result.fees \in Int
      /\ result.entry = NoPrice <=> result.position = 0
    BY <1>3, <1>4, FillOrderFacts, ConstantTypes
<1>6. result.position = 0
    <2> HIDE DEF price
    <2>1. FillQuantity(o) = AbsOf(position) /\ AbsOf(position) # 0
        BY <1>1, <1>3 DEF FillQuantity, MinOf, MaxOf, AbsOf
    <2> DEFINE sq == IF o.side = "BUY" THEN FillQuantity(o) ELSE -FillQuantity(o)
    <2>2. sq \in Int /\ sq # 0 /\ position + sq = 0
        BY <1>1, <1>3, <2>1 DEF AbsOf
    <2>3. result.position = Project(sq, price).position
        BY <1>3, <2>1 DEF FillOrder
    <2> HIDE DEF sq
    <2>4. Project(sq, price).position = position + sq
        BY <1>4, <2>2, ProjectFacts
    <2> QED
        BY <2>2, <2>3, <2>4
<1> HIDE DEF result
<1>7. /\ orders' \in Seq(Order)
      /\ \A i \in DOMAIN orders' : orders'[i].status # "WORKING"
    <2> DEFINE quiet == CancelWorking(orders)
    <2>1. /\ quiet \in Seq(Order)
          /\ Len(quiet) \in Nat
          /\ \A i \in 1..Len(quiet) : quiet[i].status # "WORKING"
        BY CancelWorkingFacts, LenProperties DEF PracticeTypeOK
    <2> HIDE DEF quiet
    <2>2. /\ orders' \in Seq(Order)
          /\ Len(orders') = Len(quiet) + 1
          /\ \A i \in 1..Len(quiet) : orders'[i] = quiet[i]
          /\ orders'[Len(quiet) + 1] = result.order
        BY <1>2, <1>5, <2>1, AppendProperties DEF quiet
    <2>3. DOMAIN orders' = 1..(Len(quiet) + 1)
        BY <2>2, LenProperties
    <2> QED
        BY <1>5, <2>1, <2>2, <2>3
<1>8. peak' \in Int /\ drawdown' \in Int
    <2>1. Equity \in Int /\ peak \in Int /\ drawdown \in Int
        BY FiguresInt DEF PracticeTypeOK
    <2>2. /\ peak' = MaxOf(peak, Equity)
          /\ drawdown' = MaxOf(drawdown, MaxOf(peak, Equity) - Equity)
        BY DEF Liquidate, MarkRisk
    <2> HIDE DEF Inv
    <2> QED
        BY <2>1, <2>2 DEF MaxOf
<1>9. PracticeTypeOK' /\ EntryIffOpen'
    <2>1. /\ cursor' \in DOMAIN Prices /\ leverage' \in 1..MaxLeverage
          /\ status' \in {"ACTIVE", "COMPLETED", "LIQUIDATED"} /\ call' \in Call
        BY <1>1, <1>2, ReadyFacts DEF PracticeTypeOK
    <2>2. /\ position' \in Int /\ entry' \in Price /\ realized' \in Int /\ fees' \in Int
          /\ entry' = NoPrice <=> position' = 0
        BY <1>2, <1>5
    <2> QED
        BY <1>7, <1>8, <2>1, <2>2 DEF PracticeTypeOK, EntryIffOpen
<1>10. RiskCurrent' /\ EndedRunsQuiet' /\ WorkingIsPlayers' /\ CallConsistent'
    BY <1>1, <1>2, <1>6, <1>7, ReadyFacts
    DEF RiskCurrent, EndedRunsQuiet, WorkingIsPlayers, CallConsistent
<1> QED
    BY <1>9, <1>10

-----------------------------------------------------------------------------
\* A new session satisfies the invariant.
LEMMA InitHolds == Init => Inv
<1> SUFFICES ASSUME Init PROVE Inv
    OBVIOUS
<1>1. /\ cursor = 1 /\ cursor \in DOMAIN Prices /\ cursor < Len(Prices)
      /\ orders = <<>> /\ orders \in Seq(Order) /\ DOMAIN orders = {}
    BY PricesAssumption, ConstantTypes DEF Init
<1>2. PracticeTypeOK /\ EntryIffOpen
    BY <1>1, UnitsAssumption, ReadyFacts DEF Init, PracticeTypeOK, EntryIffOpen, Price
<1>3. Equity = StartingEquity
    BY ConstantTypes DEF Init, Equity, UnrealizedAt
<1>4. RiskCurrent
    BY <1>3, ConstantTypes DEF RiskCurrent, Solvent, Init
<1>5. EndedRunsQuiet /\ WorkingIsPlayers /\ CallConsistent
    BY <1>1, ReadyFacts DEF Init, EndedRunsQuiet, WorkingIsPlayers, CallConsistent
<1> QED
    BY <1>2, <1>4, <1>5 DEF Inv

\* Every step preserves it.
LEMMA NextKeeps == Inv /\ [Next]_vars => Inv'
<1> SUFFICES ASSUME Inv, [Next]_vars PROVE Inv'
    OBVIOUS
<1>1. CASE \E r \in Request : SubmitOrder(r)
    BY <1>1, SubmitOrderKeeps
<1>2. CASE \E lev \in 1..MaxLeverage : SetLeverage(lev)
    BY <1>2, SetLeverageKeeps
<1>3. CASE \E steps \in 1..MaxSteps : Advance(steps)
    BY <1>3, AdvanceKeeps
<1>4. CASE Reveal
    BY <1>4, RevealKeeps
<1>5. CASE ProcessOrder
    BY <1>5, ProcessOrderKeeps
<1>6. CASE OrdersDone
    BY <1>6, OrdersDoneKeeps
<1>7. CASE RiskHolds
    BY <1>7, RiskHoldsKeeps
<1>8. CASE Liquidate
    BY <1>8, LiquidateKeeps
<1>9. CASE UNCHANGED vars
    <2>1. UNCHANGED <<cursor, status, leverage, position, entry, realized, fees, peak,
                      drawdown, orders, call>>
        BY <1>9 DEF vars, bookVars, riskVars
    <2>2. RiskCurrent'
        BY <2>1, FiguresStable DEF Inv, RiskCurrent, bookVars
    <2> QED
        BY <2>1, <2>2 DEF Inv, PracticeTypeOK, EntryIffOpen, EndedRunsQuiet,
                          WorkingIsPlayers, CallConsistent
<1> QED
    BY <1>1, <1>2, <1>3, <1>4, <1>5, <1>6, <1>7, <1>8, <1>9 DEF Next

\* The inductive invariant holds throughout every run.
THEOREM PracticeInvariant == Spec => []Inv
    BY InitHolds, NextKeeps, PTL DEF Spec

\* Every value a session holds has its type; in particular the cursor never
\* leaves the path.
THEOREM PracticeTypeCorrect == Spec => []PracticeTypeOK
<1>1. Inv => PracticeTypeOK
    BY DEF Inv
<1> QED
    BY <1>1, PracticeInvariant, PTL

\* projectPosition keeps an entry price exactly while a position is open.
THEOREM EntryExactlyWhileOpen == Spec => []EntryIffOpen
<1>1. Inv => EntryIffOpen
    BY DEF Inv
<1> QED
    BY <1>1, PracticeInvariant, PTL

\* updateRisk is never skipped: a player between two commands of an active run
\* sees a solvent account and current risk figures.
THEOREM RiskAlwaysCurrent == Spec => []RiskCurrent
<1>1. Inv => RiskCurrent
    BY DEF Inv
<1> QED
    BY <1>1, PracticeInvariant, PTL

\* Completion and liquidation leave nothing working, and liquidation leaves
\* nothing open.
THEOREM EndedRunsStayQuiet == Spec => []EndedRunsQuiet
<1>1. Inv => EndedRunsQuiet
    BY DEF Inv
<1> QED
    BY <1>1, PracticeInvariant, PTL

\* Whatever the path and the requests, a practice account is well formed and an
\* ended run has nothing open.
THEOREM AccountsSound == Spec => []AccountSound
<1>1. PracticeTypeOK /\ EntryIffOpen /\ EndedRunsQuiet => AccountSound
    BY DEF AccountSound
<1> QED
    BY <1>1, PracticeTypeCorrect, EntryExactlyWhileOpen, EndedRunsStayQuiet, PTL

-----------------------------------------------------------------------------
\* What one attempt to fill does to the account: nothing, or a fill that passed
\* the margin check when it added exposure.
LEMMA FillOrderEffect ==
    ASSUME PracticeTypeOK, EntryIffOpen,
           NEW o \in Order, NEW price \in Int, NEW feeRate \in Int
    PROVE  LET r  == FillOrder(o, price, feeRate)
               q  == FillQuantity(o)
               sq == IF o.side = "BUY" THEN q ELSE -q
           IN  /\ r.order.reduceOnly = o.reduceOnly
               /\ \/ r.position = position /\ r.order.filled = o.filled
                  \/ /\ q # 0
                     /\ r.position = position + sq
                     /\ r.order.filled = o.filled + q
                     /\ ~o.system /\ CreatesOrIncreasesExposure(position, r.position) =>
                           InitialMargin(r.position, leverage)
                              <= StartingEquity + r.realized
                                   + UnrealizedAt(r.position, r.entry) - r.fees
<1> DEFINE q   == FillQuantity(o)
           sq  == IF o.side = "BUY" THEN q ELSE -q
           p   == Project(sq, price)
           fee == MulDiv(MulDiv(q, price, Unit), feeRate, Rate)
           r   == FillOrder(o, price, feeRate)
<1>1. q \in Int
    BY DEF FillQuantity, MaxOf, MinOf, PracticeTypeOK, Order
<1>2. fee \in Int
    <2>1. MulDiv(q, price, Unit) \in Int
        BY <1>1, MulDivInt, ConstantTypes
    <2> QED
        BY <2>1, MulDivInt, ConstantTypes
<1>3. ASSUME NEW verdict \in {"CANCELED", "REJECTED"}, r = Unfilled(o, verdict)
      PROVE  /\ r.order.reduceOnly = o.reduceOnly
             /\ r.position = position /\ r.order.filled = o.filled
    <2>1. /\ [o EXCEPT !.status = verdict].reduceOnly = o.reduceOnly
          /\ [o EXCEPT !.status = verdict].filled = o.filled
        BY DEF Order
    <2> HIDE DEF r, p, fee, sq, q
    <2> QED
        BY <1>3, <2>1 DEF Unfilled
<1>4. ASSUME q # 0,
             ~o.system /\ CreatesOrIncreasesExposure(position, p.position) => Affordable(p, fee),
             r = [order |-> Filled(o, q, price), position |-> p.position,
                  entry |-> p.entry, realized |-> p.realized, fees |-> fees + fee]
      PROVE  /\ r.order.reduceOnly = o.reduceOnly
             /\ r.position = position + sq
             /\ r.order.filled = o.filled + q
             /\ ~o.system /\ CreatesOrIncreasesExposure(position, r.position) =>
                   InitialMargin(r.position, leverage)
                      <= StartingEquity + r.realized
                           + UnrealizedAt(r.position, r.entry) - r.fees
    <2>1. /\ Filled(o, q, price).reduceOnly = o.reduceOnly
          /\ Filled(o, q, price).filled = o.filled + q
        BY <1>1, FilledFacts
    <2>2. sq \in Int /\ sq # 0
        BY <1>1, <1>4
    <2>3. /\ p.position = position + sq
          /\ p.realized \in Int
          /\ UnrealizedAt(p.position, p.entry) \in Int
        <3>1. /\ p.position = position + sq /\ p.realized \in Int /\ p.entry \in Price
            BY <2>2, ProjectFacts
        <3>2. position \in Int
            BY DEF PracticeTypeOK
        <3> HIDE DEF p
        <3>3. p.position \in Int
            BY <2>2, <3>1, <3>2
        <3> QED
            BY <3>1, <3>3, FiguresInt
    <2> HIDE DEF sq, q, p, fee, r
    <2>4. /\ r.order = Filled(o, q, price) /\ r.position = p.position
          /\ r.entry = p.entry /\ r.realized = p.realized /\ r.fees = fees + fee
        BY <1>4
    <2>5. StartingEquity + p.realized + UnrealizedAt(p.position, p.entry) - fees - fee
            = StartingEquity + p.realized + UnrealizedAt(p.position, p.entry) - (fees + fee)
        BY <1>2, <2>3, ConstantTypes DEF PracticeTypeOK
    <2> QED
        BY <1>4, <2>1, <2>3, <2>4, <2>5 DEF Affordable
<1>5. \/ r = Unfilled(o, "CANCELED")
      \/ r = Unfilled(o, "REJECTED")
      \/ /\ q # 0
         /\ ~o.system /\ CreatesOrIncreasesExposure(position, p.position) => Affordable(p, fee)
         /\ r = [order |-> Filled(o, q, price), position |-> p.position,
                 entry |-> p.entry, realized |-> p.realized, fees |-> fees + fee]
    BY DEF FillOrder
<1> HIDE DEF r, p, fee
<1> QED
    BY <1>3, <1>4, <1>5 DEF r

\* Every step leaves the position as it is, closes it in a liquidation, or is
\* one fill of a player's order.
LEMMA FillSteps ==
    ASSUME Inv, [Next]_vars
    PROVE  \/ position' = position
           \/ Liquidate
           \/ \E o \in Order, price \in Int, feeRate \in Int :
                 /\ ~o.system
                 /\ Book(FillOrder(o, price, feeRate))
                 /\ UNCHANGED <<cursor, leverage>>
<1> USE DEF Inv
<1>1. ASSUME NEW r \in Request, SubmitOrder(r), position' # position
      PROVE  \E o \in Order, price \in Int, feeRate \in Int :
                 /\ ~o.system
                 /\ Book(FillOrder(o, price, feeRate))
                 /\ UNCHANGED <<cursor, leverage>>
    <2> DEFINE o == NewOrder(r)
    <2>1. o \in Order /\ ~o.system
        BY <1>1, NewOrderFacts DEF SubmitOrder
    <2> HIDE DEF o
    <2>2. TakeNow(o) /\ UNCHANGED <<cursor, leverage>>
        BY <1>1 DEF SubmitOrder, RejectNew, ParkStop, CancelNew, Rest, Record, bookVars, o
    <2>3. ExecutionPrice(o.side) \in Int /\ TakerFee \in Int
        BY <2>1, FiguresInt, ConstantTypes DEF Order
    <2>4. Book(FillOrder(o, ExecutionPrice(o.side), TakerFee))
        BY <2>2 DEF TakeNow
    <2> QED
        BY <2>1, <2>2, <2>3, <2>4
<1>2. ASSUME ProcessOrder, position' # position
      PROVE  \E o \in Order, price \in Int, feeRate \in Int :
                 /\ ~o.system
                 /\ Book(FillOrder(o, price, feeRate))
                 /\ UNCHANGED <<cursor, leverage>>
    <2> DEFINE o == orders[call.index]
    <2>1. call.index \in DOMAIN orders /\ o \in Order
        <3>1. call.at = "orders" /\ call.index <= Len(orders)
            BY <1>2 DEF ProcessOrder
        <3>2. call.index > 0 /\ call.index \in Nat /\ orders \in Seq(Order)
            BY <3>1 DEF CallConsistent, PracticeTypeOK, Call
        <3>3. DOMAIN orders = 1..Len(orders) /\ Len(orders) \in Nat
            BY <3>2, LenProperties
        <3>4. call.index \in 1..Len(orders)
            BY <3>1, <3>2, <3>3
        <3> QED
            BY <3>2, <3>3, <3>4, ElementOfSeq
    <2>2. o.status = "WORKING" => ~o.system
        BY <2>1 DEF WorkingIsPlayers
    <2>3. UNCHANGED <<cursor, leverage>>
        BY <1>2 DEF ProcessOrder
    <2> HIDE DEF o
    <2>4. \/ Pending(o) /\ Book(FillOrder(o, ExecutionPrice(o.side), TakerFee))
          \/ Pending(o) /\ Crossed(o) /\ Book(FillOrder(o, o.price, MakerFee))
          \/ Book(Unfilled(o, o.status))
        BY <1>2 DEF ProcessOrder, o
    <2>5. ~Book(Unfilled(o, o.status))
        BY <1>2 DEF Book, Unfilled
    <2>6. ExecutionPrice(o.side) \in Int /\ TakerFee \in Int /\ MakerFee \in Int
        BY <2>1, FiguresInt, ConstantTypes DEF Order, o
    <2>7. Crossed(o) => o.price \in Int
        BY <2>1 DEF Crossed, Order, Price, o
    <2>8. o \in Order
        BY <2>1 DEF o
    <2> QED
        BY <2>2, <2>3, <2>4, <2>5, <2>6, <2>7, <2>8 DEF Pending
<1>3. ASSUME ~(\E r \in Request : SubmitOrder(r)), ~ProcessOrder, ~Liquidate
      PROVE  position' = position
    BY <1>3 DEF Next, SetLeverage, Advance, Reveal, OrdersDone, RiskHolds, vars, bookVars
<1> QED
    BY <1>1, <1>2, <1>3

\* The position a fill leaves is covered by the equity the next snapshot shows.
LEMMA FillCovered ==
    ASSUME Inv, NEW o \in Order, NEW price \in Int, NEW feeRate \in Int, ~o.system,
           Book(FillOrder(o, price, feeRate)), UNCHANGED <<cursor, leverage>>,
           CreatesOrIncreasesExposure(position, position')
    PROVE  InitialMargin(position, leverage)' <= Equity'
<1> DEFINE r == FillOrder(o, price, feeRate)
<1>1. /\ position' = r.position /\ entry' = r.entry
      /\ realized' = r.realized /\ fees' = r.fees
    BY DEF Book
<1>2. \/ r.position = position
      \/ InitialMargin(r.position, leverage)
            <= StartingEquity + r.realized + UnrealizedAt(r.position, r.entry) - r.fees
    BY <1>1, FillOrderEffect DEF Inv
<1> HIDE DEF r
<1>3. r.position # position
    BY <1>1 DEF CreatesOrIncreasesExposure, SignOf, AbsOf, Inv, PracticeTypeOK
<1>4. Mark' = Mark
    BY DEF Mark
<1>5. InitialMargin(position, leverage)' = InitialMargin(r.position, leverage)
    BY <1>1, <1>4 DEF InitialMargin, NotionalOf, AbsOf, MulDiv
<1>6. UnrealizedAt(position, entry)' = UnrealizedAt(r.position, r.entry)
    BY <1>1, <1>4 DEF UnrealizedAt, MulDiv
<1>7. Equity' = StartingEquity + r.realized + UnrealizedAt(r.position, r.entry) - r.fees
    BY <1>1, <1>6 DEF Equity
<1> QED
    BY <1>2, <1>3, <1>5, <1>7

\* The margin check of fillOrder, made on projected figures, covers every step
\* that opens or increases exposure, at placement and in a later advance.
THEOREM ExposureAlwaysCovered == Spec => ExposureCovered
<1>1. ASSUME Inv, [Next]_vars, CreatesOrIncreasesExposure(position, position')
      PROVE  InitialMargin(position, leverage)' <= Equity'
    <2>1. CASE position' = position
        BY <1>1, <2>1 DEF CreatesOrIncreasesExposure, SignOf, AbsOf, Inv, PracticeTypeOK
    <2>2. CASE Liquidate
        <3>1. status' = "LIQUIDATED" /\ Inv'
            BY <1>1, <2>2, LiquidateKeeps DEF Liquidate
        <3>2. position' = 0
            BY <3>1 DEF Inv, EndedRunsQuiet
        <3> QED
            BY <1>1, <3>2 DEF CreatesOrIncreasesExposure
    <2>3. CASE \E o \in Order, price \in Int, feeRate \in Int :
                 /\ ~o.system
                 /\ Book(FillOrder(o, price, feeRate))
                 /\ UNCHANGED <<cursor, leverage>>
        BY <1>1, <2>3, FillCovered
    <2> QED
        BY <1>1, <2>1, <2>2, <2>3, FillSteps
<1>2. Inv /\ [Next]_vars =>
        [CreatesOrIncreasesExposure(position, position') =>
            InitialMargin(position, leverage)' <= Equity']_vars
    BY <1>1
<1> QED
    BY <1>2, PracticeInvariant, PTL DEF Spec, ExposureCovered

-----------------------------------------------------------------------------
\* How one step may change the list of orders: one more order at the end, one
\* order worked on, the working ones canceled, the liquidation order added to
\* that, or no change.
LEMMA OrderSteps ==
    ASSUME Inv, [Next]_vars
    PROVE  \/ orders' = orders
           \/ \E o \in Order : orders' = Append(orders, o)
           \/ \E i \in 1..Len(orders), o \in Order :
                 /\ orders' = [orders EXCEPT ![i] = o]
                 /\ orders[i].status # "WORKING" => o = orders[i]
           \/ orders' = CancelWorking(orders)
           \/ \E o \in Order : orders' = Append(CancelWorking(orders), o)
<1> USE DEF Inv
<1>1. ASSUME NEW r \in Request, SubmitOrder(r)
      PROVE  \E o \in Order : orders' = Append(orders, o)
    <2> DEFINE o == NewOrder(r)
    <2>1. o \in Order
        BY <1>1, NewOrderFacts DEF SubmitOrder
    <2> HIDE DEF o
    <2>2. \A verdict \in {"WORKING", "CANCELED", "REJECTED"} :
             [o EXCEPT !.status = verdict] \in Order
        BY <2>1 DEF Order
    <2>3. ASSUME NEW verdict \in {"WORKING", "CANCELED", "REJECTED"}, Record(o, verdict)
          PROVE  \E e \in Order : orders' = Append(orders, e)
        BY <2>2, <2>3 DEF Record
    <2>4. CASE RejectNew(o) \/ ParkStop(o) \/ CancelNew(o)
        BY <2>3, <2>4 DEF RejectNew, ParkStop, CancelNew
    <2>5. CASE TakeNow(o)
        <3>1. ExecutionPrice(o.side) \in Int
            BY <2>1, FiguresInt DEF Order
        <3>2. FillOrder(o, ExecutionPrice(o.side), TakerFee).order \in Order
            BY <2>1, <3>1, FillOrderFacts, ConstantTypes
        <3> QED
            BY <2>5, <3>2 DEF TakeNow
    <2>6. CASE Rest(o)
        BY <2>1, <2>6 DEF Rest
    <2> QED
        BY <1>1, <2>4, <2>5, <2>6 DEF SubmitOrder, o
<1>2. ASSUME ProcessOrder
      PROVE  \E i \in 1..Len(orders), o \in Order :
                 /\ orders' = [orders EXCEPT ![i] = o]
                 /\ orders[i].status # "WORKING" => o = orders[i]
    <2> DEFINE i == call.index
               o == orders[i]
               result == IF ~Pending(o) THEN Unfilled(o, o.status)
                         ELSE IF Triggered(o)
                              THEN FillOrder(o, ExecutionPrice(o.side), TakerFee)
                         ELSE IF Crossed(o) THEN FillOrder(o, o.price, MakerFee)
                         ELSE Unfilled(o, o.status)
    <2>1. i \in 1..Len(orders) /\ o \in Order
        <3>1. call.at = "orders" /\ i <= Len(orders)
            BY <1>2 DEF ProcessOrder
        <3>2. i > 0 /\ i \in Nat /\ orders \in Seq(Order)
            BY <3>1 DEF CallConsistent, PracticeTypeOK, Call
        <3>3. Len(orders) \in Nat
            BY <3>2, LenProperties
        <3>4. i \in 1..Len(orders)
            BY <3>1, <3>2, <3>3
        <3> QED
            BY <3>2, <3>4, ElementOfSeq
    <2>2. orders' = [orders EXCEPT ![i] = result.order]
        BY <1>2 DEF ProcessOrder
    <2>3. result.order \in Order /\ (o.status # "WORKING" => result.order = o)
        <3> HIDE DEF o
        <3>1. [o EXCEPT !.status = o.status] = o
            BY <2>1 DEF Order, o
        <3>2. Unfilled(o, o.status).order = o
            BY <3>1 DEF Unfilled
        <3>3. ExecutionPrice(o.side) \in Int
            BY <2>1, FiguresInt DEF Order, o
        <3>4. Crossed(o) => o.price \in Int
            BY <2>1 DEF Crossed, Order, Price, o
        <3>5. o \in Order
            BY <2>1 DEF o
        <3>6. /\ FillOrder(o, ExecutionPrice(o.side), TakerFee).order \in Order
              /\ Crossed(o) => FillOrder(o, o.price, MakerFee).order \in Order
            BY <3>3, <3>4, <3>5, FillOrderFacts, ConstantTypes
        <3> QED
            BY <3>2, <3>5, <3>6 DEF Pending
    <2> HIDE DEF result
    <2> QED
        BY <2>1, <2>2, <2>3
<1>3. ASSUME Liquidate
      PROVE  \E o \in Order : orders' = Append(CancelWorking(orders), o)
    <2> DEFINE o == LiquidationOrder
    <2>1. o \in Order
        <3>1. AbsOf(position) \in Int
            BY DEF AbsOf, PracticeTypeOK
        <3> QED
            BY <3>1 DEF LiquidationOrder, Order, Price
    <2> HIDE DEF o
    <2>2. ExecutionPrice(o.side) \in Int
        BY <2>1, FiguresInt DEF Order
    <2>3. FillOrder(o, ExecutionPrice(o.side), TakerFee).order \in Order
        BY <2>1, <2>2, FillOrderFacts, ConstantTypes
    <2> QED
        BY <1>3, <2>3 DEF Liquidate, o
<1>4. RiskHolds => orders' = orders \/ orders' = CancelWorking(orders)
    BY DEF RiskHolds
<1>5. ASSUME ~(\E r \in Request : SubmitOrder(r)), ~ProcessOrder, ~Liquidate, ~RiskHolds
      PROVE  orders' = orders
    BY <1>5 DEF Next, SetLeverage, Advance, Reveal, OrdersDone, vars
<1> QED
    BY <1>1, <1>2, <1>3, <1>4, <1>5

\* An order that filled, was canceled or was rejected is history: no later
\* advance, cancellation or liquidation touches it.
THEOREM TerminalOrdersStayFrozen == Spec => TerminalOrdersFrozen
<1> DEFINE Frozen == \A i \in DOMAIN orders :
                        /\ i \in DOMAIN orders'
                        /\ orders[i].status # "WORKING" => orders'[i] = orders[i]
<1>1. ASSUME Inv, [Next]_vars
      PROVE  Frozen
    <2>1. orders \in Seq(Order) /\ DOMAIN orders = 1..Len(orders) /\ Len(orders) \in Nat
        BY <1>1, LenProperties DEF Inv, PracticeTypeOK
    <2>2. ASSUME NEW seq \in Seq(Order), NEW o \in Order, Len(seq) = Len(orders),
                 orders' = Append(seq, o),
                 \A i \in 1..Len(orders) : orders[i].status # "WORKING" => seq[i] = orders[i]
          PROVE  Frozen
        <3>1. /\ orders' \in Seq(Order) /\ Len(orders') = Len(orders) + 1
              /\ \A i \in 1..Len(orders) : orders'[i] = seq[i]
            BY <2>2, AppendProperties
        <3>2. DOMAIN orders' = 1..(Len(orders) + 1)
            BY <3>1, LenProperties
        <3> QED
            BY <2>1, <2>2, <3>1, <3>2
    <2>3. CASE orders' = orders
        BY <2>3
    <2>4. CASE \E o \in Order : orders' = Append(orders, o)
        BY <2>1, <2>2, <2>4
    <2>5. CASE \E i \in 1..Len(orders), o \in Order :
                 /\ orders' = [orders EXCEPT ![i] = o]
                 /\ orders[i].status # "WORKING" => o = orders[i]
        BY <2>1, <2>5
    <2>6. CASE orders' = CancelWorking(orders)
        <3>1. /\ orders' \in Seq(Order) /\ Len(orders') = Len(orders)
              /\ \A i \in 1..Len(orders) :
                     orders[i].status # "WORKING" => orders'[i] = orders[i]
            BY <2>1, <2>6, CancelWorkingFacts
        <3>2. DOMAIN orders' = 1..Len(orders)
            BY <3>1, LenProperties
        <3> QED
            BY <2>1, <3>1, <3>2
    <2>7. CASE \E o \in Order : orders' = Append(CancelWorking(orders), o)
        BY <2>1, <2>2, <2>7, CancelWorkingFacts
    <2> QED
        BY <1>1, <2>3, <2>4, <2>5, <2>6, <2>7, OrderSteps
<1>2. Inv /\ [Next]_vars => [Frozen]_vars
    BY <1>1
<1> QED
    BY <1>2, PracticeInvariant, PTL DEF Spec, TerminalOrdersFrozen

-----------------------------------------------------------------------------
\* What a fill of `by` may do to the position on behalf of a reduce-only order.
Reduces(by) ==
    /\ AbsOf(position') = AbsOf(position) - by
    /\ position' # 0 => SignOf(position') = SignOf(position)

\* FillQuantity caps a reduce-only fill at the position of that moment, so
\* fillOrder cannot cross zero with one.
LEMMA FillReduces ==
    ASSUME PracticeTypeOK, EntryIffOpen,
           NEW o \in Order, NEW price \in Int, NEW feeRate \in Int,
           NEW r, r = FillOrder(o, price, feeRate), Book(r),
           r.order.reduceOnly, r.order.filled - o.filled > 0
    PROVE  Reduces(r.order.filled - o.filled)
<1>1. PICK q : q = FillQuantity(o)
    OBVIOUS
<1>2. /\ o.side \in {"BUY", "SELL"} /\ o.filled \in Int /\ o.qty \in Int /\ position \in Int
    BY DEF Order, PracticeTypeOK
<1>3. /\ o.reduceOnly
      /\ \/ r.position = position /\ r.order.filled = o.filled
         \/ /\ r.position = position + (IF o.side = "BUY" THEN q ELSE -q)
            /\ r.order.filled = o.filled + q
    <2>1. /\ r.order.reduceOnly = o.reduceOnly
          /\ \/ r.position = position /\ r.order.filled = o.filled
             \/ /\ r.position = position + (IF o.side = "BUY" THEN FillQuantity(o)
                                                             ELSE -FillQuantity(o))
                /\ r.order.filled = o.filled + FillQuantity(o)
        BY FillOrderEffect, Zenon
    <2>2. o.reduceOnly
        BY <2>1, Zenon
    <2> QED
        BY <1>1, <2>1, <2>2, Zenon
<1>4. q \in Int /\ q <= MaxOf(0, IF o.side = "BUY" THEN -position ELSE position)
    BY <1>1, <1>2, <1>3 DEF FillQuantity, MinOf, MaxOf
<1>5. r.order.filled - o.filled = q /\ q > 0
    BY <1>2, <1>3, <1>4
<1>6. position' = position + (IF o.side = "BUY" THEN q ELSE -q)
    BY <1>2, <1>3, <1>5 DEF Book
<1>7. Reduces(q)
    BY <1>2, <1>4, <1>5, <1>6 DEF Reduces, MaxOf, AbsOf, SignOf
<1> QED
    BY <1>5, <1>7

\* An order put at the end of a list whose fills are those of `orders`.
LEMMA LastOrderReduces ==
    ASSUME NEW seq \in Seq(Order), NEW o \in Order, orders \in Seq(Order),
           Len(seq) = Len(orders), orders' = Append(seq, o),
           \A i \in 1..Len(orders) : seq[i].filled = orders[i].filled,
           o.reduceOnly /\ o.filled > 0 => Reduces(o.filled),
           NEW i \in DOMAIN orders', orders'[i].reduceOnly, FilledNow(i) > 0
    PROVE  Reduces(FilledNow(i))
<1>1. Len(orders) \in Nat /\ DOMAIN orders = 1..Len(orders)
    BY LenProperties
<1>2. /\ orders' \in Seq(Order) /\ Len(orders') = Len(orders) + 1
      /\ \A k \in 1..Len(orders) : orders'[k] = seq[k]
      /\ orders'[Len(orders) + 1] = o
    BY AppendProperties
<1>3. DOMAIN orders' = 1..(Len(orders) + 1)
    BY <1>2, LenProperties
<1>4. CASE i \in 1..Len(orders)
    <2>1. orders[i] \in Order /\ orders'[i].filled = orders[i].filled
        BY <1>2, <1>4, ElementOfSeq
    <2>2. FilledNow(i) = orders[i].filled - orders[i].filled
        BY <1>1, <1>4, <2>1 DEF FilledNow
    <2>3. orders[i].filled \in Int
        BY <2>1 DEF Order
    <2> QED
        BY <2>2, <2>3
<1>5. CASE i = Len(orders) + 1
    <2>1. i \notin DOMAIN orders
        BY <1>1, <1>5
    <2>2. o.filled \in Int
        BY DEF Order
    <2>3. FilledNow(i) = o.filled
        BY <1>2, <1>5, <2>1, <2>2 DEF FilledNow
    <2> QED
        BY <1>2, <1>5, <2>3
<1> QED
    BY <1>1, <1>3, <1>4, <1>5

\* SubmitOrder: only an order that takes at once has filled.
LEMMA SubmitReduces ==
    ASSUME Inv, NEW r \in Request, SubmitOrder(r),
           NEW i \in DOMAIN orders', orders'[i].reduceOnly, FilledNow(i) > 0
    PROVE  Reduces(FilledNow(i))
<1>1. PICK o : o = NewOrder(r)
    OBVIOUS
<1>2. o \in Order /\ o.filled = 0
    BY <1>1, NewOrderFacts DEF SubmitOrder, Inv
<1>3. orders \in Seq(Order)
    BY DEF Inv, PracticeTypeOK
<1>4. ASSUME NEW a \in Order, orders' = Append(orders, a),
             a.reduceOnly /\ a.filled > 0 => Reduces(a.filled)
      PROVE  Reduces(FilledNow(i))
    BY <1>3, <1>4, LastOrderReduces
<1>5. ASSUME NEW verdict \in {"WORKING", "CANCELED", "REJECTED"}, Record(o, verdict)
      PROVE  Reduces(FilledNow(i))
    <2>1. PICK a : a = [o EXCEPT !.status = verdict]
        OBVIOUS
    <2>2. a \in Order /\ a.filled = 0
        BY <1>2, <2>1 DEF Order
    <2>3. orders' = Append(orders, a)
        BY <1>5, <2>1 DEF Record
    <2>4. ~(a.filled > 0)
        BY <2>2
    <2> QED
        BY <1>4, <2>2, <2>3, <2>4
<1>6. CASE RejectNew(o) \/ ParkStop(o) \/ CancelNew(o)
    BY <1>5, <1>6 DEF RejectNew, ParkStop, CancelNew
<1>7. CASE Rest(o)
    BY <1>2, <1>4, <1>7 DEF Rest
<1>8. CASE TakeNow(o)
    <2>1. PICK result : result = FillOrder(o, ExecutionPrice(o.side), TakerFee)
        OBVIOUS
    <2>2. ExecutionPrice(o.side) \in Int /\ TakerFee \in Int
        BY <1>2, FiguresInt, ConstantTypes DEF Order, Inv
    <2>3. orders' = Append(orders, result.order) /\ Book(result)
        BY <1>8, <2>1 DEF TakeNow
    <2>4. result.order \in Order
        BY <1>2, <2>1, <2>2, FillOrderFacts DEF Inv
    <2>5. result.order.filled - o.filled = result.order.filled
        BY <1>2, <2>4 DEF Order
    <2>6. result.order.reduceOnly /\ result.order.filled > 0 => Reduces(result.order.filled)
        BY <1>2, <2>1, <2>2, <2>3, <2>5, FillReduces DEF Inv
    <2> QED
        BY <1>4, <2>3, <2>4, <2>6
<1> QED
    BY <1>1, <1>6, <1>7, <1>8 DEF SubmitOrder

\* processWorkingOrders: only the order worked on can have filled.
LEMMA ProcessReduces ==
    ASSUME Inv, ProcessOrder,
           NEW i \in DOMAIN orders', orders'[i].reduceOnly, FilledNow(i) > 0
    PROVE  Reduces(FilledNow(i))
<1>1. PICK k, o : k = call.index /\ o = orders[call.index]
    OBVIOUS
<1>2. PICK result : result = IF ~Pending(o) THEN Unfilled(o, o.status)
                             ELSE IF Triggered(o)
                                  THEN FillOrder(o, ExecutionPrice(o.side), TakerFee)
                             ELSE IF Crossed(o) THEN FillOrder(o, o.price, MakerFee)
                             ELSE Unfilled(o, o.status)
    OBVIOUS
<1>3. orders' = [orders EXCEPT ![k] = result.order] /\ Book(result)
    BY <1>1, <1>2 DEF ProcessOrder
<1>4. /\ k \in 1..Len(orders) /\ o \in Order /\ o = orders[k]
      /\ DOMAIN orders = 1..Len(orders) /\ orders \in Seq(Order)
    <2>1. call.at = "orders" /\ k <= Len(orders)
        BY <1>1 DEF ProcessOrder
    <2>2. k > 0 /\ k \in Nat /\ orders \in Seq(Order)
        BY <1>1, <2>1 DEF CallConsistent, PracticeTypeOK, Call, Inv
    <2>3. Len(orders) \in Nat /\ DOMAIN orders = 1..Len(orders)
        BY <2>2, LenProperties
    <2>4. k \in 1..Len(orders)
        BY <2>1, <2>2, <2>3
    <2> QED
        BY <1>1, <2>2, <2>3, <2>4, ElementOfSeq
<1>5. DOMAIN orders' = DOMAIN orders /\ orders'[k] = result.order
    BY <1>3, <1>4
<1>6. i = k
    <2> SUFFICES ASSUME i # k PROVE FALSE
        OBVIOUS
    <2>1. i \in DOMAIN orders /\ orders'[i] = orders[i] /\ orders[i] \in Order
        BY <1>3, <1>4, <1>5, ElementOfSeq
    <2>2. FilledNow(i) = orders[i].filled - orders[i].filled /\ orders[i].filled \in Int
        BY <2>1 DEF FilledNow, Order
    <2> QED
        BY <2>2
<1>7. FilledNow(i) = result.order.filled - o.filled
    BY <1>4, <1>5, <1>6 DEF FilledNow
<1>8. result # Unfilled(o, o.status)
    <2> SUFFICES ASSUME result = Unfilled(o, o.status) PROVE FALSE
        OBVIOUS
    <2>1. result.order.filled = o.filled /\ o.filled \in Int
        BY <1>4 DEF Unfilled, Order
    <2> QED
        BY <1>7, <2>1
<1>9. /\ ExecutionPrice(o.side) \in Int /\ TakerFee \in Int /\ MakerFee \in Int
      /\ Crossed(o) => o.price \in Int
    <2>1. o.side \in {"BUY", "SELL"} /\ o.price \in Price
        BY <1>4 DEF Order
    <2>2. PracticeTypeOK
        BY DEF Inv
    <2>3. Crossed(o) => o.price \in Int
        BY <2>1 DEF Crossed, Price
    <2> QED
        BY <2>1, <2>2, <2>3, FiguresInt, ConstantTypes
<1>10. \E price \in Int, feeRate \in Int : result = FillOrder(o, price, feeRate)
    BY <1>2, <1>8, <1>9
<1> QED
    BY <1>3, <1>4, <1>5, <1>6, <1>7, <1>10, FillReduces DEF Inv

\* The liquidation order closes what is left, and cancels without a fill.
LEMMA LiquidateReduces ==
    ASSUME Inv, Liquidate,
           NEW i \in DOMAIN orders', orders'[i].reduceOnly, FilledNow(i) > 0
    PROVE  Reduces(FilledNow(i))
<1>1. PICK o : o = LiquidationOrder
    OBVIOUS
<1>2. o \in Order /\ o.filled = 0
    <2>1. AbsOf(position) \in Int
        BY DEF AbsOf, PracticeTypeOK, Inv
    <2> QED
        BY <1>1, <2>1 DEF LiquidationOrder, Order, Price
<1>3. PICK result : result = FillOrder(o, ExecutionPrice(o.side), TakerFee)
    OBVIOUS
<1>4. ExecutionPrice(o.side) \in Int /\ TakerFee \in Int
    BY <1>2, FiguresInt, ConstantTypes DEF Order, Inv
<1>5. orders' = Append(CancelWorking(orders), result.order) /\ Book(result)
    BY <1>1, <1>3 DEF Liquidate
<1>6. result.order \in Order
    BY <1>2, <1>3, <1>4, FillOrderFacts DEF Inv
<1>7. result.order.filled - o.filled = result.order.filled
    BY <1>2, <1>6 DEF Order
<1>8. result.order.reduceOnly /\ result.order.filled > 0 => Reduces(result.order.filled)
    BY <1>2, <1>3, <1>4, <1>5, <1>7, FillReduces DEF Inv
<1>9. orders \in Seq(Order)
    BY DEF Inv, PracticeTypeOK
<1> QED
    BY <1>5, <1>6, <1>8, <1>9, CancelWorkingFacts, LastOrderReduces

\* Every other step fills nothing.
LEMMA QuietSteps ==
    ASSUME Inv, orders' = orders \/ orders' = CancelWorking(orders),
           NEW i \in DOMAIN orders'
    PROVE  FilledNow(i) = 0
<1>1. orders \in Seq(Order) /\ Len(orders) \in Nat /\ DOMAIN orders = 1..Len(orders)
    BY LenProperties DEF Inv, PracticeTypeOK
<1>2. CASE orders' = orders
    <2>1. orders[i] \in Order
        BY <1>1, <1>2, ElementOfSeq
    <2> QED
        BY <1>2, <2>1 DEF FilledNow, Order
<1>3. CASE orders' = CancelWorking(orders)
    <2>1. DOMAIN orders' = 1..Len(orders) /\ orders'[i].filled = orders[i].filled
        BY <1>1, <1>3, CancelWorkingFacts, LenProperties
    <2>2. orders[i] \in Order
        BY <1>1, <2>1, ElementOfSeq
    <2> QED
        BY <1>1, <2>1, <2>2 DEF FilledNow, Order
<1> QED
    BY <1>2, <1>3

\* A reduce-only order of the practice engine never opens or turns a position,
\* however long it waited and whatever other orders did to the position since
\* it was accepted.
THEOREM ReduceOnlyAlwaysReduces == Spec => ReduceOnlyReduces
<1> DEFINE Step == \A i \in DOMAIN orders' :
                      orders'[i].reduceOnly /\ FilledNow(i) > 0 =>
                          /\ AbsOf(position') = AbsOf(position) - FilledNow(i)
                          /\ position' # 0 => SignOf(position') = SignOf(position)
<1>1. ASSUME Inv, [Next]_vars PROVE Step
    <2> SUFFICES ASSUME NEW i \in DOMAIN orders', orders'[i].reduceOnly, FilledNow(i) > 0
                 PROVE  Reduces(FilledNow(i))
        BY DEF Reduces
    <2>1. CASE \E r \in Request : SubmitOrder(r)
        BY <1>1, <2>1, SubmitReduces
    <2>2. CASE ProcessOrder
        BY <1>1, <2>2, ProcessReduces
    <2>3. CASE Liquidate
        BY <1>1, <2>3, LiquidateReduces
    <2>4. ASSUME ~(\E r \in Request : SubmitOrder(r)), ~ProcessOrder, ~Liquidate
          PROVE  orders' = orders \/ orders' = CancelWorking(orders)
        BY <1>1, <2>4 DEF Next, SetLeverage, Advance, Reveal, OrdersDone, RiskHolds, vars
    <2>5. ASSUME ~(\E r \in Request : SubmitOrder(r)), ~ProcessOrder, ~Liquidate
          PROVE  FilledNow(i) = 0
        BY <1>1, <2>4, <2>5, QuietSteps
    <2> QED
        BY <2>1, <2>2, <2>3, <2>5
<1>2. Inv /\ [Next]_vars => [Step]_vars
    BY <1>1
<1> QED
    BY <1>2, PracticeInvariant, PTL DEF Spec, ReduceOnlyReduces

-----------------------------------------------------------------------------
(***************************************************************************)
(* SumOf. SumsTo says that f holds the sums of the prefixes of s up to m.  *)
(***************************************************************************)

SumsTo(f, s, m) == f = [i \in 0 .. m |-> IF i = 0 THEN 0 ELSE f[i - 1] + s[i]]

LEMMA LeastNat ==
    ASSUME NEW T \in SUBSET Nat, T # {}
    PROVE  \E x \in T : \A y \in T : x <= y
<1>1. PICK x \in T : \A y \in T : ~ (<<y, x>> \in OpToRel(<, Nat))
    BY NatLessThanWellFounded, WFMin
<1>2. OpToRel(<, Nat) = {ss \in Nat \X Nat : ss[1] < ss[2]}
    BY Zenon DEF OpToRel
<1>3. ASSUME NEW y \in T PROVE ~(y < x)
    <2>1. <<y, x>> \notin {ss \in Nat \X Nat : ss[1] < ss[2]}
        BY <1>1, <1>2
    <2>2. <<y, x>> \in Nat \X Nat /\ <<y, x>>[1] = y /\ <<y, x>>[2] = x
        OBVIOUS
    <2> QED
        BY <2>1, <2>2, SMT
<1> QED
    BY <1>3

\* Induction, with the property given by the set of numbers that have it.
LEMMA SetInduction ==
    ASSUME NEW S \in SUBSET Nat, 0 \in S, \A n \in S : n + 1 \in S
    PROVE  S = Nat
<1> SUFFICES ASSUME Nat \ S # {} PROVE FALSE
    OBVIOUS
<1>1. PICK x \in Nat \ S : \A y \in Nat \ S : x <= y
    BY LeastNat
<1>2. x - 1 \in Nat /\ x - 1 \in S
    BY <1>1
<1> QED
    BY <1>1, <1>2

LEMMA SumsExtend ==
    ASSUME NEW s, NEW m \in Nat, NEW g, SumsTo(g, s, m)
    PROVE  \E f : SumsTo(f, s, m + 1)
<1> DEFINE last == g[m] + s[m + 1]
           f == [i \in 0 .. m + 1 |-> IF i = m + 1 THEN last ELSE g[i]]
<1>1. \A i \in 0 .. m : f[i] = g[i]
    OBVIOUS
<1>2. \A i \in 0 .. m : g[i] = IF i = 0 THEN 0 ELSE g[i - 1] + s[i]
    BY DEF SumsTo
<1>3. f[m + 1] = last /\ m + 1 # 0 /\ m \in 0 .. m /\ (m + 1) - 1 = m
    OBVIOUS
<1> HIDE DEF f
<1>4. ASSUME NEW i \in 0 .. m + 1
      PROVE  f[i] = IF i = 0 THEN 0 ELSE f[i - 1] + s[i]
    <2>1. CASE i = m + 1
        BY <1>1, <1>3, <2>1
    <2>2. CASE i # m + 1
        <3>1. i \in 0 .. m /\ (i # 0 => i - 1 \in 0 .. m)
            BY <2>2
        <3>2. f[i] = g[i] /\ (i # 0 => f[i - 1] = g[i - 1])
            BY <1>1, <3>1
        <3> QED
            BY <1>2, <3>1, <3>2
    <2> QED
        BY <2>1, <2>2
<1>5. SumsTo(f, s, m + 1)
    <2>1. f = [i \in 0 .. m + 1 |-> f[i]]
        BY DEF f
    <2>2. [i \in 0 .. m + 1 |-> f[i]]
             = [i \in 0 .. m + 1 |-> IF i = 0 THEN 0 ELSE f[i - 1] + s[i]]
        BY <1>4
    <2> QED
        BY <2>1, <2>2, Zenon DEF SumsTo
<1> QED
    BY <1>5

LEMMA SumIs ==
    ASSUME NEW s, Len(s) \in Nat
    PROVE  \E f : SumsTo(f, s, Len(s)) /\ SumOf(s) = f[Len(s)]
<1> DEFINE S == {m \in Nat : \E f : SumsTo(f, s, m)}
           G == CHOOSE f : f = [i \in 0 .. Len(s) |-> IF i = 0 THEN 0 ELSE f[i - 1] + s[i]]
<1>1. 0 \in S
    <2> DEFINE f == [i \in 0 .. 0 |-> 0]
    <2>1. SumsTo(f, s, 0)
        BY DEF SumsTo
    <2> QED
        BY <2>1
<1>2. \A m \in S : m + 1 \in S
    BY SumsExtend
<1>3. S \in SUBSET Nat
    OBVIOUS
<1> HIDE DEF S
<1>4. Len(s) \in S
    BY <1>1, <1>2, <1>3, SetInduction
<1>5. PICK f : f = [i \in 0 .. Len(s) |-> IF i = 0 THEN 0 ELSE f[i - 1] + s[i]]
    BY <1>4 DEF S, SumsTo
<1>6. G = [i \in 0 .. Len(s) |-> IF i = 0 THEN 0 ELSE G[i - 1] + s[i]]
    BY <1>5
<1>7. SumOf(s) = G[Len(s)]
    BY DEF SumOf
<1> HIDE DEF G
<1> QED
    BY <1>6, <1>7 DEF SumsTo

\* One summand of the first m changed by d, at place k.
Shifted(s, t, m, k, d) ==
    /\ \A i \in 1 .. m : s[i] \in Int
    /\ \A i \in 1 .. m : t[i] = IF i = k THEN s[i] + d ELSE s[i]

\* The sums from k on change by d.
LEMMA SumsShift ==
    ASSUME NEW s, NEW t, NEW n \in Nat, NEW l \in Nat, NEW f, NEW g,
           SumsTo(f, s, n), SumsTo(g, t, l),
           NEW m \in Nat, m <= n, m <= l, NEW k \in Nat \ {0}, NEW d \in Int,
           Shifted(s, t, m, k, d)
    PROVE  f[m] \in Int /\ g[m] = IF m >= k THEN f[m] + d ELSE f[m]
<1> DEFINE Holds(i) == f[i] \in Int /\ g[i] = IF i >= k THEN f[i] + d ELSE f[i]
           S == {i \in Nat : i <= m => Holds(i)}
<1>1. /\ \A i \in 0 .. m : f[i] = IF i = 0 THEN 0 ELSE f[i - 1] + s[i]
      /\ \A i \in 0 .. m : g[i] = IF i = 0 THEN 0 ELSE g[i - 1] + t[i]
    <2>1. /\ \A i \in 0 .. n : f[i] = IF i = 0 THEN 0 ELSE f[i - 1] + s[i]
          /\ \A i \in 0 .. l : g[i] = IF i = 0 THEN 0 ELSE g[i - 1] + t[i]
        BY DEF SumsTo
    <2>2. \A i \in 0 .. m : i \in 0 .. n /\ i \in 0 .. l
        OBVIOUS
    <2> QED
        BY <2>1, <2>2
<1>2. 0 \in S
    BY <1>1
<1>3. ASSUME NEW i \in S PROVE i + 1 \in S
    <2> SUFFICES ASSUME i + 1 <= m PROVE Holds(i + 1)
        OBVIOUS
    <2>1. i \in Nat /\ i + 1 \in 0 .. m /\ i + 1 \in 1 .. m /\ Holds(i) /\ (i + 1) - 1 = i
        OBVIOUS
    <2>2. f[i + 1] = f[i] + s[i + 1] /\ g[i + 1] = g[i] + t[i + 1]
        BY <1>1, <2>1
    <2>3. s[i + 1] \in Int /\ t[i + 1] = IF i + 1 = k THEN s[i + 1] + d ELSE s[i + 1]
        BY <2>1 DEF Shifted
    <2> HIDE DEF S
    <2> QED
        BY <2>1, <2>2, <2>3
<1>4. S \in SUBSET Nat
    OBVIOUS
<1> HIDE DEF S
<1>5. m \in S
    BY <1>2, <1>3, <1>4, SetInduction
<1> QED
    BY <1>5 DEF S

\* SumOf over a list of things of which g tells the number.
Summands(g, list) == [i \in DOMAIN list |-> g[list[i]]]
SumBy(g, list) == SumOf(Summands(g, list))

LEMMA SummandsTyped ==
    ASSUME NEW A, NEW g \in [A -> Int], NEW list \in Seq(A)
    PROVE  /\ Len(Summands(g, list)) = Len(list) /\ Len(list) \in Nat
           /\ \A i \in 1 .. Len(list) :
                 Summands(g, list)[i] = g[list[i]] /\ g[list[i]] \in Int
<1> DEFINE s == Summands(g, list)
<1>1. /\ Len(list) \in Nat /\ DOMAIN list = 1 .. Len(list)
      /\ \A i \in 1 .. Len(list) : list[i] \in A
    BY LenProperties, ElementOfSeq
<1>2. s = [i \in 1 .. Len(list) |-> g[list[i]]]
    BY <1>1 DEF Summands
<1>3. \A i \in 1 .. Len(list) : g[list[i]] \in Int
    BY <1>1
<1> HIDE DEF s
<1>4. s \in [1 .. Len(list) -> Int] /\ \A i \in 1 .. Len(list) : s[i] = g[list[i]]
    BY <1>2, <1>3
<1>5. s \in Seq(Int)
    BY <1>1, <1>4, SeqDef
<1>6. DOMAIN s = 1 .. Len(list) /\ DOMAIN s = 1 .. Len(s) /\ Len(s) \in Nat
    BY <1>4, <1>5, LenProperties
<1>7. Len(s) = Len(list)
    BY <1>1, <1>6
<1> QED
    BY <1>1, <1>3, <1>4, <1>7 DEF s

LEMMA SumByInt ==
    ASSUME NEW A, NEW g \in [A -> Int], NEW list \in Seq(A)
    PROVE  SumBy(g, list) \in Int
<1>1. PICK s, n : s = Summands(g, list) /\ n = Len(list)
    OBVIOUS
<1>2. n \in Nat /\ Len(s) = n /\ \A i \in 1 .. n : s[i] \in Int
    BY <1>1, SummandsTyped
<1>3. PICK f : SumsTo(f, s, n) /\ SumOf(s) = f[n]
    BY <1>2, SumIs
<1>4. Shifted(s, s, n, n + 1, 0)
    BY <1>2 DEF Shifted
<1>5. n <= n /\ n + 1 \in Nat \ {0} /\ 0 \in Int
    BY <1>2
<1>6. f[n] \in Int
    BY <1>2, <1>3, <1>4, <1>5, SumsShift
<1> QED
    BY <1>1, <1>3, <1>6 DEF SumBy

\* One member put at the end.
LEMMA SumByAppend ==
    ASSUME NEW A, NEW g \in [A -> Int], NEW list \in Seq(A), NEW o \in A
    PROVE  SumBy(g, Append(list, o)) = SumBy(g, list) + g[o]
<1>1. PICK longer, s, t, n : /\ longer = Append(list, o) /\ n = Len(list)
                             /\ s = Summands(g, list) /\ t = Summands(g, longer)
    OBVIOUS
<1>2. /\ longer \in Seq(A) /\ Len(longer) = n + 1
      /\ \A i \in 1 .. n : longer[i] = list[i]
      /\ longer[n + 1] = o
    BY <1>1, AppendProperties
<1>3. n \in Nat /\ Len(s) = n /\ \A i \in 1 .. n : s[i] = g[list[i]] /\ s[i] \in Int
    BY <1>1, SummandsTyped, SMTT(30)
<1>4. Len(t) = n + 1 /\ \A i \in 1 .. n + 1 : t[i] = g[longer[i]]
    <2>1. longer \in Seq(A)
        BY <1>2
    <2>2. g \in [A -> Int]
        OBVIOUS
    <2>3. Len(Summands(g, longer)) = Len(longer)
        BY <2>1, <2>2, SummandsTyped
    <2>4. \A i \in 1 .. Len(longer) : Summands(g, longer)[i] = g[longer[i]]
        <3>1. DOMAIN longer = 1 .. Len(longer)
            BY <2>1, LenProperties
        <3> QED
            BY <3>1 DEF Summands
    <2>5. t = Summands(g, longer) /\ Len(longer) = n + 1
        BY <1>1, <1>2
    <2> QED
        BY <2>3, <2>4, <2>5, Zenon
<1>5. t[n + 1] = g[o] /\ \A i \in 1 .. n : t[i] = s[i]
    <2>1. n + 1 \in 1 .. n + 1 /\ \A i \in 1 .. n : i \in 1 .. n + 1
        BY <1>3
    <2>2. t[n + 1] = g[o]
        BY <1>2, <1>4, <2>1
    <2>3. ASSUME NEW i \in 1 .. n PROVE t[i] = s[i]
        <3>1. i \in 1 .. n + 1
            BY <2>1
        <3>2. t[i] = g[longer[i]] /\ longer[i] = list[i]
            BY <1>2, <1>4, <3>1
        <3>3. s[i] = g[list[i]]
            BY <1>3
        <3> QED
            BY <3>2, <3>3
    <2> QED
        BY <2>2, <2>3
<1>6. PICK f : SumsTo(f, s, n) /\ SumOf(s) = f[n]
    <2>1. Len(s) \in Nat /\ Len(s) = n
        BY <1>3
    <2> QED
        BY <2>1, SumIs
<1>7. n + 1 \in Nat
    BY <1>3
<1>8. PICK h : SumsTo(h, t, n + 1) /\ SumOf(t) = h[n + 1]
    BY <1>4, <1>7, SumIs
<1>9. Shifted(s, t, n, n + 1, 0)
    BY <1>3, <1>5 DEF Shifted
<1>10. h[n] = f[n]
    <2>1. n <= n /\ n <= n + 1 /\ n + 1 \in Nat \ {0} /\ 0 \in Int /\ ~(n >= n + 1)
        BY <1>3
    <2>2. h[n] = IF n >= n + 1 THEN f[n] + 0 ELSE f[n]
        BY <1>3, <1>6, <1>7, <1>8, <1>9, <2>1, SumsShift
    <2> QED
        BY <2>1, <2>2
<1>11. h[n + 1] = h[n] + t[n + 1]
    <2>1. n + 1 \in 0 .. n + 1 /\ n + 1 # 0 /\ (n + 1) - 1 = n
        BY <1>3
    <2> QED
        BY <1>8, <2>1 DEF SumsTo
<1> QED
    BY <1>1, <1>5, <1>6, <1>8, <1>10, <1>11 DEF SumBy

\* One member exchanged.
LEMMA SumByExcept ==
    ASSUME NEW A, NEW g \in [A -> Int], NEW list \in Seq(A), NEW o \in A,
           NEW k \in 1 .. Len(list), NEW other \in Seq(A), Len(other) = Len(list),
           \A i \in 1 .. Len(list) : other[i] = IF i = k THEN o ELSE list[i]
    PROVE  SumBy(g, other) = SumBy(g, list) + (g[o] - g[list[k]])
<1>1. PICK s, t, n, d : /\ n = Len(list)
                        /\ s = Summands(g, list) /\ t = Summands(g, other)
                        /\ d = g[o] - g[list[k]]
    OBVIOUS
<1>2. n \in Nat /\ Len(s) = n /\ \A i \in 1 .. n : s[i] = g[list[i]] /\ s[i] \in Int
    <2>1. Len(Summands(g, list)) = Len(list) /\ Len(list) \in Nat
        BY SummandsTyped
    <2>2. \A i \in 1 .. Len(list) :
             Summands(g, list)[i] = g[list[i]] /\ g[list[i]] \in Int
        BY SummandsTyped
    <2> QED
        BY <1>1, <2>1, <2>2
<1>3. other \in Seq(A) /\ Len(other) = n
      /\ \A i \in 1 .. n : other[i] = IF i = k THEN o ELSE list[i]
    BY <1>1
<1>4. Len(t) = n /\ \A i \in 1 .. n : t[i] = g[other[i]]
    <2>1. other \in Seq(A)
        BY <1>3
    <2>2. g \in [A -> Int]
        OBVIOUS
    <2>3. Len(Summands(g, other)) = Len(other)
        BY <2>1, <2>2, SummandsTyped
    <2>4. \A i \in 1 .. Len(other) : Summands(g, other)[i] = g[other[i]]
        <3>1. DOMAIN other = 1 .. Len(other)
            BY <2>1, LenProperties
        <3> QED
            BY <3>1 DEF Summands
    <2>5. t = Summands(g, other) /\ Len(other) = n
        BY <1>1, <1>3
    <2> QED
        BY <2>3, <2>4, <2>5, Zenon
<1>5. g[o] \in Int /\ s[k] = g[list[k]] /\ g[list[k]] \in Int /\ d \in Int /\ k \in 1 .. n
    <2>1. g[o] \in Int /\ k \in 1 .. n
        BY <1>1
    <2>2. s[k] = g[list[k]] /\ s[k] \in Int
        BY <1>2, <2>1
    <2>3. PICK x, y : x = g[o] /\ y = g[list[k]]
        OBVIOUS
    <2>4. x \in Int /\ y \in Int /\ d = x - y
        BY <1>1, <2>1, <2>2, <2>3
    <2> QED
        BY <2>1, <2>2, <2>4
<1>6. Shifted(s, t, n, k, d)
    <2>1. ASSUME NEW i \in 1 .. n PROVE t[i] = IF i = k THEN s[i] + d ELSE s[i]
        <3>1. CASE i = k
            <4>1. t[i] = g[o] /\ s[i] = g[list[k]]
                BY <1>3, <1>4, <1>5, <3>1
            <4>2. PICK x, y : x = g[o] /\ y = g[list[k]]
                OBVIOUS
            <4>3. t[i] = x /\ s[i] = y /\ d = x - y /\ x \in Int /\ y \in Int
                BY <1>1, <1>5, <4>1, <4>2
            <4> QED
                BY <3>1, <4>3
        <3>2. CASE i # k
            BY <1>2, <1>3, <1>4, <3>2
        <3> QED
            BY <3>1, <3>2
    <2> QED
        BY <1>2, <2>1 DEF Shifted
<1>7. PICK f : SumsTo(f, s, n) /\ SumOf(s) = f[n]
    <2>1. Len(s) \in Nat /\ Len(s) = n
        BY <1>2
    <2> QED
        BY <2>1, SumIs
<1>8. PICK h : SumsTo(h, t, n) /\ SumOf(t) = h[n]
    <2>1. Len(t) \in Nat /\ Len(t) = n
        BY <1>2, <1>4
    <2> QED
        BY <2>1, SumIs
<1>9. h[n] = f[n] + d
    <2>1. k \in Nat \ {0} /\ n >= k /\ n <= n
        BY <1>2, <1>5
    <2>2. h[n] = IF n >= k THEN f[n] + d ELSE f[n]
        BY <1>2, <1>5, <1>6, <1>7, <1>8, <2>1, SumsShift
    <2> QED
        BY <2>1, <2>2
<1> QED
    BY <1>1, <1>7, <1>8, <1>9 DEF SumBy

\* The same numbers have the same sum.
LEMMA SumBySame ==
    ASSUME NEW A, NEW g \in [A -> Int], NEW list \in Seq(A), NEW other \in Seq(A),
           Len(other) = Len(list), \A i \in 1 .. Len(list) : g[other[i]] = g[list[i]]
    PROVE  SumBy(g, other) = SumBy(g, list)
<1>1. DOMAIN list = 1 .. Len(list) /\ DOMAIN other = 1 .. Len(list)
    BY LenProperties
<1>2. Summands(g, other) = Summands(g, list)
    BY <1>1 DEF Summands
<1> QED
    BY <1>2 DEF SumBy

-----------------------------------------------------------------------------
(***************************************************************************)
(* What rounding can lose in one fill                                      *)
(***************************************************************************)

LEMMA DivBounds ==
    ASSUME NEW a \in Int, NEW d \in Nat \ {0}
    PROVE  a \div d \in Int /\ d * (a \div d) <= a /\ a < d * (a \div d) + d
OBVIOUS

\* mulDiv is off by less than one.
LEMMA MulDivError ==
    ASSUME NEW a \in Int, NEW b \in Int, NEW d \in Nat \ {0}
    PROVE  /\ a * b - d * MulDiv(a, b, d) <= d - 1
           /\ d * MulDiv(a, b, d) - a * b <= d - 1
<1>1. PICK x : x = a * b
    OBVIOUS
<1>2. x \in Int /\ -x \in Int
    BY <1>1
<1>3. MulDiv(a, b, d) = IF x >= 0 THEN x \div d ELSE -((-x) \div d)
    BY <1>1 DEF MulDiv
<1>4. PICK u, v : u = x \div d /\ v = (-x) \div d
    OBVIOUS
<1>5. /\ u \in Int /\ d * u <= x /\ x < d * u + d
      /\ v \in Int /\ d * v <= -x /\ -x < d * v + d
    BY <1>2, <1>4, DivBounds
<1>6. CASE x >= 0
    <2>1. MulDiv(a, b, d) = u
        BY <1>3, <1>4, <1>6
    <2>2. PICK w : w = d * u
        OBVIOUS
    <2> QED
        BY <1>1, <1>2, <1>5, <2>1, <2>2
<1>7. CASE ~(x >= 0)
    <2>1. MulDiv(a, b, d) = -v
        BY <1>3, <1>4, <1>7
    <2>2. d * (-v) = -(d * v)
        BY <1>5
    <2>3. PICK w : w = d * v
        OBVIOUS
    <2> QED
        BY <1>1, <1>2, <1>5, <2>1, <2>2, <2>3
<1> QED
    BY <1>6, <1>7

\* v is the average of p at e and q at x, off by less than one for every unit
\* held, and lies between them.
IsAverage(v, p, q, e, x) ==
    /\ v \in Int
    /\ (p + q) * v <= p * e + q * x
    /\ p * e + q * x < (p + q) * v + (p + q)
    /\ \A low \in Int : low <= e /\ low <= x => low <= v
    /\ \A high \in Int : e <= high /\ x <= high => v <= high

LEMMA AverageFacts ==
    ASSUME NEW p \in Nat, NEW q \in Nat \ {0}, NEW e \in Int, NEW x \in Int,
           NEW v, v = (p * e + q * x) \div (p + q)
    PROVE  IsAverage(v, p, q, e, x)
<1>1. PICK a, d : a = p * e + q * x /\ d = p + q
    OBVIOUS
<1>2. a \in Int /\ d \in Nat \ {0} /\ v = a \div d
    BY <1>1
<1>3. v \in Int /\ d * v <= a /\ a < d * v + d
    BY <1>2, DivBounds
<1>4. ASSUME NEW low \in Int, low <= e, low <= x PROVE low <= v
    <2>1. p * low <= p * e /\ q * low <= q * x
        BY <1>4
    <2>2. d * low = p * low + q * low
        BY <1>1
    <2>3. d * low <= a
        BY <1>1, <2>1, <2>2
    <2>4. d * low < d * v + d
        BY <1>2, <1>3, <2>3
    <2>5. d * v + d = d * (v + 1)
        BY <1>2, <1>3
    <2>6. d * low < d * (v + 1)
        BY <2>4, <2>5
    <2>7. low < v + 1
        BY <1>2, <1>3, <2>6
    <2> QED
        BY <1>3, <2>7
<1>5. ASSUME NEW high \in Int, e <= high, x <= high PROVE v <= high
    <2>1. p * e <= p * high /\ q * x <= q * high
        BY <1>5
    <2>2. d * high = p * high + q * high
        BY <1>1
    <2>3. a <= d * high
        BY <1>1, <2>1, <2>2
    <2>4. d * v <= d * high
        BY <1>2, <1>3, <2>3
    <2> QED
        BY <1>2, <1>3, <2>4
<1> QED
    BY <1>1, <1>3, <1>4, <1>5 DEF IsAverage

\* The entry price as a number.
Basis(e) == IF e = NoPrice THEN 0 ELSE e

\* What projectPosition loses: the value booked before and after it, the money
\* the fill moved included.
ProjectError(fill, price) ==
    (Project(fill, price).realized - realized) * Unit + fill * price
        - Project(fill, price).position * Basis(Project(fill, price).entry)
        + position * Basis(entry)

\* A fill in the direction of the position.
LEMMA AveragingLoses ==
    ASSUME PracticeTypeOK, EntryIffOpen, NEW fill \in Int, fill # 0, NEW price \in Int,
           position = 0 \/ SignOf(position) = SignOf(fill)
    PROVE  /\ ProjectError(fill, price) \in Int
           /\ AbsOf(ProjectError(fill, price)) <= AbsOf(position + fill)
           /\ \A low, high \in Int :
                 /\ low <= price /\ price <= high
                 /\ entry # NoPrice => low <= entry /\ entry <= high
                 => /\ low <= Project(fill, price).entry
                    /\ Project(fill, price).entry <= high
<1>1. PICK p, q, e, v : /\ p = AbsOf(position) /\ q = AbsOf(fill)
                        /\ e = IF entry = NoPrice THEN price ELSE entry
                        /\ v = (p * e + q * price) \div (p + q)
    OBVIOUS
<1>2. position \in Int /\ realized \in Int /\ Unit \in Nat
    BY ConstantTypes DEF PracticeTypeOK
<1>3. p \in Nat /\ q \in Nat \ {0} /\ e \in Int
    BY <1>1, <1>2 DEF AbsOf, PracticeTypeOK, Price
<1>4. AbsOf(position + fill) = p + q
    BY <1>1, <1>2 DEF AbsOf, SignOf
<1>5. AveragedEntry(fill, price) = v
    BY <1>1, <1>4 DEF AveragedEntry
<1>6. /\ Project(fill, price).position = position + fill
      /\ Project(fill, price).realized = realized
      /\ Project(fill, price).entry = v
    BY <1>5 DEF Project
<1>7. /\ v \in Int /\ (p + q) * v <= p * e + q * price
      /\ p * e + q * price < (p + q) * v + (p + q)
      /\ \A low \in Int : low <= e /\ low <= price => low <= v
      /\ \A high \in Int : e <= high /\ price <= high => v <= high
    <2>1. v = (p * e + q * price) \div (p + q)
        BY <1>1
    <2>2. IsAverage(v, p, q, e, price)
        BY <1>3, <2>1, AverageFacts
    <2> QED
        BY <2>2 DEF IsAverage
<1>8. Basis(v) = v /\ position * Basis(entry) = position * e
    <2>1. v # NoPrice
        BY <1>7, ConstantTypes
    <2>2. CASE entry = NoPrice
        <3>1. position = 0 /\ Basis(entry) = 0
            BY <2>2 DEF EntryIffOpen, Basis
        <3> QED
            BY <1>3, <2>1, <3>1 DEF Basis
    <2>3. CASE entry # NoPrice
        BY <1>1, <2>1, <2>3 DEF Basis
    <2> QED
        BY <2>2, <2>3
<1>9. ProjectError(fill, price) = fill * price - (position + fill) * v + position * e
    <2>1. (realized - realized) * Unit = 0
        BY <1>2
    <2>2. ProjectError(fill, price)
             = (realized - realized) * Unit + fill * price - (position + fill) * v + position * e
        BY <1>6, <1>8 DEF ProjectError
    <2>3. PICK x, y, z : x = fill * price /\ y = (position + fill) * v /\ z = position * e
        OBVIOUS
    <2>4. x \in Int /\ y \in Int /\ z \in Int
        BY <1>2, <1>3, <1>7, <2>3
    <2> QED
        BY <2>1, <2>2, <2>3, <2>4
<1>10. PICK a, b : a = p * e + q * price /\ b = (p + q) * v
    OBVIOUS
<1>11. a \in Int /\ b \in Int /\ b <= a /\ a < b + (p + q)
    BY <1>3, <1>7, <1>10
<1>12. ProjectError(fill, price) = a - b \/ ProjectError(fill, price) = b - a
    <2>1. CASE fill > 0
        <3>1. position = p /\ fill = q
            BY <1>1, <1>2, <2>1 DEF AbsOf, SignOf
        <3> QED
            BY <1>3, <1>7, <1>9, <1>10, <1>11, <3>1
    <2>2. CASE fill < 0
        <3>1. position = -p /\ fill = -q
            BY <1>1, <1>2, <2>2 DEF AbsOf, SignOf
        <3>2. /\ (-q) * price = -(q * price)
              /\ (-p + -q) * v = -b
              /\ (-p) * e = -(p * e)
            BY <1>3, <1>7, <1>10
        <3>3. PICK x, y : x = q * price /\ y = p * e
            OBVIOUS
        <3>4. x \in Int /\ y \in Int /\ a = y + x
            BY <1>3, <1>10, <3>3
        <3>5. ProjectError(fill, price) = -x - (-b) + (-y)
            BY <1>9, <3>1, <3>2, <3>3
        <3> QED
            BY <1>11, <3>4, <3>5
    <2> QED
        BY <2>1, <2>2
<1>13. AbsOf(ProjectError(fill, price)) <= p + q /\ ProjectError(fill, price) \in Int
    BY <1>3, <1>11, <1>12 DEF AbsOf
<1>14. ASSUME NEW low \in Int, NEW high \in Int, low <= price, price <= high,
              entry # NoPrice => low <= entry /\ entry <= high
       PROVE  low <= v /\ v <= high
    <2>1. low <= e /\ e <= high
        BY <1>1, <1>14
    <2> QED
        BY <1>7, <1>14, <2>1
<1> QED
    BY <1>4, <1>6, <1>13, <1>14

\* A fill against it.
LEMMA ClosingLoses ==
    ASSUME PracticeTypeOK, EntryIffOpen, NEW fill \in Int, fill # 0, NEW price \in Int,
           ~(position = 0 \/ SignOf(position) = SignOf(fill))
    PROVE  /\ ProjectError(fill, price) \in Int
           /\ AbsOf(ProjectError(fill, price)) <= Unit - 1
           /\ position # 0
           /\ \A low, high \in Int :
                 /\ low <= price /\ price <= high
                 /\ entry # NoPrice => low <= entry /\ entry <= high
                 /\ Project(fill, price).entry # NoPrice
                 => /\ low <= Project(fill, price).entry
                    /\ Project(fill, price).entry <= high
<1>1. /\ position \in Int /\ position # 0 /\ entry \in Int /\ entry # NoPrice
      /\ realized \in Int /\ Unit \in Nat \ {0}
    BY ConstantTypes DEF PracticeTypeOK, EntryIffOpen, Price
<1>2. PICK c, s, m : /\ c = MinOf(AbsOf(position), AbsOf(fill))
                     /\ s = (IF position < 0 THEN -1 ELSE 1) * (price - entry)
                     /\ m = MulDiv(c, s, Unit)
    OBVIOUS
<1>3. c \in Nat /\ s \in Int
    BY <1>1, <1>2 DEF MinOf, AbsOf
<1>4. m \in Int /\ c * s - Unit * m <= Unit - 1 /\ Unit * m - c * s <= Unit - 1
    <2>1. m = MulDiv(c, s, Unit)
        BY <1>2
    <2>2. c \in Int /\ s \in Int /\ Unit \in Nat \ {0}
        BY <1>1, <1>3
    <2>3. MulDiv(c, s, Unit) \in Int
        BY <2>2, MulDivInt
    <2>4. /\ c * s - Unit * MulDiv(c, s, Unit) <= Unit - 1
          /\ Unit * MulDiv(c, s, Unit) - c * s <= Unit - 1
        BY <2>2, MulDivError, Zenon
    <2> QED
        BY <2>1, <2>3, <2>4, Zenon
<1>5. RealizedByClosing(fill, price) = realized + m
    BY <1>1, <1>2 DEF RealizedByClosing
<1>6. /\ Project(fill, price).position = position + fill
      /\ Project(fill, price).realized = realized + m
      /\ Project(fill, price).entry = EntryAfterClosing(fill, price)
    BY <1>5 DEF Project
<1>7. PICK n : n = Basis(EntryAfterClosing(fill, price))
    OBVIOUS
<1>8. n \in Int
    BY <1>1, <1>7, ConstantTypes DEF Basis, EntryAfterClosing
<1>9. ProjectError(fill, price)
        = m * Unit + fill * price - (position + fill) * n + position * entry
    <2>1. Basis(entry) = entry /\ (realized + m) - realized = m
        BY <1>1, <1>4 DEF Basis
    <2> QED
        BY <1>6, <1>7, <2>1 DEF ProjectError
<1>10. fill * price - (position + fill) * n + position * entry = -(c * s)
    <2>1. CASE AbsOf(fill) < AbsOf(position)
        <3>1. position + fill # 0 /\ SignOf(position + fill) = SignOf(position)
            BY <1>1, <2>1 DEF AbsOf, SignOf
        <3>2. n = entry
            BY <1>1, <1>7, <3>1 DEF Basis, EntryAfterClosing
        <3>3. c * s = -(fill * (price - entry))
            <4>1. CASE position < 0
                <5>1. c = fill /\ s = (-1) * (price - entry)
                    BY <1>1, <1>2, <2>1, <4>1 DEF MinOf, AbsOf, SignOf
                <5> QED
                    BY <1>1, <5>1
            <4>2. CASE ~(position < 0)
                <5>1. c = -fill /\ s = 1 * (price - entry)
                    BY <1>1, <1>2, <2>1, <4>2 DEF MinOf, AbsOf, SignOf
                <5> QED
                    BY <1>1, <5>1
            <4> QED
                BY <4>1, <4>2
        <3>4. fill * price - (position + fill) * entry + position * entry
                = fill * (price - entry)
            BY <1>1
        <3>5. fill * (price - entry) \in Int
            BY <1>1
        <3> QED
            BY <3>2, <3>3, <3>4, <3>5
    <2>2. CASE ~(AbsOf(fill) < AbsOf(position))
        <3>1. c * s = position * (price - entry)
            <4>1. CASE position < 0
                <5>1. c = -position /\ s = (-1) * (price - entry)
                    BY <1>1, <1>2, <2>2, <4>1 DEF MinOf, AbsOf
                <5> QED
                    BY <1>1, <5>1
            <4>2. CASE ~(position < 0)
                <5>1. c = position /\ s = 1 * (price - entry)
                    BY <1>1, <1>2, <2>2, <4>2 DEF MinOf, AbsOf
                <5> QED
                    BY <1>1, <5>1
            <4> QED
                BY <4>1, <4>2
        <3>2. (position + fill) * n = (position + fill) * price
            <4>1. CASE position + fill = 0
                BY <1>8, <4>1
            <4>2. CASE position + fill # 0
                <5>1. SignOf(position + fill) # SignOf(position)
                    BY <1>1, <2>2, <4>2 DEF AbsOf, SignOf
                <5>2. price # NoPrice
                    BY ConstantTypes
                <5>3. n = price
                    BY <1>7, <4>2, <5>1, <5>2 DEF Basis, EntryAfterClosing
                <5> QED
                    BY <5>3
            <4> QED
                BY <4>1, <4>2
        <3>3. fill * price - (position + fill) * price + position * entry
                = -(position * (price - entry))
            BY <1>1
        <3> QED
            BY <3>1, <3>2, <3>3
    <2> QED
        BY <2>1, <2>2
<1>11. ProjectError(fill, price) = Unit * m - c * s
    <2>1. PICK x, y, z, w, t : /\ x = fill * price /\ y = (position + fill) * n
                               /\ z = position * entry /\ w = m * Unit /\ t = c * s
        OBVIOUS
    <2>2. x \in Int /\ y \in Int /\ z \in Int /\ w \in Int /\ t \in Int /\ w = Unit * m
        BY <1>1, <1>3, <1>4, <1>8, <2>1
    <2>3. ProjectError(fill, price) = w + x - y + z /\ x - y + z = -t
        BY <1>9, <1>10, <2>1
    <2> QED
        BY <2>1, <2>2, <2>3
<1>12. AbsOf(ProjectError(fill, price)) <= Unit - 1 /\ ProjectError(fill, price) \in Int
    <2>1. PICK x, y : x = Unit * m /\ y = c * s
        OBVIOUS
    <2>2. x \in Int /\ y \in Int
        BY <1>1, <1>3, <1>4, <2>1
    <2> QED
        BY <1>1, <1>4, <1>11, <2>1, <2>2 DEF AbsOf
<1>13. EntryAfterClosing(fill, price) \in {NoPrice, entry, price}
    BY DEF EntryAfterClosing
<1> QED
    BY <1>1, <1>6, <1>12, <1>13

-----------------------------------------------------------------------------
(***************************************************************************)
(* The account as the sum of its fills. The invariant is about the value   *)
(* on the books: realized profit, what the fills moved and the position at *)
(* its entry price. One fill adds at most the position it leaves, or one   *)
(* unit of money, to the error.                                            *)
(***************************************************************************)

\* What is known of every order: a working one has not filled, and its limit is
\* a price of the path; one that filled has the price it filled at.
GoodOrder ==
    {o \in Order :
        /\ o.filled > 0 => o.price \in Int
        /\ o.status = "WORKING" =>
              /\ o.filled = 0 /\ o.qty >= 0
              /\ o.price # NoPrice => LowestFill <= o.price /\ o.price <= HighestFill}

SignedBy == [o \in GoodOrder |-> SignedFill(o)]
ProceedsBy == [o \in GoodOrder |-> Proceeds(o)]
FilledBy == [o \in GoodOrder |-> o.filled]
CountBy == [o \in GoodOrder |-> Fills(o)]
Figure == {SignedBy, ProceedsBy, FilledBy, CountBy}

BookError(pos, ent, gain, cash) == gain * Unit - cash - pos * Basis(ent)

BooksOK(pos, ent, gain, cash, traded, count) ==
    /\ cash \in Int /\ traded \in Int /\ count \in Nat
    /\ AbsOf(pos) <= traded
    /\ count = 0 => pos = 0 /\ BookError(pos, ent, gain, cash) = 0
    /\ count > 0 => AbsOf(BookError(pos, ent, gain, cash))
                       <= count * traded + (count - 1) * Unit

FillsInv ==
    /\ orders \in Seq(GoodOrder)
    /\ position = SumBy(SignedBy, orders)
    /\ EntryInRange
    /\ BooksOK(position, entry, realized, SumBy(ProceedsBy, orders),
               SumBy(FilledBy, orders), SumBy(CountBy, orders))

\* The four figures are numbers.
LEMMA FigureTypes == \A g \in Figure : g \in [GoodOrder -> Int]
<1>1. ASSUME NEW o \in GoodOrder
      PROVE  /\ o.filled \in Int /\ SignedFill(o) \in Int /\ Proceeds(o) \in Int
             /\ Fills(o) \in Int
    <2>1. o.filled \in Int /\ (o.filled > 0 => o.price \in Int)
        BY DEF GoodOrder, Order
    <2>2. SignedFill(o) \in Int
        BY <2>1 DEF SignedFill
    <2>3. Proceeds(o) \in Int
        BY <2>1, <2>2 DEF Proceeds
    <2> QED
        BY <2>1, <2>2, <2>3 DEF Fills
<1> QED
    BY <1>1 DEF Figure, SignedBy, ProceedsBy, FilledBy, CountBy

LEMMA FiguresOf ==
    \A o \in GoodOrder :
        /\ SignedBy[o] = SignedFill(o) /\ ProceedsBy[o] = Proceeds(o)
        /\ FilledBy[o] = o.filled /\ CountBy[o] = Fills(o)
BY DEF SignedBy, ProceedsBy, FilledBy, CountBy

LEMMA NoneNegated == \A f \in Int : f >= 0 /\ f <= 0 => -f = f
OBVIOUS

\* An order that has not filled counts for nothing.
LEMMA FigureOfUnfilled ==
    ASSUME NEW o \in GoodOrder, o.filled = 0
    PROVE  \A g \in Figure : g[o] = 0
<1>1. SignedFill(o) = 0
    <2>1. o.filled \in Int /\ o.filled >= 0 /\ o.filled <= 0
        OBVIOUS
    <2>2. -o.filled = o.filled
        BY <2>1, NoneNegated, Zenon
    <2> QED
        BY <2>2, Zenon DEF SignedFill
<1>2. Proceeds(o) = 0 /\ Fills(o) = 0
    BY DEF Proceeds, Fills
<1> QED
    BY <1>1, <1>2, FiguresOf DEF Figure

\* The figures the property names are those sums.
LEMMA FiguresAre ==
    ASSUME orders \in Seq(GoodOrder)
    PROVE  /\ PositionIsFills <=> position = SumBy(SignedBy, orders)
           /\ CashFromFills = SumBy(ProceedsBy, orders)
           /\ Traded = SumBy(FilledBy, orders)
           /\ FillCount = SumBy(CountBy, orders)
<1>1. \A i \in DOMAIN orders : orders[i] \in GoodOrder
    BY LenProperties, ElementOfSeq
<1>2. /\ [i \in DOMAIN orders |-> SignedFill(orders[i])] = Summands(SignedBy, orders)
      /\ [i \in DOMAIN orders |-> Proceeds(orders[i])] = Summands(ProceedsBy, orders)
      /\ [i \in DOMAIN orders |-> orders[i].filled] = Summands(FilledBy, orders)
      /\ [i \in DOMAIN orders |-> Fills(orders[i])] = Summands(CountBy, orders)
    BY <1>1 DEF Summands, SignedBy, ProceedsBy, FilledBy, CountBy
<1> QED
    BY <1>2, Zenon DEF PositionIsFills, CashFromFills, Traded, FillCount, SumBy

\* The prices of the path have a least and a greatest.
LEMMA FillRange ==
    /\ LowestFill \in Int /\ HighestFill \in Int
    /\ \A i \in DOMAIN Prices :
          LowestFill <= Prices[i] - HalfSpread /\ Prices[i] + HalfSpread <= HighestFill
<1> DEFINE P == {Prices[i] : i \in DOMAIN Prices}
           Top(n) == \E k \in 1 .. n : \A j \in 1 .. n : Prices[j] <= Prices[k]
           S == {n \in Nat : 0 < n /\ n <= Len(Prices) => Top(n)}
<1>1. /\ DOMAIN Prices = 1 .. Len(Prices) /\ Len(Prices) \in Nat /\ Len(Prices) >= 2
      /\ \A i \in 1 .. Len(Prices) : Prices[i] \in Nat
    BY ConstantTypes, PricesAssumption
<1>2. P \in SUBSET Nat /\ P # {}
    BY <1>1
<1>3. PICK low \in P : \A y \in P : low <= y
    BY <1>2, LeastNat
<1>4. Min(P) \in P /\ \A y \in P : Min(P) <= y
    BY <1>3 DEF Min
<1>5. 0 \in S
    OBVIOUS
<1>6. ASSUME NEW n \in S PROVE n + 1 \in S
    <2> SUFFICES ASSUME n + 1 <= Len(Prices) PROVE Top(n + 1)
        OBVIOUS
    <2>1. n \in Nat /\ (n = 0 \/ Top(n))
        BY <1>1
    <2>2. \A j \in 1 .. n + 1 : Prices[j] \in Nat /\ (j \in 1 .. n \/ j = n + 1)
        BY <1>1, <2>1
    <2>3. n + 1 \in 1 .. n + 1 /\ \A j \in 1 .. n : j \in 1 .. n + 1
        BY <2>1
    <2> HIDE DEF S
    <2>4. CASE n = 0
        <3>1. \A j \in 1 .. n + 1 : Prices[j] <= Prices[n + 1]
            BY <2>2, <2>4
        <3> QED
            BY <2>3, <3>1
    <2>5. CASE Top(n)
        <3>1. PICK k \in 1 .. n : \A j \in 1 .. n : Prices[j] <= Prices[k]
            BY <2>5
        <3>2. CASE Prices[n + 1] <= Prices[k]
            <4>1. \A j \in 1 .. n + 1 : Prices[j] <= Prices[k]
                BY <2>2, <3>1, <3>2
            <4> QED
                BY <2>3, <4>1
        <3>3. CASE ~(Prices[n + 1] <= Prices[k])
            <4>1. \A j \in 1 .. n + 1 : Prices[j] <= Prices[n + 1]
                <5>1. Prices[k] \in Nat /\ Prices[n + 1] \in Nat
                    BY <2>2, <2>3
                <5> QED
                    BY <2>2, <3>1, <3>3, <5>1
            <4> QED
                BY <2>3, <4>1
        <3> QED
            BY <3>2, <3>3
    <2> QED
        BY <2>1, <2>4, <2>5
<1>7. S \in SUBSET Nat
    OBVIOUS
<1> HIDE DEF S
<1>8. Len(Prices) \in S
    BY <1>1, <1>5, <1>6, <1>7, SetInduction
<1>9. PICK k \in 1 .. Len(Prices) : \A j \in 1 .. Len(Prices) : Prices[j] <= Prices[k]
    BY <1>1, <1>8 DEF S
<1>10. Prices[k] \in P /\ \A y \in P : Prices[k] >= y
    BY <1>1, <1>9
<1>11. Max(P) \in P /\ \A y \in P : Max(P) >= y
    BY <1>10 DEF Max
<1> HIDE DEF P
<1>12. \A i \in DOMAIN Prices : Prices[i] \in P
    BY DEF P
<1>13. Min(P) \in Nat /\ Max(P) \in Nat /\ HalfSpread \in Nat
    BY <1>2, <1>4, <1>11, ConstantTypes
<1>14. LowestFill = Min(P) - HalfSpread /\ HighestFill = Max(P) + HalfSpread
    BY DEF LowestFill, HighestFill, P
<1>15. ASSUME NEW i \in DOMAIN Prices
       PROVE  /\ LowestFill <= Prices[i] - HalfSpread
              /\ Prices[i] + HalfSpread <= HighestFill
    <2>1. Prices[i] \in Nat /\ Min(P) <= Prices[i] /\ Max(P) >= Prices[i]
        BY <1>1, <1>4, <1>11, <1>12
    <2> QED
        BY <1>13, <1>14, <2>1
<1> QED
    BY <1>13, <1>14, <1>15

\* Every price at which an order can fill or rest is in that range.
InRange(price) == price \in Int /\ LowestFill <= price /\ price <= HighestFill

LEMMA PricesInRange ==
    ASSUME PracticeTypeOK
    PROVE  /\ \A side \in {"BUY", "SELL"} : InRange(ExecutionPrice(side))
           /\ \A mode : PriceForMode(mode) = NoPrice \/ InRange(PriceForMode(mode))
<1>1. PICK mark : mark = Mark
    OBVIOUS
<1>2. mark \in Int /\ HalfSpread \in Nat
    BY <1>1, FiguresInt, ConstantTypes
<1>3. /\ LowestFill \in Int /\ HighestFill \in Int
      /\ LowestFill <= mark - HalfSpread /\ mark + HalfSpread <= HighestFill
    BY <1>1, FillRange DEF PracticeTypeOK, Mark
<1>4. InRange(mark - HalfSpread) /\ InRange(mark + HalfSpread) /\ InRange(mark)
    BY <1>2, <1>3 DEF InRange
<1> HIDE DEF InRange
<1> QED
    BY <1>1, <1>4 DEF ExecutionPrice, PriceForMode

\* The books survive a fill of q in the direction of side.
LEMMA BooksFill ==
    ASSUME PracticeTypeOK, EntryIffOpen, NEW fill \in Int, NEW q \in Nat \ {0},
           fill = q \/ fill = -q, NEW price \in Int,
           NEW cash, NEW traded, NEW count,
           BooksOK(position, entry, realized, cash, traded, count)
    PROVE  BooksOK(position + fill, Project(fill, price).entry,
                   Project(fill, price).realized,
                   cash - fill * price, traded + q, count + 1)
<1>1. PICK p, e0, e1, gain, lost :
         /\ p = Project(fill, price)
         /\ e0 = BookError(position, entry, realized, cash)
         /\ e1 = BookError(position + fill, p.entry, p.realized, cash - fill * price)
         /\ lost = ProjectError(fill, price)
         /\ gain = p.realized
    OBVIOUS
<1>2. /\ position \in Int /\ realized \in Int /\ Unit \in Nat \ {0} /\ fill # 0
      /\ cash \in Int /\ traded \in Int /\ count \in Nat /\ AbsOf(position) <= traded
    BY ConstantTypes DEF PracticeTypeOK, BooksOK
<1>3. /\ p.position = position + fill /\ p.realized \in Int /\ p.entry \in Price
    BY <1>1, <1>2, ProjectFacts
<1>4. Basis(entry) \in Int /\ Basis(p.entry) \in Int
    BY <1>3 DEF Basis, PracticeTypeOK, Price
<1>5. e0 \in Int /\ lost \in Int /\ e1 = e0 + lost
    <2>1. PICK a, b, c, d, f : /\ a = realized * Unit /\ b = p.realized * Unit
                               /\ c = position * Basis(entry)
                               /\ d = (position + fill) * Basis(p.entry)
                               /\ f = fill * price
        OBVIOUS
    <2>2. a \in Int /\ b \in Int /\ c \in Int /\ d \in Int /\ f \in Int
        BY <1>2, <1>3, <1>4, <2>1
    <2>3. (p.realized - realized) * Unit = b - a
        BY <1>2, <1>3, <2>1
    <2>4. e0 = a - cash - c /\ e1 = b - (cash - f) - d
        BY <1>1, <2>1 DEF BookError
    <2>5. lost = (b - a) + f - d + c
        BY <1>1, <1>3, <2>1, <2>3 DEF ProjectError
    <2> QED
        BY <1>2, <2>2, <2>4, <2>5
<1>6. \/ AbsOf(lost) <= AbsOf(position + fill)
      \/ AbsOf(lost) <= Unit - 1 /\ position # 0
    BY <1>1, <1>2, AveragingLoses, ClosingLoses
<1>7. AbsOf(position + fill) <= traded + q /\ traded >= 0
    BY <1>2 DEF AbsOf
<1>8. /\ count = 0 => position = 0 /\ e0 = 0
      /\ count > 0 => AbsOf(e0) <= count * traded + (count - 1) * Unit
    BY <1>1 DEF BooksOK
<1>9. AbsOf(e1) <= (count + 1) * (traded + q) + ((count + 1) - 1) * Unit
    <2>1. PICK ct, cu, cq : ct = count * traded /\ cu = count * Unit /\ cq = count * q
        OBVIOUS
    <2>2. ct \in Nat /\ cu \in Nat /\ cq \in Nat
        BY <1>2, <1>7, <2>1
    <2>3. (count + 1) * (traded + q) = ct + cq + traded + q
        BY <1>2, <2>1
    <2>4. ((count + 1) - 1) * Unit = cu /\ (count - 1) * Unit = cu - Unit
        BY <1>2, <2>1
    <2>5. CASE count = 0
        <3>1. e0 = 0 /\ position = 0
            BY <1>8, <2>5
        <3>2. AbsOf(lost) <= AbsOf(position + fill)
            BY <1>6, <3>1
        <3>3. AbsOf(lost) \in Int /\ AbsOf(position + fill) \in Int
            BY <1>2, <1>5 DEF AbsOf
        <3>4. AbsOf(lost) <= traded + q
            BY <1>2, <1>7, <3>2, <3>3
        <3> QED
            BY <1>2, <1>5, <2>2, <2>3, <2>4, <3>1, <3>4 DEF AbsOf
    <2>6. CASE count > 0
        <3>1. AbsOf(e0) <= ct + (cu - Unit)
            BY <1>8, <2>1, <2>4, <2>6
        <3>2. AbsOf(lost) <= traded + q \/ AbsOf(lost) <= Unit - 1
            BY <1>2, <1>5, <1>6, <1>7 DEF AbsOf
        <3> QED
            BY <1>2, <1>5, <1>7, <2>2, <2>3, <2>4, <3>1, <3>2 DEF AbsOf
    <2> QED
        BY <1>2, <2>5, <2>6
<1>10. cash - fill * price \in Int /\ traded + q \in Int /\ count + 1 \in Nat /\ count + 1 # 0
    BY <1>2
<1> QED
    BY <1>1, <1>7, <1>9, <1>10 DEF BooksOK

\* fillOrder on a working order: it fills nothing, or once and for all.
LEMMA FillOrderCases ==
    ASSUME PracticeTypeOK, EntryIffOpen,
           NEW o \in GoodOrder, o.status = "WORKING", NEW price \in Int, NEW feeRate \in Int,
           NEW r, r = FillOrder(o, price, feeRate)
    PROVE  /\ r.order \in GoodOrder
           /\ \/ /\ r.order.filled = 0 /\ r.position = position /\ r.entry = entry
                 /\ r.realized = realized
              \/ \E q \in Nat \ {0} :
                    LET fill == IF o.side = "BUY" THEN q ELSE -q
                    IN  /\ r.order.filled = q /\ r.order.side = o.side
                        /\ r.order.price = price
                        /\ r.position = position + fill
                        /\ r.entry = Project(fill, price).entry
                        /\ r.realized = Project(fill, price).realized
<1>1. o \in Order /\ o.filled = 0 /\ o.qty >= 0 /\ o.qty \in Int
    BY DEF GoodOrder, Order
<1>2. r.order \in Order /\ r.order.status # "WORKING"
    BY <1>1, FillOrderFacts
<1>3. PICK q, fill : q = FillQuantity(o) /\ fill = IF o.side = "BUY" THEN q ELSE -q
    OBVIOUS
<1>4. q \in Nat
    BY <1>1, <1>3 DEF FillQuantity, MaxOf, MinOf, PracticeTypeOK
<1>5. PICK p : p = Project(fill, price)
    OBVIOUS
<1>6. \/ \E verdict \in {"CANCELED", "REJECTED"} : r = Unfilled(o, verdict)
      \/ /\ q # 0
         /\ r.order = Filled(o, q, price) /\ r.position = p.position
         /\ r.entry = p.entry /\ r.realized = p.realized
    BY <1>3, <1>5 DEF FillOrder
<1>7. CASE \E verdict \in {"CANCELED", "REJECTED"} : r = Unfilled(o, verdict)
    <2>1. /\ r.order.filled = 0 /\ r.position = position /\ r.entry = entry
          /\ r.realized = realized
        <3>1. PICK verdict \in {"CANCELED", "REJECTED"} : r = Unfilled(o, verdict)
            BY <1>7
        <3>2. PICK c : c = [o EXCEPT !.status = verdict]
            OBVIOUS
        <3>3. c.filled = 0
            BY <1>1, <3>2 DEF Order
        <3>4. r = [order |-> c, position |-> position, entry |-> entry,
                   realized |-> realized, fees |-> fees]
            BY <3>1, <3>2 DEF Unfilled
        <3> QED
            BY <3>3, <3>4
    <2> QED
        BY <1>2, <2>1 DEF GoodOrder
<1>8. CASE /\ q # 0
           /\ r.order = Filled(o, q, price) /\ r.position = p.position
           /\ r.entry = p.entry /\ r.realized = p.realized
    <2>1. r.order.filled = q /\ r.order.side = o.side /\ r.order.price = price
        <3>1. PICK total, verdict : /\ total = o.filled + q
                                    /\ verdict = IF o.filled + q < o.qty THEN "CANCELED"
                                                                         ELSE "FILLED"
            OBVIOUS
        <3>2. r.order = [o EXCEPT !.filled = total, !.price = price, !.status = verdict]
            BY <1>8, <3>1 DEF Filled
        <3>3. total = q
            BY <1>1, <1>4, <3>1
        <3> QED
            BY <1>1, <3>2, <3>3 DEF Order
    <2>2. r.order \in GoodOrder
        BY <1>2, <2>1 DEF GoodOrder
    <2>3. fill \in Int /\ fill # 0 /\ q \in Nat \ {0}
        BY <1>3, <1>4, <1>8
    <2>4. p.position = position + fill
        BY <1>5, <2>3, ProjectFacts
    <2> QED
        BY <1>3, <1>5, <1>8, <2>1, <2>2, <2>3, <2>4
<1> QED
    BY <1>6, <1>7, <1>8

\* The list of orders gains what x filled, in each figure.
Gains(list, other, x) ==
    /\ other \in Seq(GoodOrder)
    /\ \A g \in Figure : SumBy(g, other) = SumBy(g, list) + g[x]

LEMMA GainsAppend ==
    ASSUME NEW list \in Seq(GoodOrder), NEW x \in GoodOrder
    PROVE  Gains(list, Append(list, x), x)
<1>1. Append(list, x) \in Seq(GoodOrder)
    BY AppendProperties
<1>2. ASSUME NEW g \in Figure
      PROVE  SumBy(g, Append(list, x)) = SumBy(g, list) + g[x]
    <2>1. g \in [GoodOrder -> Int]
        BY FigureTypes
    <2> QED
        BY <2>1, SumByAppend
<1> QED
    BY <1>1, <1>2 DEF Gains

LEMMA GainsExcept ==
    ASSUME NEW list \in Seq(GoodOrder), NEW x \in GoodOrder, NEW k \in 1 .. Len(list),
           list[k].filled = 0
    PROVE  Gains(list, [list EXCEPT ![k] = x], x)
<1>1. list[k] \in GoodOrder
    BY ElementOfSeq
<1>2. [list EXCEPT ![k] = x] \in Seq(GoodOrder)
    BY ExceptSeq
<1>3. ASSUME NEW g \in Figure
      PROVE  SumBy(g, [list EXCEPT ![k] = x]) = SumBy(g, list) + g[x]
    <2>1. g \in [GoodOrder -> Int] /\ g[list[k]] = 0
        BY <1>1, FigureTypes, FigureOfUnfilled
    <2>2. PICK other : other = [list EXCEPT ![k] = x]
        OBVIOUS
    <2>5. /\ other \in Seq(GoodOrder) /\ Len(other) = Len(list)
          /\ \A i \in 1 .. Len(list) : other[i] = IF i = k THEN x ELSE list[i]
        BY <2>2, ExceptSeq
    <2>3. SumBy(g, other) = SumBy(g, list) + (g[x] - g[list[k]])
        BY <2>1, <2>5, SumByExcept
    <2>4. g[x] \in Int /\ g[x] - g[list[k]] = g[x]
        BY <2>1
    <2> QED
        BY <2>2, <2>3, <2>4
<1> QED
    BY <1>2, <1>3 DEF Gains

\* cancelWorkingOrders changes no figure.
LEMMA CancelGains ==
    ASSUME NEW list \in Seq(GoodOrder)
    PROVE  /\ CancelWorking(list) \in Seq(GoodOrder)
           /\ \A g \in Figure : SumBy(g, CancelWorking(list)) = SumBy(g, list)
<1>1. PICK other : other = CancelWorking(list)
    OBVIOUS
<1>2. /\ Len(list) \in Nat /\ DOMAIN list = 1 .. Len(list)
      /\ \A i \in 1 .. Len(list) : list[i] \in GoodOrder
    BY LenProperties, ElementOfSeq
<1>3. other = [i \in 1 .. Len(list) |->
                 IF list[i].status = "WORKING" THEN [list[i] EXCEPT !.status = "CANCELED"]
                                               ELSE list[i]]
    BY <1>1, <1>2 DEF CancelWorking
<1>4. ASSUME NEW i \in 1 .. Len(list)
      PROVE  other[i] \in GoodOrder /\ \A g \in Figure : g[other[i]] = g[list[i]]
    <2>1. PICK o, c : o = list[i] /\ c = [o EXCEPT !.status = "CANCELED"]
        OBVIOUS
    <2>2. o \in Order /\ o \in GoodOrder
        BY <1>2, <2>1 DEF GoodOrder
    <2>3. /\ c \in Order /\ c.status = "CANCELED" /\ c.filled = o.filled
          /\ c.price = o.price /\ c.side = o.side
        BY <2>1, <2>2 DEF Order
    <2>4. c \in GoodOrder
        BY <2>2, <2>3 DEF GoodOrder
    <2>5. SignedFill(c) = SignedFill(o)
        BY <2>3 DEF SignedFill
    <2>6. Proceeds(c) = Proceeds(o) /\ Fills(c) = Fills(o)
        BY <2>3, <2>5 DEF Proceeds, Fills
    <2>7. \A g \in Figure : g[c] = g[o]
        BY <2>2, <2>3, <2>4, <2>5, <2>6, FiguresOf DEF Figure
    <2>8. other[i] = c \/ other[i] = o
        BY <1>3, <2>1
    <2> QED
        BY <2>1, <2>2, <2>4, <2>7, <2>8
<1>5. other \in [1 .. Len(list) -> GoodOrder]
    BY <1>3, <1>4
<1>6. other \in Seq(GoodOrder)
    BY <1>2, <1>5, SeqDef
<1>7. Len(other) = Len(list)
    <2>1. DOMAIN other = 1 .. Len(list) /\ DOMAIN other = 1 .. Len(other) /\ Len(other) \in Nat
        BY <1>5, <1>6, LenProperties
    <2> QED
        BY <1>2, <2>1
<1>8. ASSUME NEW g \in Figure PROVE SumBy(g, other) = SumBy(g, list)
    <2>1. g \in [GoodOrder -> Int] /\ \A i \in 1 .. Len(list) : g[other[i]] = g[list[i]]
        BY <1>4, FigureTypes
    <2> QED
        BY <1>6, <1>7, <2>1, SumBySame
<1> QED
    BY <1>1, <1>6, <1>8

\* What a fill does to the entry price keeps it in the range.
LEMMA EntryKept ==
    ASSUME PracticeTypeOK, EntryIffOpen, EntryInRange, NEW fill \in Int, fill # 0,
           NEW price, InRange(price), NEW e, e = Project(fill, price).entry
    PROVE  e # NoPrice => LowestFill <= e /\ e <= HighestFill
<1>1. PICK low, high : low = LowestFill /\ high = HighestFill
    OBVIOUS
<1>2. /\ low \in Int /\ high \in Int /\ price \in Int /\ low <= price /\ price <= high
      /\ entry # NoPrice => low <= entry /\ entry <= high
    BY <1>1, FillRange DEF InRange, EntryInRange
<1>3. CASE position = 0 \/ SignOf(position) = SignOf(fill)
    BY <1>1, <1>2, <1>3, AveragingLoses
<1>4. CASE ~(position = 0 \/ SignOf(position) = SignOf(fill))
    BY <1>1, <1>2, <1>4, ClosingLoses
<1> QED
    BY <1>3, <1>4

\* The figures of an order that filled q at the price.
LEMMA FilledFigures ==
    ASSUME NEW x \in GoodOrder, NEW q \in Nat \ {0}, NEW price \in Int, NEW fill,
           x.filled = q, x.price = price, fill = IF x.side = "BUY" THEN q ELSE -q
    PROVE  /\ SignedBy[x] = fill /\ ProceedsBy[x] = -(fill * price)
           /\ FilledBy[x] = q /\ CountBy[x] = 1
<1>1. SignedFill(x) = fill
    BY DEF SignedFill
<1>2. Proceeds(x) = -(fill * price) /\ Fills(x) = 1
    BY <1>1 DEF Proceeds, Fills
<1> QED
    BY <1>1, <1>2, FiguresOf

\* A step that books the result of fillOrder and records its order.
LEMMA FillKeeps ==
    ASSUME Inv, FillsInv, NEW o \in GoodOrder, o.status = "WORKING",
           NEW price, InRange(price), NEW feeRate \in Int,
           NEW r, r = FillOrder(o, price, feeRate), Book(r),
           NEW list \in Seq(GoodOrder),
           \A g \in Figure : SumBy(g, list) = SumBy(g, orders),
           Gains(list, orders', r.order)
    PROVE  FillsInv'
<1>1. PICK x, pos, cash, traded, count :
         /\ x = r.order /\ pos = SumBy(SignedBy, orders) /\ cash = SumBy(ProceedsBy, orders)
         /\ traded = SumBy(FilledBy, orders) /\ count = SumBy(CountBy, orders)
    OBVIOUS
<1>2. /\ PracticeTypeOK /\ EntryIffOpen /\ price \in Int
      /\ EntryInRange /\ BooksOK(position, entry, realized, cash, traded, count)
      /\ position = pos
    BY <1>1 DEF Inv, FillsInv, InRange
<1>3. /\ position' = r.position /\ entry' = r.entry /\ realized' = r.realized
    BY DEF Book
<1>4. /\ orders' \in Seq(GoodOrder)
      /\ SumBy(SignedBy, orders') = pos + SignedBy[x]
      /\ SumBy(ProceedsBy, orders') = cash + ProceedsBy[x]
      /\ SumBy(FilledBy, orders') = traded + FilledBy[x]
      /\ SumBy(CountBy, orders') = count + CountBy[x]
    BY <1>1 DEF Gains, Figure
<1>5. /\ x \in GoodOrder
      /\ \/ /\ x.filled = 0 /\ r.position = position /\ r.entry = entry
            /\ r.realized = realized
         \/ \E q \in Nat \ {0} :
               LET fill == IF o.side = "BUY" THEN q ELSE -q
               IN  /\ x.filled = q /\ x.side = o.side /\ x.price = price
                   /\ r.position = position + fill
                   /\ r.entry = Project(fill, price).entry
                   /\ r.realized = Project(fill, price).realized
    BY <1>1, <1>2, FillOrderCases
<1>6. /\ cash \in Int /\ traded \in Int /\ count \in Nat /\ position \in Int
    BY <1>2 DEF BooksOK, PracticeTypeOK
<1>7. /\ position' = SumBy(SignedBy, orders')
      /\ entry' # NoPrice => LowestFill <= entry' /\ entry' <= HighestFill
      /\ BooksOK(position', entry', realized', SumBy(ProceedsBy, orders'),
                 SumBy(FilledBy, orders'), SumBy(CountBy, orders'))
    <2>1. CASE /\ x.filled = 0 /\ r.position = position /\ r.entry = entry
               /\ r.realized = realized
        <3>1. SignedBy[x] = 0 /\ ProceedsBy[x] = 0 /\ FilledBy[x] = 0 /\ CountBy[x] = 0
            BY <1>5, <2>1, FigureOfUnfilled DEF Figure
        <3>2. /\ SumBy(SignedBy, orders') = position /\ SumBy(ProceedsBy, orders') = cash
              /\ SumBy(FilledBy, orders') = traded /\ SumBy(CountBy, orders') = count
            BY <1>2, <1>4, <1>6, <3>1
        <3>3. position' = position /\ entry' = entry /\ realized' = realized
            BY <1>3, <2>1
        <3>4. entry' # NoPrice => LowestFill <= entry' /\ entry' <= HighestFill
            BY <1>2, <3>3 DEF EntryInRange
        <3> HIDE DEF BooksOK
        <3> QED
            BY <1>2, <3>2, <3>3, <3>4
    <2>2. CASE \E q \in Nat \ {0} :
               LET fill == IF o.side = "BUY" THEN q ELSE -q
               IN  /\ x.filled = q /\ x.side = o.side /\ x.price = price
                   /\ r.position = position + fill
                   /\ r.entry = Project(fill, price).entry
                   /\ r.realized = Project(fill, price).realized
        <3>1. PICK q \in Nat \ {0}, fill \in Int :
                 /\ fill = IF o.side = "BUY" THEN q ELSE -q
                 /\ x.filled = q /\ x.side = o.side /\ x.price = price
                 /\ r.position = position + fill
                 /\ r.entry = Project(fill, price).entry
                 /\ r.realized = Project(fill, price).realized
            BY <2>2
        <3>2. fill \in Int /\ fill # 0 /\ (fill = q \/ fill = -q)
            BY <3>1
        <3>3. /\ SignedBy[x] = fill /\ ProceedsBy[x] = -(fill * price)
              /\ FilledBy[x] = q /\ CountBy[x] = 1
            BY <1>2, <1>5, <3>1, FilledFigures
        <3>4. BooksOK(position + fill, Project(fill, price).entry,
                      Project(fill, price).realized,
                      cash - fill * price, traded + q, count + 1)
            BY <1>2, <3>2, BooksFill
        <3>5. entry' # NoPrice => LowestFill <= entry' /\ entry' <= HighestFill
            BY <1>2, <1>3, <3>1, <3>2, EntryKept
        <3>6. cash + -(fill * price) = cash - fill * price
            <4>1. PICK m : m = fill * price
                OBVIOUS
            <4>2. m \in Int
                BY <1>2, <3>2, <4>1
            <4> QED
                BY <1>6, <4>1, <4>2
        <3>7. /\ position' = position + fill /\ entry' = Project(fill, price).entry
              /\ realized' = Project(fill, price).realized
            BY <1>3, <3>1
        <3>8. /\ SumBy(SignedBy, orders') = position + fill
              /\ SumBy(ProceedsBy, orders') = cash - fill * price
              /\ SumBy(FilledBy, orders') = traded + q
              /\ SumBy(CountBy, orders') = count + 1
            BY <1>2, <1>4, <3>3, <3>6, Zenon
        <3> QED
            BY <3>4, <3>5, <3>7, <3>8, Zenon
    <2> QED
        BY <1>5, <2>1, <2>2
<1> QED
    BY <1>4, <1>7 DEF FillsInv, EntryInRange, BooksOK, BookError, Basis, AbsOf,
                      GoodOrder, Order, Price, LowestFill, HighestFill

\* A step that fills nothing and leaves the books alone.
LEMMA BooksSame ==
    ASSUME FillsInv, UNCHANGED <<position, entry, realized>>, orders' \in Seq(GoodOrder),
           \A g \in Figure : SumBy(g, orders') = SumBy(g, orders)
    PROVE  FillsInv'
<1>1. /\ SumBy(SignedBy, orders') = SumBy(SignedBy, orders)
      /\ SumBy(ProceedsBy, orders') = SumBy(ProceedsBy, orders)
      /\ SumBy(FilledBy, orders') = SumBy(FilledBy, orders)
      /\ SumBy(CountBy, orders') = SumBy(CountBy, orders)
    BY DEF Figure
<1>2. position' = position /\ entry' = entry /\ realized' = realized
    OBVIOUS
<1>3. BooksOK(position', entry', realized', SumBy(ProceedsBy, orders'),
              SumBy(FilledBy, orders'), SumBy(CountBy, orders'))
    BY <1>1, <1>2, Zenon DEF FillsInv
<1>4. /\ position' = SumBy(SignedBy, orders')
      /\ entry' # NoPrice => LowestFill <= entry' /\ entry' <= HighestFill
    BY <1>1, <1>2 DEF FillsInv, EntryInRange
<1> QED
    BY <1>3, <1>4 DEF FillsInv, EntryInRange, BooksOK, BookError, Basis, AbsOf,
                      GoodOrder, Order, Price, LowestFill, HighestFill

\* An order that did not fill is recorded.
LEMMA RecordKeeps ==
    ASSUME FillsInv, UNCHANGED <<position, entry, realized>>, NEW x \in GoodOrder,
           x.filled = 0, orders' = Append(orders, x)
    PROVE  FillsInv'
<1>1. orders \in Seq(GoodOrder)
    BY DEF FillsInv
<1>2. Gains(orders, orders', x)
    BY <1>1, GainsAppend
<1>3. ASSUME NEW g \in Figure PROVE SumBy(g, orders') = SumBy(g, orders)
    <2>1. g \in [GoodOrder -> Int] /\ g[x] = 0
        BY FigureTypes, FigureOfUnfilled
    <2>2. SumBy(g, orders) \in Int
        BY <1>1, <2>1, SumByInt
    <2>3. SumBy(g, orders') = SumBy(g, orders) + g[x]
        BY <1>2 DEF Gains
    <2> QED
        BY <2>1, <2>2, <2>3
<1>4. orders' \in Seq(GoodOrder)
    BY <1>2 DEF Gains
<1> QED
    BY <1>3, <1>4, BooksSame

\* The order that SubmitOrder builds.
LEMMA NewOrderGood ==
    ASSUME PracticeTypeOK, NEW r \in Request, ValidRequest(r), NEW o, o = NewOrder(r)
    PROVE  o \in GoodOrder /\ o.status = "WORKING" /\ o.filled = 0
<1>1. o \in Order /\ o.filled = 0
    BY NewOrderFacts
<1>2. o.status = "WORKING" /\ o.qty = ResolvedQuantity(r) /\ o.price = PriceForMode(r.mode)
    BY DEF NewOrder
<1>3. ResolvedQuantity(r) >= 0
    BY RequestAssumption DEF ResolvedQuantity, AbsOf, ValidRequest, PracticeTypeOK
<1>4. o.price # NoPrice => LowestFill <= o.price /\ o.price <= HighestFill
    BY <1>2, PricesInRange DEF InRange
<1> QED
    BY <1>1, <1>2, <1>3, <1>4 DEF GoodOrder

LEMMA SubmitFills ==
    ASSUME Inv, FillsInv, NEW r \in Request, SubmitOrder(r)
    PROVE  FillsInv'
<1>1. PICK o : o = NewOrder(r)
    OBVIOUS
<1>2. PracticeTypeOK /\ o \in GoodOrder /\ o.status = "WORKING" /\ o.filled = 0
    BY <1>1, NewOrderGood DEF Inv, SubmitOrder
<1>3. ASSUME NEW verdict \in {"WORKING", "CANCELED", "REJECTED"}, Record(o, verdict)
      PROVE  FillsInv'
    <2>1. PICK x : x = [o EXCEPT !.status = verdict]
        OBVIOUS
    <2>2. /\ x \in Order /\ x.filled = 0 /\ x.qty = o.qty /\ x.price = o.price
        BY <1>2, <2>1 DEF GoodOrder, Order
    <2>3. x \in GoodOrder
        BY <1>2, <2>2 DEF GoodOrder
    <2> QED
        BY <1>3, <2>1, <2>2, <2>3, RecordKeeps DEF Record, bookVars
<1>4. CASE TakeNow(o)
    <2>1. PICK price, result : /\ price = ExecutionPrice(o.side)
                               /\ result = FillOrder(o, price, TakerFee)
        OBVIOUS
    <2>2. o.side \in {"BUY", "SELL"}
        BY <1>2 DEF GoodOrder, Order
    <2>3. InRange(price) /\ TakerFee \in Int /\ price \in Int
        BY <1>2, <2>1, <2>2, PricesInRange, ConstantTypes DEF InRange
    <2>4. orders' = Append(orders, result.order) /\ Book(result)
        BY <1>4, <2>1 DEF TakeNow
    <2>5. result.order \in GoodOrder
        BY <1>2, <2>1, <2>3, FillOrderCases DEF Inv
    <2>6. orders \in Seq(GoodOrder)
        BY DEF FillsInv
    <2>7. Gains(orders, orders', result.order)
        BY <2>4, <2>5, <2>6, GainsAppend
    <2> QED
        BY <1>2, <2>1, <2>3, <2>4, <2>6, <2>7, FillKeeps
<1>5. CASE Rest(o)
    BY <1>2, <1>5, RecordKeeps DEF Rest, bookVars
<1>6. RejectNew(o) \/ ParkStop(o) \/ CancelNew(o) \/ TakeNow(o) \/ Rest(o)
    BY <1>1 DEF SubmitOrder
<1> QED
    BY <1>3, <1>4, <1>5, <1>6 DEF RejectNew, ParkStop, CancelNew

LEMMA ProcessFills ==
    ASSUME Inv, FillsInv, ProcessOrder
    PROVE  FillsInv'
<1>1. PICK i, o, result : /\ i = call.index /\ o = orders[i]
                          /\ result = IF ~Pending(o) THEN Unfilled(o, o.status)
                             ELSE IF Triggered(o)
                                  THEN FillOrder(o, ExecutionPrice(o.side), TakerFee)
                             ELSE IF Crossed(o) THEN FillOrder(o, o.price, MakerFee)
                             ELSE Unfilled(o, o.status)
    OBVIOUS
<1>2. /\ i \in Nat /\ i > 0 /\ i <= Len(orders) /\ PracticeTypeOK /\ EntryIffOpen
    BY <1>1 DEF ProcessOrder, Inv, CallConsistent, PracticeTypeOK, Call
<1>3. orders \in Seq(GoodOrder) /\ Len(orders) \in Nat /\ DOMAIN orders = 1 .. Len(orders)
    BY LenProperties DEF FillsInv
<1>4. i \in 1 .. Len(orders) /\ o \in GoodOrder
    <2>1. i \in 1 .. Len(orders)
        BY <1>2, <1>3
    <2> QED
        BY <1>1, <1>3, <2>1, ElementOfSeq
<1>5. orders' = [orders EXCEPT ![i] = result.order] /\ Book(result)
    BY <1>1 DEF ProcessOrder
<1>6. CASE result = Unfilled(o, o.status)
    <2>1. PICK c : c = [o EXCEPT !.status = o.status]
        OBVIOUS
    <2>2. c = o
        BY <1>4, <2>1 DEF GoodOrder, Order
    <2>3. result = [order |-> c, position |-> position, entry |-> entry,
                    realized |-> realized, fees |-> fees]
        BY <1>6, <2>1 DEF Unfilled
    <2>4. UNCHANGED <<position, entry, realized>> /\ result.order = o
        BY <1>5, <2>2, <2>3 DEF Book
    <2>5. orders' = orders
        BY <1>1, <1>3, <1>4, <1>5, <2>4
    <2> QED
        BY <1>3, <2>4, <2>5, BooksSame
<1>7. ASSUME NEW price, InRange(price), NEW feeRate \in Int, Pending(o),
             result = FillOrder(o, price, feeRate)
      PROVE  FillsInv'
    <2>1. o.status = "WORKING" /\ o.filled = 0 /\ price \in Int
        BY <1>4, <1>7 DEF Pending, GoodOrder, InRange
    <2>2. result.order \in GoodOrder
        BY <1>2, <1>4, <1>7, <2>1, FillOrderCases
    <2>3. Gains(orders, orders', result.order)
        BY <1>1, <1>3, <1>4, <1>5, <2>1, <2>2, GainsExcept
    <2> QED
        BY <1>3, <1>4, <1>5, <1>7, <2>1, <2>3, FillKeeps
<1>8. CASE Pending(o) /\ result = FillOrder(o, ExecutionPrice(o.side), TakerFee)
    <2>1. o.side \in {"BUY", "SELL"}
        BY <1>4 DEF GoodOrder, Order
    <2>2. InRange(ExecutionPrice(o.side)) /\ TakerFee \in Int
        BY <1>2, <2>1, PricesInRange, ConstantTypes
    <2> QED
        BY <1>7, <1>8, <2>2
<1>9. CASE Pending(o) /\ Crossed(o) /\ result = FillOrder(o, o.price, MakerFee)
    <2>1. o.price \in Int /\ LowestFill <= o.price /\ o.price <= HighestFill
        BY <1>4, <1>9 DEF Pending, Crossed, GoodOrder, Order, Price
    <2>2. InRange(o.price) /\ MakerFee \in Int
        BY <2>1, ConstantTypes DEF InRange
    <2> QED
        BY <1>7, <1>9, <2>2
<1>10. \/ result = Unfilled(o, o.status)
       \/ Pending(o) /\ result = FillOrder(o, ExecutionPrice(o.side), TakerFee)
       \/ Pending(o) /\ Crossed(o) /\ result = FillOrder(o, o.price, MakerFee)
    BY <1>1
<1> QED
    BY <1>6, <1>8, <1>9, <1>10

LEMMA LiquidateFills ==
    ASSUME Inv, FillsInv, Liquidate
    PROVE  FillsInv'
<1>1. PICK o, price, result, list :
         /\ o = LiquidationOrder /\ price = ExecutionPrice(o.side)
         /\ result = FillOrder(o, price, TakerFee) /\ list = CancelWorking(orders)
    OBVIOUS
<1>2. PracticeTypeOK /\ EntryIffOpen /\ position \in Int /\ orders \in Seq(GoodOrder)
    BY DEF Inv, FillsInv, PracticeTypeOK
<1>3. /\ o \in Order /\ o.filled = 0 /\ o.qty >= 0 /\ o.price = NoPrice
      /\ o.status = "WORKING" /\ o.side \in {"BUY", "SELL"}
    <2>1. AbsOf(position) \in Int /\ AbsOf(position) >= 0
        BY <1>2 DEF AbsOf
    <2> QED
        BY <1>1, <2>1 DEF LiquidationOrder, Order, Price
<1>4. o \in GoodOrder
    BY <1>3 DEF GoodOrder
<1>5. InRange(price) /\ TakerFee \in Int /\ price \in Int
    BY <1>1, <1>2, <1>3, PricesInRange, ConstantTypes DEF InRange
<1>6. orders' = Append(list, result.order) /\ Book(result)
    BY <1>1 DEF Liquidate
<1>7. result.order \in GoodOrder
    BY <1>1, <1>2, <1>3, <1>4, <1>5, FillOrderCases
<1>8. list \in Seq(GoodOrder) /\ \A g \in Figure : SumBy(g, list) = SumBy(g, orders)
    BY <1>1, <1>2, CancelGains
<1>9. Gains(list, orders', result.order)
    BY <1>6, <1>7, <1>8, GainsAppend
<1> QED
    BY <1>1, <1>3, <1>4, <1>5, <1>6, <1>8, <1>9, FillKeeps

\* Nothing is filled at first.
LEMMA InitFills == Init => FillsInv
<1> SUFFICES ASSUME Init PROVE FillsInv
    OBVIOUS
<1>1. orders = <<>> /\ position = 0 /\ entry = NoPrice /\ realized = 0
    BY DEF Init
<1>2. orders \in Seq(GoodOrder) /\ Len(orders) = 0
    BY <1>1, EmptySeq
<1>3. ASSUME NEW g \in Figure PROVE SumBy(g, orders) = 0
    <2>1. PICK s : s = Summands(g, orders)
        OBVIOUS
    <2>2. g \in [GoodOrder -> Int]
        BY FigureTypes
    <2>3. Len(s) = 0
        BY <1>2, <2>1, <2>2, SummandsTyped
    <2>4. PICK f : SumsTo(f, s, 0) /\ SumOf(s) = f[0]
        BY <2>3, SumIs
    <2>5. f[0] = 0
        BY <2>4 DEF SumsTo
    <2> QED
        BY <2>1, <2>4, <2>5 DEF SumBy
<1>4. /\ SumBy(SignedBy, orders) = 0 /\ SumBy(ProceedsBy, orders) = 0
      /\ SumBy(FilledBy, orders) = 0 /\ SumBy(CountBy, orders) = 0
    BY <1>3 DEF Figure
<1>5. BooksOK(0, NoPrice, 0, 0, 0, 0)
    BY ConstantTypes DEF BooksOK, BookError, Basis, AbsOf
<1> QED
    BY <1>1, <1>2, <1>4, <1>5, Zenon DEF FillsInv, EntryInRange

LEMMA NextFills == Inv /\ FillsInv /\ [Next]_vars => FillsInv'
<1> SUFFICES ASSUME Inv, FillsInv, [Next]_vars PROVE FillsInv'
    OBVIOUS
<1>1. CASE \E r \in Request : SubmitOrder(r)
    BY <1>1, SubmitFills
<1>2. CASE ProcessOrder
    BY <1>2, ProcessFills
<1>3. CASE Liquidate
    BY <1>3, LiquidateFills
<1>4. ASSUME ~(\E r \in Request : SubmitOrder(r)), ~ProcessOrder, ~Liquidate
      PROVE  /\ orders' = orders \/ orders' = CancelWorking(orders)
             /\ UNCHANGED <<position, entry, realized>>
    BY <1>4 DEF Next, SetLeverage, Advance, Reveal, OrdersDone, RiskHolds, vars, bookVars
<1>5. ASSUME ~(\E r \in Request : SubmitOrder(r)), ~ProcessOrder, ~Liquidate
      PROVE  FillsInv'
    <2>1. orders \in Seq(GoodOrder)
        BY DEF FillsInv
    <2>2. orders' \in Seq(GoodOrder) /\ \A g \in Figure : SumBy(g, orders') = SumBy(g, orders)
        BY <1>4, <1>5, <2>1, CancelGains
    <2> QED
        BY <1>4, <1>5, <2>2, BooksSame
<1> QED
    BY <1>1, <1>2, <1>3, <1>5

\* Equity reconciles with the books, up to one more rounding.
LEMMA FillsReconcile ==
    ASSUME Inv, FillsInv
    PROVE  EquityReconciles
<1>1. PICK cash, traded, count, mark, profit, e :
         /\ cash = SumBy(ProceedsBy, orders) /\ traded = SumBy(FilledBy, orders)
         /\ count = SumBy(CountBy, orders) /\ mark = Mark
         /\ profit = UnrealizedAt(position, entry)
         /\ e = BookError(position, entry, realized, cash)
    OBVIOUS
<1>2. /\ BooksOK(position, entry, realized, cash, traded, count)
      /\ PracticeTypeOK /\ EntryIffOpen /\ orders \in Seq(GoodOrder)
    BY <1>1 DEF Inv, FillsInv
<1>3. CashFromFills = cash /\ Traded = traded /\ FillCount = count
    BY <1>1, <1>2, FiguresAre
<1>4. /\ cash \in Int /\ traded \in Int /\ count \in Nat /\ traded >= 0
      /\ AbsOf(position) <= traded
      /\ count = 0 => position = 0 /\ e = 0
      /\ count > 0 => AbsOf(e) <= count * traded + (count - 1) * Unit
    <2>1. /\ cash \in Int /\ traded \in Int /\ count \in Nat /\ AbsOf(position) <= traded
          /\ count = 0 => position = 0 /\ e = 0
          /\ count > 0 => AbsOf(e) <= count * traded + (count - 1) * Unit
        BY <1>1, <1>2 DEF BooksOK
    <2>2. traded >= 0
        BY <1>2, <2>1 DEF AbsOf, PracticeTypeOK
    <2> QED
        BY <2>1, <2>2
<1>5. /\ position \in Int /\ realized \in Int /\ fees \in Int /\ mark \in Int
      /\ profit \in Int /\ StartingEquity \in Int /\ Unit \in Nat \ {0} /\ entry \in Price
    BY <1>1, <1>2, FiguresInt, ConstantTypes DEF PracticeTypeOK
<1>6. Equity - StartingEquity + fees = realized + profit
    BY <1>1, <1>5 DEF Equity
<1>7. PICK worth, at, gain, gained :
         /\ worth = position * mark /\ at = position * Basis(entry)
         /\ gain = realized * Unit /\ gained = profit * Unit
    OBVIOUS
<1>8. worth \in Int /\ at \in Int /\ gain \in Int /\ gained \in Int
    <2>1. Basis(entry) \in Int
        BY <1>5 DEF Basis, Price
    <2> QED
        BY <1>5, <1>7, <2>1
<1>9. e = gain - cash - at /\ e \in Int
    BY <1>1, <1>4, <1>7, <1>8 DEF BookError
<1>10. /\ position = 0 => worth = 0 /\ at = 0 /\ gained = 0
       /\ (worth - at) - gained <= Unit - 1 /\ gained - (worth - at) <= Unit - 1
    <2>1. CASE position = 0
        <3>1. profit = 0
            BY <1>1, <2>1 DEF UnrealizedAt
        <3>2. Basis(entry) \in Int
            BY <1>5 DEF Basis, Price
        <3> QED
            BY <1>5, <1>7, <2>1, <3>1, <3>2
    <2>2. CASE position # 0
        <3>1. entry # NoPrice /\ entry \in Int
            BY <1>2, <1>5, <2>2 DEF EntryIffOpen, Price
        <3>2. profit = MulDiv(position, mark - entry, Unit) /\ Basis(entry) = entry
            BY <1>1, <2>2, <3>1 DEF UnrealizedAt, Basis
        <3>3. PICK move : move = mark - entry
            OBVIOUS
        <3>4. move \in Int
            BY <1>5, <3>1, <3>3
        <3>5. /\ position * move - Unit * profit <= Unit - 1
              /\ Unit * profit - position * move <= Unit - 1
            BY <1>5, <3>2, <3>3, <3>4, MulDivError
        <3>6. position * move = worth - at /\ Unit * profit = gained
            BY <1>5, <1>7, <3>1, <3>2, <3>3
        <3> QED
            BY <2>2, <3>5, <3>6
    <2> QED
        BY <2>1, <2>2
<1>11. (Equity - StartingEquity + fees) * Unit = gain + gained
    BY <1>5, <1>6, <1>7
<1>12. AbsOf((gain + gained) - cash - worth) <= count * (traded + Unit)
    <2>1. PICK ct, cu : ct = count * traded /\ cu = count * Unit
        OBVIOUS
    <2>2. ct \in Nat /\ cu \in Nat /\ count * (traded + Unit) = ct + cu
        BY <1>4, <1>5, <2>1
    <2>3. (count - 1) * Unit = cu - Unit
        BY <1>4, <1>5, <2>1
    <2>4. CASE count = 0
        <3>1. e = 0 /\ worth = 0 /\ at = 0 /\ gained = 0
            BY <1>4, <1>10, <2>4
        <3> QED
            BY <1>4, <1>8, <1>9, <2>2, <3>1 DEF AbsOf
    <2>5. CASE count > 0
        <3>1. AbsOf(e) <= ct + (cu - Unit)
            BY <1>4, <2>1, <2>3, <2>5
        <3> QED
            BY <1>4, <1>5, <1>8, <1>9, <1>10, <2>2, <3>1 DEF AbsOf
    <2> QED
        BY <1>4, <2>4, <2>5
<1> QED
    BY <1>1, <1>3, <1>7, <1>11, <1>12 DEF EquityReconciles

\* However fills are averaged, closed, reversed, cut down by reduce-only or
\* forced by liquidation, for every path of prices and every sequence of
\* requests: the position of a practice account is the sum of what its orders
\* filled, its entry price one at which a fill could have happened, and its
\* equity what the fills paid and received, up to the rounding of each fill.
THEOREM FillsAlwaysAccounted == Spec => []FillsAccounted
<1>1. FillsInv /\ Inv => FillsAccounted
    <2> SUFFICES ASSUME FillsInv, Inv PROVE FillsAccounted
        OBVIOUS
    <2>1. PositionIsFills /\ EntryInRange
        BY FiguresAre DEF FillsInv
    <2> QED
        BY <2>1, FillsReconcile DEF FillsAccounted
<1>2. Spec => []FillsInv
    BY InitFills, NextFills, PracticeInvariant, PTL DEF Spec
<1> QED
    BY <1>1, <1>2, PracticeInvariant, PTL
=============================================================================
