------------------------------- MODULE Depth --------------------------------
(***************************************************************************)
(* The reconstructed L2 book of execution tier F2,                         *)
(* crates/sim-core/src/execution/f2. A side of a book gives the displayed  *)
(* quantity of every price, 0 where nothing is displayed.                  *)
(***************************************************************************)
EXTENDS Orders

CONSTANT NoSequence     \* the sequence of a book that never had a snapshot

ASSUME SequenceAssumption == NoSequence \notin Nat

Levels == [Price -> Nat]
L2Book == [enabled: BOOLEAN, sequence: Nat \cup {NoSequence}, bids: Levels, asks: Levels]

NoLevels == [p \in Price |-> 0]
NewBook == [enabled |-> FALSE, sequence |-> NoSequence, bids |-> NoLevels, asks |-> NoLevels]

Displayed(levels) == {p \in Price : levels[p] > 0}
Uncrossed(bids, asks) == \A b \in Displayed(bids), a \in Displayed(asks) : b < a

Updated(levels, price, quantity) == [levels EXCEPT ![price] = quantity]

ApplySnapshot(s) ==
    [enabled |-> TRUE, sequence |-> s.sequence, bids |-> s.bids, asks |-> s.asks]

\* Continuity and shape of an update to an enabled book; otherwise the book is
\* disabled until the next snapshot.
Continues_forward(book, d) == d.price \in Price /\ d.sequence > book.sequence

Continues(book, d) ==
    /\ d.price \in Price
    /\ d.previous_sequence = book.sequence
    /\ d.sequence = d.previous_sequence + 1

\* apply_delta: the book afterwards, the refused updates included. The depth of
\* a disabled book is kept and no sweep may use it.
ApplyDelta(book, d) ==
    IF ~book.enabled THEN book
    ELSE IF ~Continues(book, d) THEN [book EXCEPT !.enabled = FALSE]
    ELSE LET bids == IF d.side = "BID" THEN Updated(book.bids, d.price, d.quantity) ELSE book.bids
             asks == IF d.side = "ASK" THEN Updated(book.asks, d.price, d.quantity) ELSE book.asks
         IN  IF Uncrossed(bids, asks)
             THEN [book EXCEPT !.bids = bids, !.asks = asks, !.sequence = d.sequence]
             ELSE [book EXCEPT !.enabled = FALSE]

-----------------------------------------------------------------------------
HasTop(book) == Displayed(book.bids) # {} /\ Displayed(book.asks) # {}
Top(book) == [bid |-> Max(Displayed(book.bids)), ask |-> Min(Displayed(book.asks))]

\* The side of the book that an order takes from, and its better prices.
Opposite(book, side) == IF side = "BUY" THEN book.asks ELSE book.bids
Better(levels, side, price) ==
    {p \in Displayed(levels) : IF side = "BUY" THEN p < price ELSE p > price}

\* The fills of a sweep, best price first: at each of the first max_levels
\* levels within the limit, what the better levels have left of the request.
PlanSweep(book, side, requested, limit, max_levels) ==
    LET levels == Opposite(book, side)
        Ahead(p) == Total([q \in Better(levels, side, p) |-> levels[q]])
        Within(p) == limit = NoPrice \/ IF side = "BUY" THEN p <= limit ELSE p >= limit
        Reached == {p \in Displayed(levels) : /\ Within(p)
                                              /\ Cardinality(Better(levels, side, p)) < max_levels
                                              /\ Ahead(p) < requested}
    IN  {[price |-> p, quantity |-> Min({levels[p], requested - Ahead(p)})] : p \in Reached}

QuantityOf(fills) == Total([f \in fills |-> f.quantity])

\* The fills leave the levels they took from.
Consume(book, side, fills) ==
    LET Taken(p) == QuantityOf({f \in fills : f.price = p})
        left == [p \in Price |-> Opposite(book, side)[p] - Taken(p)]
    IN  IF side = "BUY" THEN [book EXCEPT !.asks = left] ELSE [book EXCEPT !.bids = left]

=============================================================================
