----------------------------- MODULE MCDataset ------------------------------
(***************************************************************************)
(* A small instance of Dataset: days of four ticks, weeks of three days, a *)
(* month that ends inside a week, and calendars whose zone changes its     *)
(* offset once: at time 6, in the middle of the second day, or ("back") at *)
(* time 7, when the clock has passed midnight and is put back over it.     *)
(***************************************************************************)
EXTENDS Dataset

MCLimit == [trades |-> 3, quotes |-> 3, incremental_book_L2 |-> 4,
            book_snapshot |-> 3, derivative_ticker |-> 2, liquidations |-> 3, stream |-> 3]

\* Every moment of the three days, and a second trade at three of them.
MCTradeRow ==
    {[ts |-> t, side |-> "BUY", price |-> 2 + ((5 * t) % 7), qty |-> 1 + (t % 2)] : t \in 0 .. 11}
    \cup {[ts |-> t, side |-> "SELL", price |-> 4, qty |-> 1] : t \in {1, 5, 6}}

MCQuoteRow == [ts : {0, 1, 3}, bid : {0, 2, 3}, ask : {0, 2, 4}]

MCBookRow ==
    LET row(ts, snapshot, side, qty) ==
          [ts |-> ts, is_snapshot |-> snapshot, side |-> side, price |-> 2, qty |-> qty]
    IN  UNION {{row(ts, TRUE, "BUY", 1), row(ts, TRUE, "SELL", 1), row(ts, TRUE, "SELL", 0),
                row(ts, FALSE, "BUY", 2), row(ts, FALSE, "BUY", 0)} : ts \in 0 .. 1}

MCPrintRow == [ts : {0, 1, 3}, side : {"BUY", "SELL"}, price : {2, 3}, qty : {1}]

\* One level per side: full, empty, without a field, or with amount 0.
MCDepthRow ==
    LET level(side, price, qty) == [side |-> side, price |-> price, qty |-> qty]
    IN  {[ts |-> ts, levels |-> {level("BUY", 2, 1), ask}] : ts \in 0 .. 2,
            ask \in {level("SELL", 4, 1), level("SELL", 2, 1), level("SELL", 2, 0),
                     level("SELL", 0, NoAmount), level("SELL", 4, NoAmount),
                     level("SELL", 0, 1)}}

MCDerivativeRow == [ts : {0, 1}, fields : SUBSET ToSet(Field)]

MCStreamEvent ==
    LET level(side, price) == [side |-> side, price |-> price, qty |-> 1]
        event(ts, sequence, kind, levels, part) ==
          [ts |-> ts, sequence |-> sequence, kind |-> kind, levels |-> levels,
           flags |-> {}, malformed |-> part]
        bid == level("BUY", 2)
    IN  {event(ts, n, kind, {bid}, "none") :
            ts \in {0, 2}, n \in {NoSequence, 1, 2}, kind \in {"TRADE", "BOOK_DELTA_L2", "BOOK_SNAPSHOT_L2"}}
        \cup {event(ts, NoSequence, kind, {bid, level("SELL", 2)}, "none") :
            ts \in {0, 1}, kind \in {"BBO", "BOOK_SNAPSHOT_L2"}}
        \cup {event(0, 1, "TRADE", {bid}, "timestamp"), event(0, 2, "TRADE", {bid}, "sequence"),
              event(1, 3, "TRADE", {}, "payload"), event(1, 3, "BOOK_SNAPSHOT_L2", {}, "levels"),
              event(1, NoSequence, "BBO", {bid}, "integer"),
              event(1, NoSequence, "TRADE", {level("BUY", 3)}, "none")}

MCKnownGap ==
    {Interval(0, 1), Interval(0, 2), Interval(2, 3), Interval(3, 9), Interval(4, 6), Interval(5, 8),
     Interval(9, 13)}

MCCalendars ==
    LET calendar(name, open, close, weekdays, holidays, halts, before, after, transition) ==
          [name |-> name, open |-> open, close |-> close, weekdays |-> weekdays,
           holidays |-> holidays, halts |-> halts,
           before |-> before, after |-> after, transition |-> transition]
    IN  {calendar("crypto", 0, 0, {}, {}, {}, 0, 0, 6),
         calendar("day", 1, 3, 0 .. 2, {}, {Interval(9, 10)}, 0, 1, 6),
         calendar("overnight", 3, 1, 0 .. 2, {0}, {}, 1, 0, 6),
         calendar("round", 2, 2, {0, 1}, {}, {}, 0, 1, 6),
         calendar("back", 0, 3, 0 .. 2, {}, {}, 2, 0, 7)}

MCIntervals ==
    {[unit |-> "fixed", length |-> 3], [unit |-> "day", length |-> 0],
     [unit |-> "week", length |-> 0], [unit |-> "month", length |-> 0]}

\* exported = 9 stands for no export limit: no coverage reaches that day.
MCEntitlements ==
    LET book == {"incremental_book_L2", "trades"}
        best == {"trades", "quotes"}
    IN  [data_types : {book, best, {"trades"}}, allowed : {book \cup best, {"trades"}},
         since : {0, 1}, to : {1, 3}, exported : {0, 2, 9}, sample_only : BOOLEAN]
MCRequests == {r \in [start : 0 .. 8, end : 1 .. 13] : r.start < r.end}

MCSpan == Interval(1, 11)
MCMonthStart == {-4, 0, 2, 6}
MCRequirements == [warmup : {0, 2}, duration : {1, 3}, allow_degraded : BOOLEAN]

=============================================================================
