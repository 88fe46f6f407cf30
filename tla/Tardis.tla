------------------------------- MODULE Tardis -------------------------------
(***************************************************************************)
(* TardisAdapter.normalize (workers/ingest/.../adapters/tardis): how the   *)
(* rows of one daily CSV object become canonical events. Decimals are      *)
(* already atoms; a row keeps its exchange time (ts), the time it was      *)
(* captured (local) and the levels it names. Amount 0 is an empty level    *)
(* and price 0 an empty CSV field.                                         *)
(***************************************************************************)
EXTENDS Canonical

\* "quotes" stands for book_ticker too, "book_snapshot" for both depths.
DataType == {"trades", "quotes", "incremental_book_L2", "book_snapshot",
             "derivative_ticker", "liquidations"}

\* _event. Only a canonical file import can give an event a malformed part.
TardisEvent(row, tie, kind, levels, flags) ==
    [ts |-> row.ts, sequence |-> NoSequence, tie |-> tie, kind |-> kind,
     levels |-> levels, flags |-> flags, malformed |-> "none"]

\* The amount of an empty CSV field.
NoAmount == -1
Level(row) == [side |-> row.side, price |-> row.price, qty |-> row.qty]

\* _trade
Trade(row, index) == TardisEvent(row, index, "TRADE", {Level(row)}, {})

\* _bbo: a side without a price is left out.
Quoted(row) == {l \in {[side |-> "BUY", price |-> row.bid, qty |-> 1],
                       [side |-> "SELL", price |-> row.ask, qty |-> 1]} : l.price > 0}
Bbo(row, index) == TardisEvent(row, index, "BBO", Quoted(row), {})

\* _liquidation
Liquidation(row, index) == TardisEvent(row, index, "LIQUIDATION_PRINT", {Level(row)}, {})

\* _snapshot_row: a row names a fixed number of levels per side; a level has
\* both fields, none of them, or is partial, which raises.
Partial(row) == \E l \in row.levels : (l.price = 0) # (l.qty = NoAmount)
SnapshotRow(row, index) ==
    TardisEvent(row, index, "BOOK_SNAPSHOT_L2", {l \in row.levels : l.price > 0 /\ l.qty > 0}, {})

-----------------------------------------------------------------------------
\* _incremental_l2: consecutive rows captured at one instant are one message.
GroupStart(rows, i) == i = 1 \/ rows[i].local # rows[i - 1].local
GroupEnd(rows, i) ==
    CHOOSE j \in i .. Len(rows) :
        /\ \A k \in i .. j : rows[k].local = rows[i].local
        /\ j = Len(rows) \/ rows[j + 1].local # rows[i].local
Group(rows, i) == SubSeq(rows, i, GroupEnd(rows, i))

\* _snapshot_group: the whole message is one event, without its empty levels.
SnapshotGroup(group, index, flags) ==
    TardisEvent(group[1], index, "BOOK_SNAPSHOT_L2",
          {Level(r) : r \in {q \in ToSet(group) : q.qty > 0}}, flags)

\* _book_delta: the new quantity of one level; DELETE is quantity 0.
BookDelta(row, index) == TardisEvent(row, index, "BOOK_DELTA_L2", {Level(row)}, {})

\* A message that mixes both kinds raises TardisSchemaError.
Mixed(rows) ==
    \E i \in DOMAIN rows : \E j \in i + 1 .. GroupEnd(rows, i) :
        rows[i].is_snapshot # rows[j].is_snapshot

Fresh == [events |-> <<>>, ready |-> FALSE, skipped |-> FALSE, incremental |-> FALSE]

\* Mutation: the first messages are kept although no snapshot came yet.
TakeGroup_unready(rows, state, i) ==
    LET group == Group(rows, i)
    IN  IF rows[i].is_snapshot
          THEN [state EXCEPT !.ready = TRUE, !.incremental = FALSE,
                   !.events = Append(@, SnapshotGroup(group, i - 1, {}))]
          ELSE [state EXCEPT !.incremental = TRUE,
                   !.events = @ \o [k \in DOMAIN group |-> BookDelta(group[k], i + k - 2)]]

\* One turn of the loop, at the message that starts with row i (index i - 1).
TakeGroup(rows, state, i) ==
    LET group == Group(rows, i)
        flags == {f \in {"PRE_SNAPSHOT_UPDATES_SKIPPED", "RECONNECT_SNAPSHOT"} :
                    \/ f = "PRE_SNAPSHOT_UPDATES_SKIPPED" /\ state.skipped
                    \/ f = "RECONNECT_SNAPSHOT" /\ state.ready /\ state.incremental}
    IN  IF rows[i].is_snapshot
          THEN [state EXCEPT !.ready = TRUE, !.incremental = FALSE,
                   !.events = Append(@, SnapshotGroup(group, i - 1, flags))]
        ELSE IF ~state.ready
          THEN [state EXCEPT !.skipped = TRUE]
          ELSE [state EXCEPT !.incremental = TRUE,
                   !.events = @ \o [k \in DOMAIN group |-> BookDelta(group[k], i + k - 2)]]

IncrementalL2(rows) ==
    LET starts == SetToSortSeq({i \in DOMAIN rows : GroupStart(rows, i)}, <)
    IN  FoldLeft(LAMBDA state, i : TakeGroup(rows, state, i), Fresh, starts).events

-----------------------------------------------------------------------------
Field == <<"FUNDING_RATE", "OPEN_INTEREST", "INDEX_PRICE", "MARK_PRICE",
           "FUNDING_PAYMENT_TIME">>

DerivativeTie(index, ordinal) == index * 8 + ordinal

\* _derivative_events: one event per field present, tied by row and ordinal.
DerivativeEvents(rows) ==
    LET present(i) == SelectSeq(Field, LAMBDA f : f \in rows[i].fields)
        events(i) == [k \in DOMAIN present(i) |->
            TardisEvent(rows[i], DerivativeTie(i - 1, k - 1), present(i)[k], {}, {})]
    IN  FlattenSeq([i \in DOMAIN rows |-> events(i)])

-----------------------------------------------------------------------------
\* normalize() raises on these and no event of the object is used.
Refused(type, rows) ==
    \/ type = "quotes" /\ \E i \in DOMAIN rows : Quoted(rows[i]) = {}
    \/ type = "incremental_book_L2" /\ Mixed(rows)
    \/ type = "book_snapshot" /\ \E i \in DOMAIN rows : Partial(rows[i])

\* normalize() of an object it does not refuse.
NormalizeRows(type, rows) ==
    CASE type = "trades" -> [i \in DOMAIN rows |-> Trade(rows[i], i - 1)]
      [] type = "quotes" -> [i \in DOMAIN rows |-> Bbo(rows[i], i - 1)]
      [] type = "incremental_book_L2" -> IncrementalL2(rows)
      [] type = "book_snapshot" -> [i \in DOMAIN rows |-> SnapshotRow(rows[i], i - 1)]
      [] type = "liquidations" -> [i \in DOMAIN rows |-> Liquidation(rows[i], i - 1)]
      [] type = "derivative_ticker" -> DerivativeEvents(rows)

=============================================================================
