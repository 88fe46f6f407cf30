------------------------------ MODULE Dataset -------------------------------
(***************************************************************************)
(* A dataset as it is captured: the rows of one provider object and the    *)
(* gaps its manifest declares, one after another, and what the ingest      *)
(* worker and the catalogue make of them. normalize(), write_canonical(),  *)
(* validate_events(), aggregate_trades() and the coverage catalogue are    *)
(* functions of that input, so the state is the input alone and the        *)
(* properties relate what the functions return, to a reference definition  *)
(* or to one another.                                                      *)
(***************************************************************************)
EXTENDS Tardis, Quality, Entitlement, Coverage

CONSTANTS
    TradeRow, QuoteRow, BookRow, DepthRow, DerivativeRow, PrintRow,     \* rows of each type
    StreamEvent,        \* events of a stream that validate_events is given
    KnownGap,           \* gaps a manifest may declare
    Calendars, Intervals,
    Span,               \* actual_start_ns, actual_end_ns of the manifest
    Entitlements,       \* Tardis entitlements and the requests made under them
    Requests,
    Requirements,       \* warm-up, duration and policy of a setup
    Limit               \* bound: rows and gaps together, by type

VARIABLES
    type,               \* the data type of the object, or "stream"
    rows,               \* its rows, in capture order
    gaps,               \* known_gaps of the manifest
    frame               \* the calendar and the interval of the bars

datasetVars == <<type, rows, gaps, frame>>

\* The session of every date opens before it closes (session_for_date raises
\* otherwise), and spans, gaps, requests and setups are what their classes and
\* plan() let through: integers, none empty, no request before time 0.
ASSUME FrameAssumption ==
    /\ \A cal \in Calendars : IsSession(cal) =>
          \A d \in -1 .. Span.end \div DayLength + 1 :
             SessionOf(cal, d).start < SessionOf(cal, d).end
    /\ Span \in [start : Int, end : Int] /\ Span.start < Span.end
    /\ KnownGap \subseteq {g \in [start : Int, end : Int] : g.start < g.end}
    /\ Requests \subseteq {r \in [start : Nat, end : Nat] : r.start < r.end}
    /\ Requirements \subseteq [warmup : Nat, duration : Nat \ {0}, allow_degraded : BOOLEAN]

-----------------------------------------------------------------------------
DatasetInit ==
    /\ type \in DataType \cup {"stream"}
    /\ rows = <<>>
    /\ gaps = {}
    /\ frame \in [calendar : Calendars, interval : Intervals]
    /\ type # "trades" => frame = CHOOSE f \in [calendar : Calendars, interval : Intervals] : TRUE

Room == Len(rows) + Cardinality(gaps) < Limit[type]

CaptureRow(row) ==
    /\ Room
    /\ ~Refused(type, rows)       \* what follows a bad row makes no difference
    /\ rows' = Append(rows, row)
    /\ UNCHANGED <<type, gaps, frame>>

\* A row of incremental_book_L2 belongs to the message of the row before it or
\* starts a later one; a snapshot message names a level once.
CaptureBookRow(row, later) ==
    LET last == IF rows = <<>> THEN 0 ELSE Last(rows).local
        local == IF later THEN last + 1 ELSE last
        repeated == \E i \in DOMAIN rows : /\ rows[i].local = local
                                           /\ row.is_snapshot
                                           /\ rows[i].side = row.side
                                           /\ rows[i].price = row.price
    IN  ~repeated /\ CaptureRow([local |-> local] @@ row)

DeclareGap(g) ==
    /\ Room
    /\ gaps' = gaps \cup {g}
    /\ UNCHANGED <<type, rows, frame>>

DatasetNext ==
    \/ type = "trades" /\ \E row \in TradeRow : CaptureRow(row)
    \/ type = "quotes" /\ \E row \in QuoteRow : CaptureRow(row)
    \/ type = "derivative_ticker" /\ \E row \in DerivativeRow : CaptureRow(row)
    \/ type = "liquidations" /\ \E row \in PrintRow : CaptureRow(row)
    \/ type = "book_snapshot" /\ \E row \in DepthRow : CaptureRow(row)
    \/ type = "incremental_book_L2" /\ \E row \in BookRow, later \in BOOLEAN : CaptureBookRow(row, later)
    \/ type = "stream" /\ \E e \in StreamEvent : CaptureRow([tie |-> Len(rows)] @@ e)
    \/ type = "trades" /\ \E g \in KnownGap : DeclareGap(g)

DatasetSpec == DatasetInit /\ [][DatasetNext]_datasetVars

-----------------------------------------------------------------------------
Usable == type # "stream" /\ ~Refused(type, rows)
Normalized == IF type = "stream" THEN rows ELSE NormalizeRows(type, rows)
Written == Ordered(Normalized)

\* The trades of the written stream, as aggregate_trades receives them.
WrittenTrades ==
    LET Plain(e) == LET l == CHOOSE l \in e.levels : TRUE
                    IN  [ts |-> e.ts, price |-> l.price, qty |-> l.qty]
        events == Written
    IN  [k \in DOMAIN events |-> Plain(events[k])]

ManifestOf(status) == [status |-> status, span |-> Span, gaps |-> gaps]
BarsOf == AggregateTrades(WrittenTrades, frame.calendar, frame.interval, Span.end, gaps)
HasBars == type = "trades" /\ \A i \in DOMAIN rows : InSession(frame.calendar, rows[i].ts)

\* A book rebuilt from a stream the way its events are meant: a snapshot
\* replaces it, a delta sets one level.
Rebuild(events) ==
    LET Apply(book, e) ==
          IF e.kind = "BOOK_SNAPSHOT_L2" THEN e.levels
          ELSE {l \in book : \A x \in e.levels : l.side # x.side \/ l.price # x.price}
               \cup {l \in e.levels : l.qty > 0}
    IN  FoldLeft(Apply, {}, events)

-----------------------------------------------------------------------------
\* Normalized events are canonical: times and quantities are atoms, tie breakers
\* are natural numbers, and no level of a snapshot is empty.
DatasetTypeOK ==
    /\ type \in DataType \cup {"stream"}
    /\ gaps \subseteq KnownGap
    /\ Usable => \A e \in ToSet(Normalized) :
              /\ e.ts \in Nat /\ e.tie \in Nat
              /\ e.kind = "BOOK_SNAPSHOT_L2" => \A l \in e.levels : l.qty > 0

\* _incremental_l2: the stream starts with a snapshot whatever the object starts
\* with, says on every snapshot whether updates before the first were lost, and
\* marks as reconnect exactly the snapshots that end a run of deltas.
StreamStartsAtSnapshot ==
    LET events == Normalized
        snapshots == {k \in DOMAIN events : events[k].kind = "BOOK_SNAPSHOT_L2"}
    IN  type = "incremental_book_L2" /\ Usable =>
            /\ events # <<>> => 1 \in snapshots
            /\ \A k \in snapshots :
                 /\ "PRE_SNAPSHOT_UPDATES_SKIPPED" \in events[k].flags <=> ~rows[1].is_snapshot
                 /\ "RECONNECT_SNAPSHOT" \in events[k].flags <=> k > 1 /\ k - 1 \notin snapshots

\* The venue's book after the last row: the last snapshot message, with every
\* level as the last row from there on left it.
VenueBook ==
    LET from == CHOOSE i \in DOMAIN rows :
                  /\ GroupStart(rows, i) /\ rows[i].is_snapshot
                  /\ \A j \in i + 1 .. Len(rows) :
                        ~(GroupStart(rows, j) /\ rows[j].is_snapshot)
        untouched(j) == \A k \in j + 1 .. Len(rows) :
                           rows[k].side # rows[j].side \/ rows[k].price # rows[j].price
    IN  {Level(rows[i]) : i \in {j \in from .. Len(rows) : rows[j].qty > 0 /\ untouched(j)}}

\* The book rebuilt from the written stream is the venue's book: messages, lost
\* updates, deletions, reconnects and the tie breaker of the sort included. The
\* stream is written by exchange time, so this holds when that never regresses.
BookKept ==
    LET snapshots == {i \in DOMAIN rows : rows[i].is_snapshot}
        steady == \A i, j \in DOMAIN rows : i < j => rows[i].ts <= rows[j].ts
    IN  type = "incremental_book_L2" /\ Usable /\ steady =>
            Rebuild(Written) = IF snapshots = {} THEN {} ELSE VenueBook

\* Two events of one object never tie in _event_sort_key, so the canonical
\* order does not depend on the order in which they were normalized.
OrderTotal ==
    LET events == Normalized
    IN  Usable => \A i, j \in DOMAIN events :
            i # j => KeyBefore(events[i], events[j]) \/ KeyBefore(events[j], events[i])

-----------------------------------------------------------------------------
\* What the status of a stream should mean, without reference to the pass that
\* computes it. Timed and Whole events are those whose time, or time and
\* payload, can be read.
Timed(events) == {i \in DOMAIN events : events[i].malformed # "timestamp"}
Whole(events) == {i \in Timed(events) : events[i].malformed # "payload"}
Sequenced(events) ==
    {i \in Timed(events) : events[i].sequence # Unset /\ events[i].malformed # "sequence"}

\* The pairs of neighbours among the positions in S.
Neighbours(S) == {p \in S \X S : p[1] < p[2] /\ \A k \in S : k <= p[1] \/ k >= p[2]}
SequenceGaps(events) ==
    {p \in Neighbours(Sequenced(events)) : events[p[2]].sequence # events[p[1]].sequence + 1}

\* The stream is in time order, in sequence where it is a book, aligned to the
\* instrument's increments, and every delta has a readable snapshot before it.
Replayable(events) ==
    /\ \A i \in DOMAIN events : events[i].malformed = "none"
    /\ \A i, j \in DOMAIN events : i < j => events[i].ts <= events[j].ts
    /\ \A p \in SequenceGaps(events) : events[p[2]].kind \notin BookKind
    /\ \A i \in DOMAIN events : \A l \in events[i].levels :
          l.price % Tick = 0 /\ l.qty % Increment = 0
    /\ \A i \in DOMAIN events : events[i].kind = "BOOK_SNAPSHOT_L2" => ~Crossed(events[i].levels)
    /\ \A i \in DOMAIN events : events[i].kind = "BOOK_DELTA_L2" =>
          \E j \in 1 .. i - 1 : events[j].kind = "BOOK_SNAPSHOT_L2"

\* Nothing is missing, repeated, stale or crossed.
Spotless(events) ==
    LET quotes == {i \in DOMAIN events : events[i].kind = "BBO"}
    IN  /\ \A i, j \in DOMAIN events : i # j => events[i] # events[j]
        /\ \A p \in Neighbours(DOMAIN events) : events[p[2]].ts - events[p[1]].ts <= MaxGap
        /\ SequenceGaps(events) = {}
        /\ \A i \in quotes : ~Crossed(events[i].levels)
        /\ \A p \in Neighbours(quotes) : events[p[2]].ts - events[p[1]].ts <= MaxStaleness

\* validate_events quarantines exactly the streams that cannot be replayed and
\* calls VALID exactly those with no fault at all, in the order they were
\* captured and in the order they are written.
StatusMeansReplayable ==
    type = "stream" \/ Usable =>
        \A events \in {Normalized, Written} :
            ValidateEvents(events).status =
                IF ~Replayable(events) THEN "QUARANTINED"
                ELSE IF Spotless(events) THEN "VALID" ELSE "DEGRADED"

-----------------------------------------------------------------------------
\* The stretch after a change of the zone in which the clock shows once more what
\* it has shown before.
Repeated(cal, t) == cal.transition <= t /\ t < cal.transition + (cal.before - cal.after)

\* session_for_ns is to "find the local session containing a UTC timestamp"
\* (calendars/__init__.py:104), and does so overnight, over holidays and across
\* changes of the zone's offset, with one exception: a clock that is put back
\* over midnight, after a session of the new date has opened, shows the old date
\* again, and that session is not found until the clock has reached midnight a
\* second time. Every instant that is found has its bucket, which contains it,
\* and the buckets of two instants are the same or disjoint, for weeks and
\* months of sessions as well.
BucketsPartition ==
    LET cal == frame.calendar
        times == {rows[i].ts : i \in DOMAIN rows}
        holding(t) == {d \in -1 .. Span.end \div DayLength + 1 :
                         IsTradingDay(cal, d) /\ Within(SessionOf(cal, d), t)}
        lost(d, t) == Repeated(cal, t) /\ d > LocalDate(cal, t)
        bucket(t) == BucketBounds(cal, t, frame.interval)
        held == {t \in times : InSession(cal, t)}
    IN  type = "trades" =>
          /\ IsSession(cal) => held = {t \in times : \E d \in holding(t) : ~lost(d, t)}
          /\ \A t \in held : Within(bucket(t), t)
          /\ \A t, u \in held : bucket(t) = bucket(u) \/ ~Overlaps(bucket(t), bucket(u))

\* Written trades can always be aggregated, and their bars are what their
\* buckets define: one bar per bucket with a trade, in order, whose open and
\* close are its first and last trade in canonical order, and whose extremes
\* and volume are those of all.
BarsExact ==
    LET t == WrittenTrades
        bars == RawBars(t, frame.calendar, frame.interval)
        inside(b) == {i \in DOMAIN t : Within(b, t[i].ts)}
    IN  HasBars =>
          /\ Aggregatable(t, frame.calendar)
          /\ \A k \in 2 .. Len(bars) : bars[k - 1].end <= bars[k].start
          /\ UNION {inside(bars[k]) : k \in DOMAIN bars} = DOMAIN t
          /\ \A k \in DOMAIN bars :
               LET b == bars[k]
                   S == inside(b)
               IN  /\ S # {}
                   /\ b.open = t[Min(S)].price /\ b.close = t[Max(S)].price
                   /\ b.high = Max({t[i].price : i \in S})
                   /\ b.low = Min({t[i].price : i \in S})
                   /\ b.volume = MapThenSumSet(LAMBDA i : t[i].qty, S)
                   /\ b.count = Cardinality(S)

\* A moment belongs to a segment of the catalogue exactly when the manifest
\* spans it and no known gap holds it; segments are not empty and do not touch.
\* (The catalogue does not see rows: those states would repeat the check.)
SegmentsExact ==
    LET segments == Segments(ManifestOf("VALID"))
    IN  rows = <<>> =>
        /\ \A t \in Span.start - 1 .. Span.end :
             (\E s \in segments : Within(s, t))
               <=> Within(Span, t) /\ \A g \in gaps : ~Within(g, t)
        /\ \A s \in segments : s.start < s.end
        /\ \A s, r \in segments : s = r \/ s.end < r.start \/ r.end < s.start

\* A play start lies in an eligible window exactly when a setup that starts there
\* is eligible.
WindowsMatchSetups ==
    rows = <<>> => \A r \in Requirements, status \in {"VALID", "DEGRADED", "QUARANTINED"} :
        \A t \in Span.start - 1 .. Span.end + 1 :
            EligibleSetups(ManifestOf(status), r, t) # {}
              <=> \E w \in EligibleWindows(ManifestOf(status), r) : w.start <= t /\ t <= w.end

\* The aggregator and the catalogue agree on what is covered, but for the start: a
\* bar that reaches into the coverage carries no gap or coverage flag exactly when
\* its bucket, from the start of the coverage on, lies in one gap-free segment
\* (and no declared gap meets it before). aggregate_trades is not told where the
\* coverage starts, so a first bar is called complete although its bucket begins
\* before it.
CompletenessAgrees ==
    LET segments == Segments(ManifestOf("VALID"))
        covered(bar) == Max({bar.start, Span.start})
    IN  HasBars => \A x \in ToSet(BarsOf) :
            x.bar.end > Span.start =>
                (x.flags \subseteq {"SESSION_HALT"}
                   <=> /\ \E s \in segments : s.start <= covered(x.bar) /\ x.bar.end <= s.end
                       /\ \A g \in gaps : g.end <= Span.start => ~Overlaps(g, x.bar))

\* plan() asks for exactly the days the request touches, and a claimed tier can
\* be fetched: whenever capabilities_for_interval grants one for those days,
\* plan() refuses none of the data it rests on. (Checked once: it depends on
\* neither rows nor gaps.)
TierIsPlannable ==
    type = "quotes" /\ rows = <<>> =>
        \A e \in Entitlements, r \in Requests :
            LET tier == TierFor(e, FirstDay(r), LastDay(r))
                plan(data_type) == Plannable(e, data_type, r)
            IN  /\ PlannedDays(r) = {t \div DayLength : t \in r.start .. r.end - 1}
                /\ tier = "F2" => plan("incremental_book_L2")
                /\ tier = "F1" => plan("trades") /\ (plan("quotes") \/ plan("book_ticker"))
                /\ tier = "F0T" => plan("trades")
                /\ tier = "none" => ~plan("trades") /\ ~plan("incremental_book_L2")
                /\ e.sample_only /\ tier # "none" => PlannedDays(r) \subseteq MonthStart

-----------------------------------------------------------------------------
\* What _incremental_l2 and its siblings make of an object can be written,
\* sorted and replayed to the book the venue had, and the status of a dataset
\* says so.
StreamSound ==
    /\ DatasetTypeOK
    /\ StreamStartsAtSnapshot
    /\ BookKept
    /\ OrderTotal
    /\ StatusMeansReplayable

\* Calendar, aggregator and catalogue agree on the bars of a dataset: where they
\* lie, what they hold and, from the start of the coverage on, which are whole.
BarsSound == BucketsPartition /\ BarsExact /\ CompletenessAgrees

\* What the catalogue offers is what the manifest covers, and what a provider
\* claims to cover can be fetched.
CatalogueExact == SegmentsExact /\ WindowsMatchSetups /\ TierIsPlannable

=============================================================================
