-------------------------------- MODULE Bars --------------------------------
(***************************************************************************)
(* Calendar buckets and trade bars (workers/ingest/.../calendars and       *)
(* .../aggregate). Dates are day numbers. A session calendar lives in a    *)
(* time zone whose offset may change once, at Transition: daylight saving. *)
(***************************************************************************)
EXTENDS Integers, Sequences, SequencesExt, FiniteSetsExt

CONSTANTS
    DayLength,      \* NANOSECONDS_PER_DAY
    WeekLength,     \* days of a week
    MonthStart      \* the dates on which a month begins

ASSUME CalendarAssumption ==
    /\ {DayLength, WeekLength} \subseteq Nat \ {0}
    /\ MonthStart \subseteq Int

\* A calendar is "crypto" (CryptoUtcCalendar) or a SessionCalendar: open and
\* close times of the local day, weekdays, holidays and halts, and the zone.
IsSession(cal) == cal.name # "crypto"

\* ZoneInfo: the offset in force at an instant, and the instant of a wall time.
\* A wall time that occurs twice is the first one, a skipped one is read with
\* the offset before the change (fold = 0).
Offset(cal, ts) == IF ts < cal.transition THEN cal.before ELSE cal.after
Instant(cal, wall) ==
    IF wall - cal.before < cal.transition \/ wall - cal.after < cal.transition
      THEN wall - cal.before ELSE wall - cal.after

LocalDate(cal, ts) == (ts + Offset(cal, ts)) \div DayLength

-----------------------------------------------------------------------------
\* session_for_date: the session that opens on date, which may end overnight.
SessionOf(cal, date) ==
    LET closing == IF cal.close <= cal.open THEN date + 1 ELSE date
    IN  [date |-> date,
         start |-> Instant(cal, date * DayLength + cal.open),
         end |-> Instant(cal, closing * DayLength + cal.close)]
IsTradingDay(cal, date) == (date % WeekLength) \in cal.weekdays /\ date \notin cal.holidays
Within(w, ts) == w.start <= ts /\ ts < w.end

Candidates(cal, ts) == {LocalDate(cal, ts), LocalDate(cal, ts) - 1}

\* session_for_ns, as the set of at most one session.
SessionsFor(cal, ts) ==
    LET found == {d \in Candidates(cal, ts) : IsTradingDay(cal, d) /\ Within(SessionOf(cal, d), ts)}
    IN  {SessionOf(cal, d) : d \in {e \in found : \A f \in found : f <= e}}

\* The dates of the week or month that date lies in.
PeriodStart(unit, date) ==
    IF unit = "week" THEN date - (date % WeekLength)
                     ELSE Max({d \in MonthStart : d <= date})
PeriodEnd(unit, date) ==
    IF unit = "week" THEN PeriodStart(unit, date) + WeekLength
                     ELSE Min({d \in MonthStart : d > date})

\* Mutation: the last bucket of a session runs past its close.
SessionBucket_unclipped(s, ts, n) ==
    LET start == s.start + ((ts - s.start) \div n) * n
    IN  [start |-> start, end |-> start + n]

\* A fixed interval counts from the open and is cut off at the close.
SessionBucket(s, ts, n) ==
    LET start == s.start + ((ts - s.start) \div n) * n
    IN  [start |-> start, end |-> Min({start + n, s.end})]

\* SessionCalendar.bucket_bounds; InSession is the case it does not raise.
InSession(cal, ts) == IsSession(cal) => SessionsFor(cal, ts) # {}
SessionBounds(cal, ts, interval) ==
    LET s == CHOOSE w \in SessionsFor(cal, ts) : TRUE
        period == {d \in PeriodStart(interval.unit, s.date)
                         .. PeriodEnd(interval.unit, s.date) - 1 : IsTradingDay(cal, d)}
    IN  CASE interval.unit = "fixed" -> SessionBucket(s, ts, interval.length)
          [] interval.unit = "day" -> [start |-> s.start, end |-> s.end]
          [] OTHER -> [start |-> SessionOf(cal, Min(period)).start,
                         end |-> SessionOf(cal, Max(period)).end]

\* CryptoUtcCalendar.bucket_bounds
CryptoBounds(ts, interval) ==
    LET date == ts \div DayLength
        days(from, to) == [start |-> from * DayLength, end |-> to * DayLength]
    IN  CASE interval.unit = "fixed" ->
               LET start == (ts \div interval.length) * interval.length
               IN  [start |-> start, end |-> start + interval.length]
          [] interval.unit = "day" -> days(date, date + 1)
          [] OTHER -> days(PeriodStart(interval.unit, date), PeriodEnd(interval.unit, date))

BucketBounds(cal, ts, interval) ==
    IF IsSession(cal) THEN SessionBounds(cal, ts, interval) ELSE CryptoBounds(ts, interval)

-----------------------------------------------------------------------------
\* KnownGap.overlaps, and the same test against a halt.
Overlaps(gap, w) == gap.start < w.end /\ w.start < gap.end

\* _MutableBar.from_trade and .add
FromTrade(w, t) ==
    [start |-> w.start, end |-> w.end, open |-> t.price, high |-> t.price,
     low |-> t.price, close |-> t.price, volume |-> t.qty, count |-> 1]

AddTrade(bar, t) ==
    [bar EXCEPT !.high = Max({@, t.price}), !.low = Min({@, t.price}),
                !.close = t.price, !.volume = @ + t.qty, !.count = @ + 1]

SameBar(bar, w) == bar.start = w.start /\ bar.end = w.end

\* aggregate_trades raises on a time that regresses or lies outside a session.
Aggregatable(trades, cal) ==
    /\ \A i \in 2 .. Len(trades) : trades[i - 1].ts <= trades[i].ts
    /\ \A i \in DOMAIN trades : InSession(cal, trades[i].ts)

BarFlags(bar, cal, coverage_end, gaps) ==
    {f \in {"INCOMPLETE_COVERAGE", "KNOWN_GAP", "SESSION_HALT"} :
        \/ f = "INCOMPLETE_COVERAGE" /\ bar.end > coverage_end
        \/ f = "KNOWN_GAP" /\ \E g \in gaps : Overlaps(g, bar)
        \/ f = "SESSION_HALT" /\ IsSession(cal) /\ \E h \in cal.halts : Overlaps(h, bar)}

\* aggregate_trades: the bars, and the flags that keep one from being complete.
RawBars(trades, cal, interval) ==
    LET Take(bars, t) ==
          LET w == BucketBounds(cal, t.ts, interval)
          IN  IF bars # <<>> /\ SameBar(Last(bars), w)
                THEN Front(bars) \o <<AddTrade(Last(bars), t)>>
                ELSE Append(bars, FromTrade(w, t))
    IN  FoldLeft(Take, <<>>, trades)
AggregateTrades(trades, cal, interval, coverage_end, gaps) ==
    LET bars == RawBars(trades, cal, interval)
    IN  [k \in DOMAIN bars |-> [bar |-> bars[k],
                                flags |-> BarFlags(bars[k], cal, coverage_end, gaps)]]

=============================================================================
