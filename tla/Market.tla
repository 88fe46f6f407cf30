------------------------------- MODULE Market -------------------------------
(***************************************************************************)
(* MarketService (apps/api/.../market): pages of trades, quotes, depth and *)
(* candles, read only through the replay frontier, beside the lifecycle of *)
(* Sessions. Requests run in a thread pool: a request reads the session    *)
(* row, then its events (two SELECTs without a lock, under READ COMMITTED  *)
(* each with a snapshot of its own), then looks into the shared cache and  *)
(* then reads the source, and sessions advance in between.                 *)
(*                                                                         *)
(* A reader repeats one query and follows its cursor, as a client does: a  *)
(* page with a cursor is kept and the cursor followed, a page without one  *)
(* is shown and asked for again later. Times are shown as offsets.         *)
(***************************************************************************)
EXTENDS Sessions, SequencesExt, Selection, Sorting

CONSTANTS
    Reader,             \* clients
    Query,              \* Query[r]: session, principal, channel, offset, limit, interval
    Source,             \* Source[channel]: the canonical events of the partition
    PageSize,           \* MAX_PAGE_SIZE, the page in which candles read trades
    MaxPolls,           \* bound: requests of all readers together
    NoCursor, NoPage, NoPoll

\* What the market source keeps of a trade, a quote or a book.
MarketEvent == [sequence: Nat, ts: Int, price: Int, quantity: Nat]

\* What _validate_query and the interval check of candles() let through.
MarketQuery == [session: SessionId, principal: Principal,
                channel: DOMAIN Source \cup {"CANDLES"}, offset: Nat,
                limit: 1..PageSize, interval: Nat \ {0}]

\* The order the MarketDataSource protocol promises.
ASSUME SourceAssumption ==
    /\ "TRADES" \in DOMAIN Source /\ "CANDLES" \notin DOMAIN Source
    /\ \A channel \in DOMAIN Source :
          /\ Source[channel] \in Seq(MarketEvent)
          /\ \A i, j \in DOMAIN Source[channel] : i < j =>
              /\ Source[channel][i].sequence < Source[channel][j].sequence
              /\ Source[channel][i].ts <= Source[channel][j].ts

ASSUME QueryAssumption ==
    /\ PageSize \in Nat \ {0} /\ MaxPolls \in Nat
    /\ Query \in [Reader -> MarketQuery]
    /\ NoCursor \notin Nat

VARIABLES
    cache,              \* MarketService._cache: key -> page, as a set of pairs
    readers             \* every client: its request, its cursor, what it was shown

marketVars == <<cache, readers>>

NewReader == [poll |-> NoPoll, polls |-> 0, cursor |-> NoCursor, kept |-> <<>>, shown |-> NoPage]

-----------------------------------------------------------------------------
\* _context: the frontier, never the last instant of the committed window.
VisibleThrough(s) ==
    LET u == SetupOf(domain_events[s])
    IN  Min({FrontierOf(domain_events[s]), u.play_end - 1})

\* _context: the caller owns a pinned session and starts inside its window.
Readable(q) ==
    /\ Exists(q.session)
    /\ sessions[q.session].principal = q.principal
    /\ PinIdx(domain_events[q.session]) # {}
    /\ LET u == SetupOf(domain_events[q.session])
       IN  u.play_start + q.offset < u.play_end

\* What the events say now, under the version of the row read before them.
Context(q, version) ==
    [version |-> version, through |-> VisibleThrough(q.session),
     start |-> SetupOf(domain_events[q.session]).play_start + q.offset,
     origin |-> SetupOf(domain_events[q.session]).play_start]

\* Mutation: neither the version nor the frontier is part of the key.
CacheKey_noVersion(q, context, after) ==
    <<q.principal, q.session, q.channel, context.start, after, q.limit, q.interval>>

\* _cache_key
CacheKey(q, context, after) ==
    <<q.principal, q.session, context.version, context.through, q.channel,
      context.start, after, q.limit, q.interval>>

After(event, after) == after = NoCursor \/ event.sequence > after

\* MarketDataSource: ordered events from start on and after a sequence, up to
\* a limit. An implementation that reads whole partitions may ignore through.
SourceRead(channel, start, through, after, limit, overshoot) ==
    LET found == SelectIn(Source[channel], {e \in ToSet(Source[channel]) :
                    /\ start <= e.ts
                    /\ e.ts <= through \/ overshoot
                    /\ After(e, after)})
    IN  SubSeq(found, 1, Min({limit, Len(found)}))

\* Mutation: the source is trusted to stop at the frontier.
Visible_trusting(events, context, after, limit) ==
    SubSeq(events, 1, Min({limit, Len(events)}))

\* _visible: what was read is filtered again before the limit is applied.
Visible(events, context, after, limit) ==
    LET kept == SelectIn(events, {e \in ToSet(events) :
                   context.start <= e.ts /\ e.ts <= context.through /\ After(e, after)})
    IN  SubSeq(kept, 1, Min({limit, Len(kept)}))

\* _next_cursor: a short page is the last one for now.
NextCursor(events, limit) ==
    IF Len(events) < limit \/ events = <<>> THEN NoCursor ELSE Last(events).sequence

\* _project_trade, _project_bbo, _project_depth: the event behind its offset.
Project(event, context) ==
    [offset |-> event.ts - context.origin, price |-> event.price, quantity |-> event.quantity]

\* _frontier_payload: a page names the frontier it was made for.
FrontierPayload(context) == context.through - context.origin

EventPage(q, context, after, overshoot) ==
    LET read == SourceRead(q.channel, context.start, context.through, after, q.limit, overshoot)
        events == Visible(read, context, after, q.limit)
    IN  [items |-> [i \in DOMAIN events |-> Project(events[i], context)],
         next |-> NextCursor(events, q.limit), frontier |-> FrontierPayload(context)]

\* The bucket of a trade: intervals count from the start of the window.
BucketOf(q, context, trade) == (trade.ts - context.origin) \div q.interval
Buckets(q, context, trades) == {BucketOf(q, context, trades[i]) : i \in DOMAIN trades}

\* _candle_buckets: the loop goes on while there are no more buckets than the
\* limit, so the last one shown has been read to its end.
BucketsSuffice(buckets, limit) == Cardinality(buckets) > limit

\* _candle_buckets: the trades of the pages read until that, or until a page
\* is not full.
CandleTrades(q, context, overshoot) ==
    LET all == SourceRead("TRADES", context.start, context.through, NoCursor,
                          Len(Source["TRADES"]), overshoot)
        read(n) == Visible(SubSeq(all, 1, Min({n * PageSize, Len(all)})), context,
                           NoCursor, Len(all))
        done == {n \in 0 .. Len(all) + 1 :
                    \/ BucketsSuffice(Buckets(q, context, read(n)), q.limit)
                    \/ n * PageSize > Len(all)}
    IN  read(Min(done))

Volume(trades) == FoldLeft(LAMBDA sum, t : sum + t.quantity, 0, trades)

\* _project_candle
Candle(q, context, bucket, trades) ==
    LET mine == SelectIn(trades, {t \in ToSet(trades) : BucketOf(q, context, t) = bucket})
        prices == {mine[i].price : i \in DOMAIN mine}
    IN  [offset |-> bucket * q.interval, open |-> mine[1].price, high |-> Max(prices),
         low |-> Min(prices), close |-> Last(mine).price, count |-> Len(mine),
         volume |-> Volume(mine)]

CandlePage(q, context, overshoot) ==
    LET trades == CandleTrades(q, context, overshoot)
        order == Ascending(Buckets(q, context, trades))
        first == SubSeq(order, 1, Min({q.limit, Len(order)}))
    IN  [items |-> [i \in DOMAIN first |-> Candle(q, context, first[i], trades)],
         next |-> NoCursor, frontier |-> FrontierPayload(context)]

PageOf(q, context, after, overshoot) ==
    IF q.channel = "CANDLES" THEN CandlePage(q, context, overshoot)
                             ELSE EventPage(q, context, after, overshoot)

-----------------------------------------------------------------------------
MarketInit ==
    /\ \E s \in SessionId, p \in Principal, u \in Setup : PinnedInit(s, p, u)
    /\ cache = {}
    /\ readers = [r \in Reader |-> NewReader]

\* A request arrives and get_session selects the session row. A request that is
\* refused leaves no trace; a session that is pinned stays so.
Request(r) ==
    LET reader == readers[r]
    IN  /\ reader.poll = NoPoll
        /\ MapThenSumSet(LAMBDA x : readers[x].polls, Reader) < MaxPolls
        /\ Readable(Query[r])
        /\ readers' = [readers EXCEPT
              ![r].poll = [stage |-> "events", version |-> sessions[Query[r].session].version],
              ![r].polls = @ + 1]
        /\ UNCHANGED <<vars, cache>>

\* get_session selects the events, and _context is made of both.
ReadEvents(r) ==
    /\ readers[r].poll # NoPoll
    /\ readers[r].poll.stage = "events"
    /\ readers' = [readers EXCEPT ![r].poll =
          [stage |-> "lookup", context |-> Context(Query[r], readers[r].poll.version)]]
    /\ UNCHANGED <<vars, cache>>

Key(r) == CacheKey(Query[r], readers[r].poll.context, readers[r].cursor)
Cached(key) == {entry \in cache : entry.key = key}

\* The client keeps a full page and follows it. What its request asked for
\* stays beside the page.
Answered(reader, page) ==
    [reader EXCEPT !.poll = NoPoll,
                   !.cursor = IF page.next = NoCursor THEN @ ELSE page.next,
                   !.kept = IF page.next = NoCursor THEN @ ELSE @ \o page.items,
                   !.shown = [page |-> page, after |-> reader.cursor,
                              version |-> reader.poll.context.version]]

\* The answer reaches the client.
Answer(r, page) == readers' = [readers EXCEPT ![r] = Answered(readers[r], page)]

\* The lookup in the cache: a hit is the answer.
Lookup(r) ==
    /\ readers[r].poll # NoPoll
    /\ readers[r].poll.stage = "lookup"
    /\ IF Cached(Key(r)) = {}
       THEN readers' = [readers EXCEPT ![r].poll.stage = "read"]
       ELSE \E entry \in Cached(Key(r)) : Answer(r, entry.page)
    /\ UNCHANGED <<vars, cache>>

\* The read of the source and the store into the cache.
Read(r, overshoot) ==
    LET page == PageOf(Query[r], readers[r].poll.context, readers[r].cursor, overshoot)
    IN  /\ readers[r].poll # NoPoll
        /\ readers[r].poll.stage = "read"
        /\ cache' = (cache \ Cached(Key(r))) \cup {[key |-> Key(r), page |-> page]}
        /\ Answer(r, page)
        /\ UNCHANGED vars

MarketNext ==
    \/ /\ \E s \in SessionId, p \in Principal : OwnerStep(s, p)
       /\ UNCHANGED marketVars
    \/ \E r \in Reader :
          \/ Request(r) \/ ReadEvents(r) \/ Lookup(r)
          \/ \E overshoot \in BOOLEAN : Read(r, overshoot)

MarketSpec == MarketInit /\ [][MarketNext]_<<vars, marketVars>>

-----------------------------------------------------------------------------
(***************************************************************************)
(* Properties                                                              *)
(***************************************************************************)

MarketTypeOK ==
    /\ TypeOK
    /\ \A r \in Reader :
          /\ readers[r].polls \in Nat
          /\ readers[r].poll # NoPoll =>
                /\ readers[r].poll.stage \in {"events", "lookup", "read"}
                /\ (IF readers[r].poll.stage = "events" THEN readers[r].poll
                                                        ELSE readers[r].poll.context).version
                      \in 1..sessions[Query[r].session].version
    /\ \A e, f \in cache : e.key = f.key => e = f

\* The events of the channel a session had revealed at one of its versions,
\* from the offset of a query on and behind its cursor.
RevealedAt(q, version, channel, after) ==
    LET log == domain_events[q.session]
        u   == SetupOf(log)
    IN  SelectIn(Source[channel], {e \in ToSet(Source[channel]) :
            /\ u.play_start + q.offset <= e.ts
            /\ e.ts <= FrontierAtVersion(log, version) /\ e.ts < u.play_end
            /\ After(e, after)})

\* What a bucket's trades amount to.
CandleOver(offset, trades) ==
    [offset |-> offset, open |-> trades[1].price, close |-> trades[Len(trades)].price,
     high |-> Max({t.price : t \in ToSet(trades)}),
     low |-> Min({t.price : t \in ToSet(trades)}),
     count |-> Len(trades), volume |-> Volume(trades)]

\* The candles of those trades, bucket by bucket, without any paging.
CandlesAt(q, version) ==
    LET trades == RevealedAt(q, version, "TRADES", NoCursor)
        start  == SetupOf(domain_events[q.session]).play_start
        place(t) == (t.ts - start) \div q.interval
        used   == {place(t) : t \in ToSet(trades)}
        shown  == {b \in used : Cardinality({c \in used : c < b}) < q.limit}
    IN  {CandleOver(b * q.interval, SelectIn(trades, {t \in ToSet(trades) : place(t) = b})) : b \in shown}

\* The page a query has at one version: the frontier of that version, and the
\* first events revealed by it, or their candles.
ExactAt(q, version, after, page) ==
    LET revealed == RevealedAt(q, version, q.channel, after)
        u == SetupOf(domain_events[q.session])
        size == IF Len(revealed) < q.limit THEN Len(revealed) ELSE q.limit
    IN  /\ page.frontier = Min({FrontierAtVersion(domain_events[q.session], version),
                                u.play_end - 1}) - u.play_start
        /\ IF q.channel = "CANDLES"
           THEN ToSet(page.items) = CandlesAt(q, version)
           ELSE page.items = [i \in 1..size |->
                   [offset |-> revealed[i].ts - u.play_start, price |-> revealed[i].price,
                    quantity |-> revealed[i].quantity]]

\* A page is exact for the frontier it names, and that frontier is one the
\* session has had since the version the request read, whatever the session did
\* between the reads of row, events, cache and source, whoever put the page into
\* the cache, however the candles were paged and whatever the source returned
\* beyond the frontier: none missing, none half read, none older than the
\* request. (The version of the row may be older than the frontier shown.)
PagesExact ==
    \A r \in Reader : readers[r].shown # NoPage =>
        LET shown == readers[r].shown
        IN  \E n \in shown.version .. sessions[Query[r].session].version :
                ExactAt(Query[r], n, shown.after, shown.page)

\* No client holds anything its session has not revealed: every event it was
\* ever shown, from the cache or not, lies at or before the frontier the
\* session has now, inside the window, and the session is its own.
NothingAhead ==
    \A r \in Reader : readers[r].shown # NoPage =>
        LET q == Query[r]
            u == SetupOf(domain_events[q.session])
        IN  /\ sessions[q.session].principal = q.principal
            /\ \A item \in ToSet(readers[r].kept \o readers[r].shown.page.items) :
                  /\ u.play_start + item.offset <= FrontierOf(domain_events[q.session])
                  /\ u.play_start + item.offset < u.play_end

\* A client that follows the cursors while the session advances sees every
\* event once: the pages it kept and the one it is shown are a prefix of the
\* channel from its offset on.
WalkContiguous ==
    \A r \in Reader :
        LET q == Query[r]
            u == SetupOf(domain_events[q.session])
            tape == Source[q.channel]
            all == SelectIn(tape, {e \in ToSet(tape) : u.play_start + q.offset <= e.ts})
            walked == readers[r].kept \o
                      (IF readers[r].shown = NoPage \/ readers[r].shown.page.next # NoCursor
                       THEN <<>> ELSE readers[r].shown.page.items)
        IN  q.channel # "CANDLES" =>
                /\ Len(walked) <= Len(all)
                /\ \A i \in DOMAIN walked :
                      walked[i] = [offset |-> all[i].ts - u.play_start,
                                   price |-> all[i].price, quantity |-> all[i].quantity]

\* Every page is exact for a version no older than its request, and pages that follow
\* each other leave nothing out.
PagesSound == MarketTypeOK /\ PagesExact /\ WalkContiguous

=============================================================================
