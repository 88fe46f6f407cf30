# Verification project for trading-replay-lab

TLA+ modules, TLC runs and TLAPS proofs for the control plane of the replay
lab, its practice engine and its ingest worker. `PROJECT.json` maps every
definition to the source lines it models and lists runs, mutants, findings,
hazards and theorems. Paths below are relative to `src/`; `api/` abbreviates
`apps/api/src/trading_replay_api/`, `ingest/` abbreviates
`workers/ingest/src/trading_replay_ingest/`.

## The system

A player commits to a window of historical market data, replays it without
ever seeing past the replay frontier, sends trading commands to a deterministic
simulator, and at the end exports a result that a verifier can recompute. The
data comes from providers through a resumable ingest worker; a blind session
plays an episode that the server drew and committed to beforehand.

| Component | State | Operations | Hard behaviour | What makes it correct | Module |
|---|---|---|---|---|---|
| Session lifecycle `api/sessions` | tables `sessions`, `domain_events`, `rulesets` | create, commit, start, pause, advance, complete, fork | commit reads the catalogue twice before its transaction, and looks up the ruleset before it inserts it; state is a fold of the log; versions shared with commands | log is one hash chain, frontier monotone and inside the window, pins immutable, every session readable | `Sessions` |
| Coverage catalogue `api/catalog` | in-memory manifests and revocations | register, revoke, eligible setups and windows, eligibility hash | changes between two reads of one commit; interval subtraction at its edges | eligible set contains what is pinned; offered = covered | `Sessions`, `Coverage` |
| Command intake `api/commands` | table `commands` | submit, cancel, replace, set leverage | price resolved before the accept transaction; retries | one command per key, one version per command, price belongs to the frontier; a retry gets the original (it does not always) | `CommandIntake` |
| Market view `api/market` | page cache | trades, quotes, depth, candles, current_quote | cache shared by clients, session moves between the reads of a request, paging while the frontier moves | nothing past the frontier, pages exact for a frontier had since their version | `Market`, `CommandIntake` (current_quote) |
| Replay coordinator `api/replay` | table `snapshots`, local call state | advance_to, load_latest, save | seven steps, no lock held between them, crashes, concurrent workers | checkpoints equal an uninterrupted replay | `ReplayCoordinator` |
| Command/event store `api/db/store.py` | `sessions`, `commands`, `domain_events` | append_command | reads before any lock | chain and versions survive races | `EventStore` |
| Selection commitments `api/commitments` | table `commitments` | prepare, reveal, draw | status checked without a lock, rejection sampling | one draw per session, secret sealed until the end, draw unbiased | `Commitments` |
| Result export `api/results` | table `result_bundles` | finalize, freeze | rows read in several transactions, insert race, two implementations of every digest | frozen once, whole, accepted by the verifier | `Results` |
| Result verifier `crates/sim-cli`, kernel `crates/sim-core/src/kernel` | kernel state during a replay | verify_bundle, apply | independent reimplementation of what Python wrote | accepts every frozen proof | `Verifier` |
| Practice engine `internal/practice` | cursor on a sealed price path, order list, position, risk figures | submit order, set leverage, advance | one advance fills, marks risk, liquidates, completes; stale reduce-only and margin checks; integer rounding | account is the sum of fills, risk current between commands, ended runs quiet | `Practice` |
| Practice server `internal/practicehttp` | map of sessions behind one mutex | start, command | none: a command holds the mutex | sessions are independent | `Practice` (one session) |
| Ingest pipeline `ingest/core` | budget, cache, checkpoint file, outputs | run / resume | crash between any two effects, providers that change their answers | resumed output = uninterrupted output | `Ingest`, `IngestJob`, `Canonical` |
| Quality, aggregation, calendars `ingest/quality`, `aggregate`, `calendars` | one pass over a stream | validate_events, aggregate_trades, buckets | state across events, overnight sessions, DST | status means replayable, bars are their buckets | `Quality`, `Bars`, `Dataset` |
| Tardis adapter `ingest/adapters/tardis` | book state across the rows of a file | plan, capabilities, normalize | messages of several rows, updates before a snapshot, reconnects | rebuilt book = venue's book | `Tardis`, `Entitlement`, `Dataset` |
| Simulator facade and order state machine `crates/sim-core/src/facade`, `orders` | orders, position, market sequence | submit, cancel, replace, one input per market event | long sequences of replacements, triggers and fills; caps taken at entry and used at a fill | position is the sum of fills, terminal orders frozen, limits respected | `Orders`, `Simulator` |
| Execution tiers `crates/sim-core/src/execution` | reconstructed L2 book | bar, quote, trade, snapshot, delta, sweep | intrabar ambiguity; lost, repeated and late updates; crossed books | a book that is enabled is the venue's | `Depth`, `Simulator` |
| Accounting `crates/sim-core` (positions' cost, ledger, risk, economics) | balances, margin | post, evaluate | fixed-point arithmetic | | not modelled |
| Other adapters, codecs, auth, secrets, routers, web client | none or opaque | parsing, I/O | none of state | | not modelled |

All API components meet in the database. The session row's `version` is the
only synchronisation: the lifecycle and `CommandStore.accept` lock the row
(`SELECT ... FOR UPDATE`) and compare the version the caller expects;
`append_command` relies on a compare-and-set `UPDATE`; the replay coordinator
calls the lifecycle's `advance`; commitments, results and the market view only
read the row, without a lock. `get_session` is two SELECTs, the row and then its
events (`api/sessions/service.py:445` and `:470`), on a plain connection: under
READ COMMITTED each has a snapshot of its own, so that a caller may hold version
v with the frontier of a later version. The catalogue, the market-data source and the
page cache are outside the database and change independently. The ingest worker
shares files, not tables: what it writes is registered in the catalogue.

## Modules

* **Sessions** - the shared tables and `SessionService`. A method that runs in
  one transaction is one action; `commit` is `CommitCheck` (tier and
  eligibility), `CommitHash` (`eligibility_hash` evaluates the set again),
  `RulesetLookup` (the transaction up to the SELECT of the ruleset row) and
  `CommitWrite` (the rest of it) or `CommitReject`. Two commits of different
  sessions may both look a ruleset up before either inserts it; the keys of the
  table refuse the second. The row lock of the transaction is the comparison of
  version and status, made again at the write. A session row is a record,
  status `"NONE"` an absent row. The log is a sequence of events whose payload
  keeps what materialization reads: the pinned setup, the time, the parent. An
  event's hash is the pair (causing version, place in the batch), which
  `CausesOrdered` shows to be unique in a log; SHA-256 is taken as injective.
  `SetupOf` and `FrontierOf` are the fold of `_materialize_from_row`, and
  `Materializes` the conditions under which it raises nothing.
  `AcceptCommand` is what accepting a command does to the row.
* **ReplayClock** - what a session promises, without log or versions: a clock
  in a window. `Sessions!ImplementsClock` is the refinement; the mapping folds
  the clock out of the row and the log.
* **CommandIntake** (extends Sessions) - clients with a call in flight.
  `Submit` prepares the payload, resolving a price selector to the last visible
  quote; `Accept` is the transaction with its four outcomes; `Resend` is the
  client repeating a request, for which the service prepares the payload again.
  The quote depends on the events `get_session` read and not on the row it read
  before them, so one step stands for both SELECTs here.
* **ReplayCoordinator** (extends Sessions) - `advance_to` per worker as a
  program counter (`stage`): read the session (`ReadRow`, then `ReadEvents`), load,
  recover to the frontier batch by batch, save (SELECT, then INSERT), replay to the
  target, `Advance` of the lifecycle, save again. `Crash` drops the local state at
  any stage, any number of times. The simulator state is the
  sequence of items it applied.
* **EventStore** (extends Sessions) - `append_command` as lookup, chain check
  and write (from the compare-and-set to the end of the transaction).
* **Commitments** (extends Sessions) - `prepare_episode_selection` as its
  status check and its INSERT, which no lock ties together, and
  `reveal_completed`. The draw is the code's rejection sampling over an HMAC
  whose value space (`Space`, 2^256) is no multiple of the list's length.
* **Results** (extends Commitments) - `finalize` as four steps: the session,
  the authoritative rows with everything that can refuse them, the lookup of a
  stored result, the INSERT. Commands are accepted beside it. The evidence a
  caller brings is good or bad (`Trace`).
* **Verifier** - `verify_bundle` of the Rust CLI as operators, with
  `Kernel::apply`, the state hashes, the ledger and the result hash. `Results`
  instantiates it: what Python froze is what Rust accepts. Both orders of
  postings are written out, since each program sorts in its own way.
* **Market** (extends Sessions) - a request is four steps (session row, events,
  cache, source); a reader follows the cursors it is given. Candles are aggregated
  from pages of trades as the code pages them. The source may return more than
  it was asked for; the code's filter is part of the model.
* **IngestJob** - what an ingestion job promises: every chunk pinned once,
  one result determined by the pins. **Ingest** - `IngestionRunner.run` with
  `BudgetGuard`, cache, checkpoint and writer; a step is a replacement of one
  file or what lies between two. `Raise` is an exception that leaves `run()`,
  `Crash` the end of the process, `Rot` a cached file that changes on disk.
  `ImplementsJob` is the refinement. **Canonical** - the sort key and the sort.
* **Tardis**, **Quality**, **Bars**, **Entitlement**, **Coverage** - pure code
  as operators: `normalize` for every data type, `validate_events`, calendars
  and `aggregate_trades`, entitlements and tiers, segments and windows of the
  catalogue. **Dataset** captures rows and gaps one at a time, so that TLC
  enumerates every small input, and states what the results have to do with
  each other and with reference definitions.
* **Practice** - one `Session` of the Go engine, with its own state. The
  server's mutex makes a command atomic; inside it `Advance` is a loop over
  prices and, for each, over orders. The module takes each turn as a step:
  `call` is the program counter (`reveal`, `orders`, `risk`), and the next
  command starts only at `ready`, so what players see are the `ready` states.
  `SubmitOrder` ends in one of `RejectNew`, `ParkStop`, `CancelNew`, `TakeNow`,
  `Rest`; the last two go through `risk` like a turn of `Advance`.
  `RiskHolds` and `Liquidate` are the two ways through `updateRisk`. Prices and
  quantities are integers with the code's truncating divisions; the scale
  (`Unit`, `Rate`, 1000 and 10^9 in the code) is a constant. Reason codes,
  messages and `CreatedAtStep` are left out.
* **Orders** - the transitions of `OrderState` on one order, as operators. A
  kind is a pair of a stop and a limit price, either of which may be missing.
  **Depth** (extends Orders) - the L2 book: snapshot, delta, sweep. A side is the
  displayed quantity per price; `PlanSweep` gives the fills of a sweep as a set,
  in which each level's share follows from the levels ahead of it.
  **Simulator** (extends Depth) - `SimulatorFacade::apply`, one action per
  accepted input; a refused input changes nothing, since `apply` works on a
  clone, except the delta that loses the book, which is consumed. The tier is
  pinned in `Init`. `VenueLevels` is the venue's own book, from which the feed
  may deliver any update at any time.
* **MCSessions, MCCommandIntake, MCReplayCoordinator, MCEventStore,
  MCPractice, MCIngest, MCResults, MCMarket, MCDataset, MCSimulator** - the
  instances.
* **Selection**, **Sums**, **Sorting** - operators written so that they can be
  proved about: the elements of a sequence that lie in a set, as a recursive
  function (`ReplaySource.next_after`, the filters of the market view); the sum
  of a function's values, as the size of a set where they are natural numbers
  (plan costs, reduce-only claims, missing depth) and as a recursive function
  where they may be negative (`SumOf`: fills, postings); the records of a sequence
  in the order of a relation (`Sorted`), a set in that of what is ahead of each
  element (`InOrder`) and integers in their own (`Ascending`).
* **SessionsProofs, IntakeProofs, CoordinatorProofs, StoreProofs,
  DisclosureProofs, PracticeProofs, IngestProofs, SimulatorProofs** - the
  theorems. DisclosureProofs holds those of Commitments, Results and Market:
  what a client is given of a session while it replays and after it.

Operators named `X_how` are mutations of `X`: plausible bugs under which a
property fails. No specification uses them. A property whose name ends in
`Sound`, and `FillsAccounted`, `RetriesExact`, `AcceptedInContext`,
`VersionsAccounted`, `FrontierTraced`, `KeysIdempotent`, `ResultFaithful`,
`DrawsSealed`, `CatalogueExact`, `PositionAccounted` and `DepthTrusted`, is the
conjunction of the named parts
above it in its module, each with its own comment.

## Runs

| Run | Checks | Bounds | States |
|---|---|---|---|
| sessions | `LogSound`, `FrontierTraced`, `FrontierInWindow`, `Materializable`, `RulesetsPinned`, `EligibilityCoversPin`, `AppendOnly`, `ImplementsClock` | 3 sessions, window of 2 instants, 2 contents of one ruleset id and 2 tiers, 2 commits in flight, versions to 3 | 118 224 |
| command_intake | `VersionsAccounted`, `RetriesExact`, `AcceptedInContext` | 2 clients, 2 keys, quotes before, inside and at the end of the window, 1 repetition, versions to 4 | 119 804 |
| replay_coordinator | `CheckpointsSound`, `ResultsDurable`, `CallsReturn` | 2 workers, any number of crashes, window of 1 instant and its end, batches of 2, a partition with a gap before its last item, versions to 4 | 83 340 |
| event_store | `StoreSound`, `KeysIdempotent` | 2 writers, 2 keys, 2 payloads, up to 2 events, versions to 3 | 231 125 |
| simulator | `OrdersSound`, `PositionAccounted`, `DepthTrusted`, `OrdersMonotone` | every tier, 2 orders out of 6 requests, 2 replacements, 1 revision, 3 bars, 2 quotes, 2 trades, 2 depth updates, 4 prices | 188 732 |
| practice | `AccountSound`, `RiskCurrent`, `FillsAccounted`, `TerminalOrdersFrozen`, `ReduceOnlyReduces`, `ExposureCovered` | 4 prices, 3 player orders out of 15 requests, leverage 1 and 2, advances of 1 and 2 | 973 768 |
| ingest | `DiskSound`, `OutputFromCheckpoint`, `EnvelopeBeforeNetwork`, `ImplementsJob`, `JobFinishes` | 2 chunks, 4 responses (one too large, one malformed), budget of 3 requests, 4 bytes, cost 4, 2 faults, 1 failing fetch | 4 942 |
| results | `DrawsSealed`, `ResultFaithful`, `VerifierAccepts`, `WriteOnce` | 1 session, 2 setups, 2 draws in flight, 2 secrets, HMAC space of 5, 2 finalizers, versions to 5 | 172 851 |
| market | `PagesSound`, `NothingAhead` | 1 session over 3 instants, 4 clients of 2 principals, page size 2, 3 requests, versions to 4 | 261 636 |
| dataset | `StreamSound`, `BarsSound`, `CatalogueExact` | up to 3 rows and gaps of an object (4 of a book, 2 of a derivative ticker), days of 4 ticks, weeks of 3 days, a change of offset in the middle of a day and one that puts the clock back over midnight | 224 127 |
| checkpoint_first | `IntegrityMeansConflict`, expected to be violated | as replay_coordinator | |
| retry_moved_quote | `RepeatsReturnOriginal`, expected to be violated | as command_intake, 1 client, 1 key | |

The bounds let the interesting cases happen: three versions are a commit, a
start and an advance, a pause or a command, so a session can exhaust its
versions, be forked mid-window or at the end of the window, and the fork, which
starts again at version 1, can complete; longer logs of one session are left to
the proofs and to the coordinator's run; two concurrent callers are what
every race in this code needs; three sessions give a fork of a fork; a batch of
two splits the partition inside two items of the same instant. `MaxVersion` stands for `U64_MAX`; `MaxCommits`, `MaxResends`,
`MaxEvents`, `MaxPrepares`, `MaxPolls`, `MaxFaults` and
`MaxFailures` are bounds of the model only. `ClientLead` and
`WriterLead` say how far past the stored version a caller may guess: 0 is a
client that names the version it last saw. In `EventStore` the bound on
versions is a guard of the caller, since `append_command` itself stops at none.
In `Practice` the 15 requests cover every intent, price mode and flag, the path
rises, falls far enough to liquidate and recovers, and three orders are enough
for one to wait while another opens and a third turns the position.

In `Ingest` a budget of three requests for a plan of two makes a second run in
the same process fail its preflight, and two faults are a crash before and
after the checkpoint of a chunk, or a crash and a rotten object. In `Results` a
space of five values and a list of two leaves one value to reject; five
versions are the shortest life of a session with one command in it. In `Market`
trades tie at an instant, lie at the end of the window and beyond it, and a page
of two splits both the ties and the candles. In `Dataset` four rows are a delta,
a snapshot, a delta and a reconnect. In `Simulator` two orders are one that
changes the position under the other or competes with it for the same
reduction; bars open beyond, inside and through every limit and stop; the feed
deletes the only bid and then crosses the ask, unless the session's own sweep
has emptied that level; `MaxOrders`, `MaxRevision` and `MaxSequence` bound the
model only.

Deadlock is not checked because ended practice runs, completed sessions,
finished jobs, full objects and exhausted versions legitimately end a run.
Sessions, clients, keys and writers are interchangeable in every safety
property and in the refinement, which is a safety property as well; the runs
with liveness use no symmetry.

**Fairness.** `FairSpec` of the coordinator asks weak fairness of `Work(w)`
only: a call that has begun is Python code running in a thread and keeps taking
steps until it returns, raises or its process dies (`Crash`). Nothing is assumed
of clients. `LiveSpec` of `Ingest` asks weak fairness of the steps of a run and
of starting one again (the worker is a command that an operator repeats until it
succeeds), strong fairness of a new process now and then (a `BudgetGuard` lives
as long as its process, so a job that spent its budget can finish only in
another one), and of an acceptable answer to a fetch that is repeated
(without it a provider may send too much for ever). Crashes, rot and failing
fetches are bounded and never required.

## Findings

Two runs are expected to end in a violation.

`retry_moved_quote`: "Repeated idempotency keys with identical payload return the
original result" (`docs/data-contracts.md:129`), which is `RepeatsReturnOriginal`.
An order with a price reference is resolved against the visible quote each time it
is sent (`api/commands/service.py:333`), and the resolved price and quote event are
part of the payload whose hash is compared (`api/commands/store.py:79`). A client
that lost the answer and repeats its request after an advance is told that its key
"was already used for a different payload". `RetriesExact` says what does hold: a
conflict is answered to a different request, or to one whose quote has moved.

`checkpoint_first`: `IntegrityMeansConflict`,
what the message "concurrent checkpoint write conflicted" says. The checkpoint
of a frontier with no earlier item has state version 0 and violates the
schema's CHECK every time, without any concurrent writer.

Observations made while modelling. Properties are stated so that they hold of
the code; these are the places where a reader might expect more:

* `commit` evaluates the eligible set twice. After a revocation in between, the
  pinned hash is that of a set without the pinned manifest.
  `EligibilityCoversPin` therefore says "eligible or revoked".
* A retry of `append_command` is told the session's current version
  (`api/db/store.py:118`), the first caller the one its command made (`:141`).
  `append_command` looks at the version and not at the status, so it could
  append to a completed session; none but tests calls it.
* `QuoteVisibleWhenAccepted` holds for clients that name the version they last
  saw (`ClientLead = 0`). A client that guesses the version a concurrent advance
  is about to create can pair it with an older quote.
* A torn read of the session is visible. A coordinator call that reads the row at
  version v and the events after a concurrent advance passes its version check,
  and files the state of the later frontier under v; if its target is that
  frontier it returns the two as a result. A market page made from such a read is
  filed and shown under v with a later frontier, which it names. So
  `CheckpointsExact`, `ResultsDurable` and `PagesExact` say "a frontier the
  session has had since that version", not "that version's frontier"; only a call
  that advanced the session itself returns a matching pair. What is stored is
  still the exact replay up to the time in it, and nothing is shown ahead
  (`NothingAhead`).
* A coordinator call that read the session before a concurrent advance may end
  with `CHECKPOINT_AHEAD` ("checkpoint is ahead of persisted session frontier")
  although the stored frontier has caught up, and with a mismatch where a torn
  read filed another checkpoint under its version. `BlameMeansMoved` says that
  this happens only when the session has moved since the call read it. Of two
  workers that insert the same checkpoint one ends with `INTEGRITY`. All fail
  the call and leave the tables as they were.
* The average entry price is truncated, so equity differs from what the fills
  paid and received. `EquityReconciles` bounds the difference: it never grows
  faster than rounding once per fill. Drawdown is taken before the
  liquidation fill (`internal/practice/model.go:598`), so the cost of the
  liquidation itself is in no drawdown figure.
* A response is checkpointed before it is normalized
  (`ingest/core/runner.py:67`). One that cannot be normalized is read from the
  cache and refused again by every later run, although `docs/architecture.md:159`
  calls a failed job resumable; `JobFinishes` exempts such jobs, and no property
  covers them.
* After lost updates *every* snapshot of a file is marked
  `PRE_SNAPSHOT_UPDATES_SKIPPED`, where `workers/ingest/docs/tardis/README.md`
  speaks of "that snapshot".
* Streams are written by exchange time. When that regresses across a reconnect
  a delta can move in front of its snapshot; `BookKept` is stated for objects in
  which it does not, `OrderTotal` for one object, and no property covers the
  others.
* `aggregate_trades` is told where coverage ends and not where it starts: a
  first bar that begins before it is not flagged. `CompletenessAgrees` says what
  the flags mean from the start of the coverage on.
* `session_for_ns` promises to "find the local session containing a UTC timestamp"
  (`ingest/calendars/__init__.py:104`) and looks at the local date of the instant
  and the date before. Where clocks go back across midnight after a session of
  the new date has opened, the local date of an instant inside it is the old one
  for the second time, and that session is not looked at: its trades "lie outside
  a session" until the clock has reached midnight again. America/St_Johns changed at
  00:01 until 2011; with an open at 00:00 the code finds no session for 2010-11-06
  23:05 -03:30, five minutes into the session of 7 November. The calendar "back" of
  `MCDataset` is of this kind, and `BucketsPartition` says which instants are not
  found, namely these and no others; the promise as it is written does not hold.
* `finalize` verifies a draw against the selection fields of the pinned setup,
  which do not include manifest and window: nothing requires that the window a
  player commits to is the episode that was drawn. Episode times are read as
  signed numbers when a secret is revealed and as unsigned ones by `finalize`,
  so an episode before 1970 could be revealed and never finalized.
* The page cache of the market view is never emptied.
* A reduce-only order of the simulator is capped when it is entered or replaced
  (`orders/mod.rs:708`) and not when it fills. Long two, a player enters a
  reduce-only sell of one and a plain sell of two; after the second has filled,
  the first opens a short position. `docs/trading-rules.md:70` has the cap "at
  every fill event, not merely at acceptance". `ReservedCovered` is stated for
  sessions in which only reduce-only orders have filled; no property covers the
  promise.
* A bar that does not reach an IOC or FOK limit leaves it working
  (`execution/f0/mod.rs:250`), and the remainder of a marketable-only GTC order
  rests in F1 and F2; `docs/trading-rules.md:90` and `:102` read otherwise. An
  immediate order is over once it has filled at all (`ImmediatesAtomic`), not
  once it was first offered liquidity.
* A replacement keeps the event the order was submitted at, and an input may
  repeat the last market event, so a replaced order can execute on a bar that was
  shown before the replacement.

## Proofs

Every theorem holds for all values of the constants that satisfy the named
assumptions of its modules, which TLC evaluates in every run; there is no bound
on the number of sessions, callers, orders, chunks or events. Of the runs'
safety properties all but two of `Dataset`, `StreamSound` and `BarsSound`, are
proved.

| Module | Theorem | States |
|---|---|---|
| SessionsProofs | `LogsSound`, `AlwaysMaterializable`, `FrontierBounded`, `RulesetsImmutable`, `HistoryAppendOnly`, `FrontiersTraced`, `PinsCovered`, `RefinesClock` | `LogSound`, `Materializable`, `FrontierInWindow`, `RulesetsPinned`, `AppendOnly`, `FrontierTraced`, `EligibilityCoversPin`, `ImplementsClock` |
| IntakeProofs | `VersionsExact`, `RetriesAnswered`, `QuotesFenced`; `UsedKeysAnswered` | `VersionsAccounted`, `RetriesExact`, `AcceptedInContext`; what a call on a used key is answered |
| CoordinatorProofs | `CheckpointsAreSound`, `ResultsStored` | `CheckpointsSound`, `ResultsDurable` |
| StoreProofs | `AppendsSound`, `KeysAnswered` | `StoreSound`, `KeysIdempotent` |
| DisclosureProofs | `ResultsWrittenOnce`, `ResultsFaithful`, `DrawsAlwaysSealed`, `VerifierAlwaysAccepts`, `PagesAlwaysSound`, `NothingShownAhead` | `WriteOnce`, `ResultFaithful`, `DrawsSealed`, `VerifierAccepts`, `PagesSound`, `NothingAhead` |
| PracticeProofs | `AccountsSound`, `RiskAlwaysCurrent`, `ExposureAlwaysCovered`, `TerminalOrdersStayFrozen`, `ReduceOnlyAlwaysReduces`, `FillsAlwaysAccounted` | `AccountSound`, `RiskCurrent`, `ExposureCovered`, `TerminalOrdersFrozen`, `ReduceOnlyReduces`, `FillsAccounted` |
| IngestProofs | `DiskAlwaysSound`, `OutputDetermined`, `EnvelopeHolds`, `RunnerImplementsJob`, `CatalogueAlwaysExact` | `DiskSound`, `OutputFromCheckpoint`, `EnvelopeBeforeNetwork`, `ImplementsJob`, `CatalogueExact` |
| SimulatorProofs | `OrdersAlwaysSound`, `OrdersNeverBack`, `PositionAlwaysAccounted`, `DepthAlwaysTrusted` | `OrdersSound`, `OrdersMonotone`, `PositionAccounted`, `DepthTrusted` |

**Sessions** (`SetupAssumption`, `BoundAssumption`, `NullAssumption`). None of
the invariants is inductive alone. The frontier is a maximum over log
indices and the setup a CHOOSE over the pin events, so every one of them needs
to know that a pinned session has exactly one pin event and that it comes
first; that in turn needs the link between status and log (a `SETUP` session
has an empty log) and between row and pin (the row's `ruleset_id` is the pinned
one). `Inv` is the conjunction of the typing, the chain, the bounds of the
causes, this shape of the log, the window bounds, the pinned rulesets and what a commit in flight has
seen of its ruleset row (`CommitsOK`: a row found has the content the commit asks
for, and rows stay). It
only says that a cause lies between 1 and the stored version, because that is
also true beside `append_command`, which gives all events of a batch one cause;
that causes grow strictly in the lifecycle alone is `StrictCauses`, proved on
top. There is one lemma for what appending an event does to `PinIdx`,
`FrontierIdx`, `SetupOf` and `FrontierOf`, and one per kind of action. A fork
names a version of its parent; that the parent's frontier at that version never
changes is the append-only step applied to the part of the log up to it
(`LineageInv`). The refinement maps every lifecycle step to the clock's step of
the same name and every commit check, rejection and accepted command to a
stutter.

**CommandIntake** (also `IntakeAssumption`). For the shared tables every step is
one of `Sessions`, so `Inv` carries over, here and in the next three modules.
The invariant adds that commands and events partition the versions, that a
running session's last event is a start or an advance, what was stored when
a command was accepted (`CommandsRan`), that only a payload with a price reference
names a quote (`PayloadsPlain`), and which command a conflict was about
(`ConflictsNamed`): two payloads of one request that differ then differ by their
quotes. `UsedKeysAnswered` is the step of `Accept` on a used key: the stored row
alone decides, whatever the session's status and version are by then. `QuotesFenced` assumes `ClientLead = 0`,
as the run does; it rests on `QuotesOK`: as long as the version a call names is
the stored one, the quote it carries is the visible one.

**ReplayCoordinator** (`CoordinatorAssumption`, `SourceAssumption`: the sequence
numbers of a partition ascend). What a worker holds between two
transactions is the replay of a prefix of the partition up to a frontier the
session has had since the version it read (`WorkerOK`); stored rows are such
states (`SnapshotOK`). Since the row and the events are read apart, the version
and the frontier are each one the session has had, in this order. The lemmas say which items `SelectIn` returns and that a batch
continues the prefix. Versions and frontiers that were had stay had, whatever
other callers do.

**EventStore** (`StoreAssumption`). `append_command` checks the chain before it
holds a lock. What survives until the write: the events continue the stream at
the place that was seen, and the stream is append-only, so the unique key
leaves only its end; the compare-and-set does the same for versions and for the
answers already given.

**Commitments and Results** (`DrawAssumption`, `HmacAssumption`: values lie
below `Space`; `NoCommitmentAssumption`, `NoResultAssumption`: the null values
are no rows). A completed session keeps its row, log and commands, so every
export in flight still shows the tables when it is frozen (`FinalizesInv`).
`DrawUnbiased` is arithmetic: below the largest multiple of the length every
remainder has the same number of values, shown by a bijection.
`VerifierAlwaysAccepts` (`TraceAssumption`: the types of the evidence, of which
nothing is presumed to be right) rests on two facts kept with every export: it
shows the tables, and its proof was made from evidence that passed the service's
own checks (`Evident`). The kernel replays the commands of the proof beside the
chain of event hashes and agrees with it place by place. The service and the
verifier sort the postings by keys that are written differently; both orders put
the same pairs of postings in order, hence give the same sequence, whatever it is.

**Market** (`SourceAssumption`: a channel's sequence numbers ascend and its times
do not go back; `QueryAssumption`: queries are those the service lets through).
A request looks at the row, the events, the cache and the source one after the
other, so nothing it holds need be current. It need not be: the frontier a session
had at a version never changes (the append-only step again), so a context is
determined by the query, the version of the row and a version of the events that
is not older, and so is the page. `MarketInv` says that whatever a client asked
for, was shown, and whatever the cache holds, is the context or page of such a
pair (`PollOK`, `ShownOK`, `EntryOK`). What a hit returns is right
because `CacheKey` is injective on these (`KeyIs`): equal keys have equal pages up
to what the source returned beyond the frontier, which the filter takes away
again (`PageIsExact`). The channels are ordered, so what any filter selects is a
slice: a page is a slice from the cursor on, a walk a slice from the offset on
(`Walk`), and a page that follows a cursor continues it without a gap. A candle
page is complete up to its limit since buckets follow each other: a part of the
trades that has more buckets than the limit holds all trades of the first ones.

**Practice** (`PricesAssumption`, `UnitsAssumption`, `RequestAssumption`: every
price path of at least two prices above the half spread, every fee schedule,
leverage range and request set). The inductive invariant adds what `call` says
about the cursor (a turn of `Advance` always has a price left, which is why the
cursor stays on the path and the branch of `Advance` for an exhausted path is
dead) and that no system order is ever working, without which a later fill could
skip the margin check. The argument is about `FillOrder`: one lemma for its
types and one for its effect on position and margin; each action is then one
lemma. For `FillsAlwaysAccounted` the four figures of an account (position,
proceeds, traded quantity, number of fills) are sums over the order list, of
which a fill changes one summand (`FillsInv`). The book error, realized profit
less cash less the position at its entry price, moves by at most the quantity
held and one unit with every fill, so that it stays below what
`EquityReconciles` allows; that bound is inductive only together with the one on
the position (`BooksOK`). Integers are unbounded in the proof; the code panics where `mulDiv`
would leave 64 bits.

**Ingest** (`PlanAssumption`, `CostAssumption`, `EventAssumption`). That a
manifest fits the data beside it does not follow from itself: a later run
rewrites both, one after the other, and they agree in between only because both
are determined by the checkpoint. The inductive invariant says so (`OutputOK`),
says that the batches a run holds are those of the chunks behind it as the
checkpoint has them (`MemoryOK`), and where in a turn of the loop an object is
stored and its chunk still unpinned (`TurnOK`). The refinement needs the same
facts: `Save` pins a chunk that had no response, `WriteManifest` publishes what
the pins determine, and every other step is invisible. `OutputDetermined` adds
that everything a run has collected is readable (`ReadableOK`) and that
`Ordered` is a sort: `FlattenSeq` yields a sequence of events, the sort's order
is total, and its result is a permutation without inversions. `EnvelopeHolds`
adds that the rest of the plan fits what is left of the budget (`EnvelopeOK`).

**Dataset** (`FrameAssumption`: spans, gaps, requests and setups are those their
classes and `plan()` let through; `CalendarAssumption`). `CatalogueAlwaysExact`
is about the passes of `_subtract_gaps`. The clipped gaps are sorted, so the
start of the last merged gap is never behind the next clip; with that (`MergedTo`)
merging keeps a `Chain`: ascending intervals that do not touch and hold the same
moments. Cutting a chain out of the span leaves a chain of what lies before the
cursor outside the gaps (`CutTo`). That segments do not touch is what makes
windows and setups agree, and `FlagsAlwaysAgree`: a bucket whose moments are all
covered lies in one segment. The days of a plan are whole days (`DayApart`), and
a tier rests on the same check day by day as `plan()` does.

**Simulator** (`PriceAssumption`: finitely many positive prices;
`SessionAssumption`, `MarketAssumption`, `SequenceAssumption`: requests, bars,
quotes, trades and the feed have their types; the feed may cross itself). `OrdersInv` says of each order what the transitions of `OrderState`
preserve. Every tier is shown to execute in one way (`Executes`): the terms of
the order are kept, the fills add up to what it gained and none is worse than
its limit. `PositionAccounted` is inductive beside it; `DepthInv` relates the
book to the venue's and to what has been filled. A sweep is a set of fills, so
that it takes no more than asked and no more than displayed is counted with
slots: the units of all levels ahead of a price, in a row.

Two devices recur. The induction theorems of the library take an operator, which
no installed prover can instantiate; a set of natural numbers serves instead
(`WellFoundedInduction`: a nonempty set has a least member), which is enough for
recursive functions such as `SelectIn` and for sorts. And a sum is the size of a
set of units (`Sums`), so that how it changes with one summand is a fact about
cardinalities (`SumChange`, `SumGrow`).

Only model-checked:

* liveness, which is out of the prover's reach: `CallsReturn`, `JobFinishes`;
* `StreamSound`: that readers of seven formats, the sort and `validate_events`
  fit each other on every object is an induction over data of many cases;
* `BarsSound`: it rests on how a calendar's sessions lie, of which the model allows
  more than the code's zones have. What of it
  does not rest on the calendar, that flags and segments agree, is proved
  (`FlagsAlwaysAgree`).

## Not modelled, and the plan

What could be added: `PersistedEventPublisher.read_after` of the replay store, a
read behind a cursor like the pages of `Market`; and `BarsSound` for the calendars
whose sessions do not overlap and lie on their local dates.

Left out: the accounting of `sim-core`, whose interesting cases lie at the
limits of 128-bit fixed-point numbers, out of reach of a small instance; the
Binance and canonical-file adapters, which parse one row into one event and
keep nothing between rows; network I/O, byte encodings and cryptography (a digest
stands for what was digested), authentication and stored provider secrets,
routers and the web client, which hold no state of their own or whose
correctness is about bytes.
