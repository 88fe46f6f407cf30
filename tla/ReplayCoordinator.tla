-------------------------- MODULE ReplayCoordinator --------------------------
(***************************************************************************)
(* ReplayCoordinator.advance_to, ReplayCheckpointStore and the snapshots   *)
(* table (apps/api/.../replay/service.py, replay/store.py), run by several *)
(* workers beside the session lifecycle of Sessions.                       *)
(*                                                                         *)
(* advance_to is a sequence of transactions with nothing held between      *)
(* them: read the session, load the latest checkpoint, replay the source   *)
(* to the persisted frontier, save, replay to the target, advance the      *)
(* session, save again. A worker may crash between any two, and every      *)
(* other caller may commit there.                                          *)
(*                                                                         *)
(* get_session is two SELECTs without a lock, the session row and then its *)
(* events, and under READ COMMITTED each has a snapshot of its own: a call *)
(* may hold version v with the frontier of a later version.                *)
(*                                                                         *)
(* The market-data source and the simulator are external: a partition is a *)
(* sequence of [seq, ts] items, and the simulator state is the sequence of *)
(* the items applied, so that state_version is its length and equal states *)
(* are equal histories.                                                    *)
(***************************************************************************)
EXTENDS Sessions, Selection

CONSTANTS
    Worker,         \* coordinator calls that may be active at once
    Source,         \* Source[m]: the items of manifest m's partition, in order
    BatchSize,      \* batch_size
    NoCheckpoint

Item == [seq: Nat, ts: Int]

ASSUME CoordinatorAssumption ==
    /\ Source \in [Manifest -> Seq(Item)]
    /\ BatchSize \in Nat \ {0}

\* "Canonical ordered partition cursor": the source is in source-event order.
ASSUME SourceAssumption ==
    \A m \in Manifest : \A i, j \in DOMAIN Source[m] :
        i < j => Source[m][i].seq < Source[m][j].seq

VARIABLES
    snapshots,      \* table snapshots: rows keyed by session and version
    workers         \* the local state of every worker

coordinatorVars == <<snapshots, workers>>
allVars == <<vars, coordinatorVars>>

\* A simulator state: the items applied to the pristine state, in order.
SimulatorState == Seq(Item)

\* source_event_seq: the last applied sequence number, -1 for None.
Checkpoint == [time: Int, source_event_seq: Int, simulator: SimulatorState]

Snapshot == [session: SessionId, version: Nat, checkpoint: Checkpoint]

\* Where a call stands, and why it ended if it failed.
\* A call that found nothing to advance ends as "current", one that advanced
\* the session as "advanced".
Stage == {"idle", "events", "load", "recover", "save", "insert", "current", "run",
          "advance", "save_advanced", "insert_advanced", "advanced", "failed"}
Ended == {"current", "advanced", "failed"}
Error == {"none", "TARGET", "CHECKPOINT_AHEAD", "SOURCE", "MISMATCH", "INTEGRITY",
          "VERSION_CONFLICT"}

Idle == [stage |-> "idle", session |-> NoSession, principal |-> NoPrincipal,
         version |-> 0, time |-> 0, target |-> 0, base |-> NoCheckpoint,
         state |-> <<>>, after |-> -1, prior |-> 0, error |-> "none"]

Call == [stage: Stage, session: SessionId \cup {NoSession},
         principal: Principal \cup {NoPrincipal}, version: Nat, time: Int,
         target: Int, base: Checkpoint \cup {NoCheckpoint},
         state: SimulatorState, after: Int, prior: Int, error: Error]

CoordinatorTypeOK ==
    /\ TypeOK
    /\ snapshots \in SUBSET Snapshot
    /\ workers \in [Worker -> Call]

-----------------------------------------------------------------------------
\* Replay starts once a setup is committed.
CoordinatorInit ==
    /\ \E s \in SessionId, p \in Principal, u \in Setup : PinnedInit(s, p, u)
    /\ snapshots = {}
    /\ workers = [w \in Worker |-> Idle]

SetupFor(w) == SetupOf(domain_events[workers[w].session])
WarmupStart(w) == SetupFor(w).play_start - SetupFor(w).warmup

\* A step of worker w that changes only its own call.
Local(w, call) ==
    /\ workers' = [workers EXCEPT ![w] = call]
    /\ UNCHANGED <<vars, snapshots>>

Fail(w, error) ==
    Local(w, [workers[w] EXCEPT !.stage = "failed", !.error = error])

\* The range check of advance_to against what the events say now.
TargetInRange(s, target) ==
    LET log == domain_events[s]
    IN  FrontierOf(log) <= target /\ target <= SetupOf(log).play_end

\* advance_to, get_session: the SELECT of the session row. A call whose row is
\* missing, of another principal or version or not running fails without a
\* trace, and so does one whose target is out of range already.
ReadRow(w, s, p, expected, target) ==
    /\ workers[w].stage = "idle"
    /\ Locked(s, p, expected, {"RUNNING"})
    /\ TargetInRange(s, target)
    /\ Local(w, [Idle EXCEPT !.stage = "events", !.session = s, !.principal = p,
                             !.version = expected, !.target = target])

\* get_session: the SELECT of the events, and the range check with the frontier
\* they give. The version is still that of the row.
ReadEvents(w) ==
    LET call == workers[w]
    IN  /\ call.stage = "events"
        /\ IF TargetInRange(call.session, call.target)
           THEN Local(w, [call EXCEPT !.stage = "load",
                             !.time = FrontierOf(domain_events[call.session])])
           ELSE Fail(w, "TARGET")

\* Mutation: a restored checkpoint replays the partition from its start.
Restored_rewound(call, stage, base) ==
    [call EXCEPT !.stage = stage, !.base = base, !.after = -1,
        !.state = IF base = NoCheckpoint THEN <<>> ELSE base.simulator,
        !.prior = SetupOf(domain_events[call.session]).play_start
                    - SetupOf(domain_events[call.session]).warmup]

\* The base of _run_until: restore the checkpoint, or the pristine state.
Restored(call, stage, base) ==
    IF base = NoCheckpoint
    THEN [call EXCEPT !.stage = stage, !.base = base, !.state = <<>>,
             !.after = -1,
             !.prior = SetupOf(domain_events[call.session]).play_start
                         - SetupOf(domain_events[call.session]).warmup]
    ELSE [call EXCEPT !.stage = stage, !.base = base,
             !.state = base.simulator, !.after = base.source_event_seq,
             !.prior = base.time]

\* load_latest: the row with the greatest version, not the greatest time.
LoadLatest(s) ==
    LET rows == {r \in snapshots : r.session = s}
    IN  IF rows = {} THEN NoCheckpoint
        ELSE (CHOOSE r \in rows : \A q \in rows : q.version <= r.version).checkpoint

\* load_latest and the decision of _recover_current_frontier.
Load(w) ==
    LET call == workers[w]
        latest == LoadLatest(call.session)
    IN  /\ call.stage = "load"
        /\ \/ /\ latest # NoCheckpoint
              /\ latest.time > call.time
              /\ Fail(w, "CHECKPOINT_AHEAD")
           \/ /\ latest # NoCheckpoint
              /\ latest.time = call.time
              /\ Local(w, Restored(call, "save", latest))
           \/ /\ ~(latest # NoCheckpoint /\ latest.time >= call.time)
              /\ Local(w, Restored(call, "recover", latest))

-----------------------------------------------------------------------------
\* _run_until, one batch per step.

\* source.next_after
NextAfter(m, after, through) ==
    LET wanted == SelectIn(Source[m], {i \in Range(Source[m]) :
                                          i.seq > after /\ i.ts <= through})
    IN  SubSeq(wanted, 1, IF Len(wanted) < BatchSize THEN Len(wanted) ELSE BatchSize)

\* _validate_source_item
ValidItem(item, after, prior, first, through) ==
    /\ item.seq = after + 1
    /\ first <= item.ts
    /\ prior <= item.ts
    /\ item.ts <= through

ValidBatch(batch, call, first, through) ==
    \A k \in DOMAIN batch :
        ValidItem(batch[k],
                  IF k = 1 THEN call.after ELSE batch[k - 1].seq,
                  IF k = 1 THEN call.prior ELSE batch[k - 1].ts,
                  first, through)

Applied(call, batch) ==
    IF batch = <<>> THEN call
    ELSE [call EXCEPT !.state = @ \o batch,
             !.after = batch[Len(batch)].seq, !.prior = batch[Len(batch)].ts]

\* Mutation: the loop has no exit.
Exhausted_never(batch) == FALSE

\* A short batch ends the loop.
Exhausted(batch) == Len(batch) < BatchSize

\* One turn of the loop towards `through`; the call moves on to `next` when
\* the source is exhausted.
RunBatch(w, through, next) ==
    LET call == workers[w]
    IN  \E batch \in {NextAfter(SetupFor(w).manifest, call.after, through)} :
        \E moved \in {Applied(call, batch)} :
            IF ValidBatch(batch, call, WarmupStart(w), through)
            THEN Local(w, IF Exhausted(batch)
                          THEN [moved EXCEPT !.stage = next,
                                  !.base = [time |-> through,
                                            source_event_seq |-> moved.after,
                                            simulator |-> moved.state]]
                          ELSE moved)
            ELSE Fail(w, "SOURCE")

Recover(w) ==
    /\ workers[w].stage = "recover"
    /\ RunBatch(w, workers[w].time, "save")

Run(w) ==
    /\ workers[w].stage = "run"
    /\ RunBatch(w, workers[w].target, "advance")

-----------------------------------------------------------------------------
\* ReplayCheckpointStore.save, called at `stage`; `next` follows it. The SELECT
\* and the INSERT of its transaction see each other's gaps: another worker may
\* insert the row in between.

RowAt(s, version) == {r \in snapshots : r.session = s /\ r.version = version}

SaveLookup(w, stage, insert, next) ==
    LET call == workers[w]
        rows == RowAt(call.session, call.version)
    IN  /\ call.stage = stage
        /\ \/ /\ rows = {}
              /\ Local(w, [call EXCEPT !.stage = insert])
           \/ \E r \in rows :
                 IF r.checkpoint = call.base
                 THEN Local(w, next)
                 ELSE Fail(w, "MISMATCH")

\* The primary key and the CHECK constraint state_version > 0 guard the row.
SaveInsert(w, insert, next) ==
    LET call == workers[w]
    IN  /\ call.stage = insert
        /\ IF RowAt(call.session, call.version) = {} /\ Len(call.base.simulator) > 0
           THEN /\ snapshots' = snapshots \cup
                      {[session |-> call.session, version |-> call.version,
                        checkpoint |-> call.base]}
                /\ workers' = [workers EXCEPT ![w] = next]
                /\ UNCHANGED vars
           ELSE Fail(w, "INTEGRITY")

\* After the frontier checkpoint: return if the target is the frontier, else
\* restore that checkpoint again and replay to the target.
AfterFrontierSave(call) ==
    IF call.target = call.time THEN [call EXCEPT !.stage = "current"]
    ELSE Restored(call, "run", call.base)

SaveFrontier(w) ==
    LET next == AfterFrontierSave(workers[w])
    IN  SaveLookup(w, "save", "insert", next) \/ SaveInsert(w, "insert", next)

\* Mutation: the call returns without storing the advanced checkpoint.
AdvancedCall_noSave(call) ==
    [call EXCEPT !.stage = "advanced", !.version = @ + 1, !.time = call.target]

\* The call after lifecycle.advance returned the advanced session.
AdvancedCall(call) ==
    [call EXCEPT !.stage = "save_advanced", !.version = @ + 1,
                 !.time = call.target]

\* lifecycle.advance with the version read at the start.
AdvanceSession(w) ==
    LET call == workers[w]
    IN  /\ call.stage = "advance"
        /\ Advance(call.session, call.principal, call.version, call.target)
        /\ workers' = [workers EXCEPT ![w] = AdvancedCall(call)]
        /\ UNCHANGED snapshots

\* lifecycle.advance raises: the session moved on in the meantime.
AdvanceConflict(w) ==
    LET call == workers[w]
    IN  /\ call.stage = "advance"
        /\ \/ ~HasNextVersion(call.version)
           \/ ~Locked(call.session, call.principal, call.version, {"RUNNING"})
        /\ Fail(w, "VERSION_CONFLICT")

SaveAdvanced(w) ==
    LET next == [workers[w] EXCEPT !.stage = "advanced"]
    IN  \/ SaveLookup(w, "save_advanced", "insert_advanced", next)
        \/ SaveInsert(w, "insert_advanced", next)

\* The caller took the result or the error.
Return(w) ==
    /\ workers[w].stage \in Ended
    /\ Local(w, Idle)

\* The process dies, at any point and any number of times.
Crash(w) ==
    /\ workers[w].stage \notin Ended \cup {"idle"}
    /\ Local(w, Idle)

Work(w) ==
    \/ ReadEvents(w)
    \/ Load(w)
    \/ Recover(w)
    \/ SaveFrontier(w)
    \/ Run(w)
    \/ AdvanceSession(w)
    \/ AdvanceConflict(w)
    \/ SaveAdvanced(w)

\* The other callers: lifecycle transitions, forks and trading commands.
OtherStep ==
    \E s \in SessionId, p \in Principal :
        OwnerStep(s, p) \/ AcceptCommand(s, p, sessions[s].version)

CoordinatorNext ==
    \/ OtherStep /\ UNCHANGED coordinatorVars
    \/ \E w \in Worker :
          \/ \E s \in SessionId, p \in Principal, t \in Instants :
                ReadRow(w, s, p, sessions[s].version, t)
          \/ Work(w)
          \/ Return(w)
          \/ Crash(w)

CoordinatorSpec == CoordinatorInit /\ [][CoordinatorNext]_allVars

\* A call that has begun keeps running until it returns or its worker crashes.
FairSpec == CoordinatorSpec /\ \A w \in Worker : WF_allVars(Work(w))

-----------------------------------------------------------------------------
(***************************************************************************)
(* Properties                                                              *)
(***************************************************************************)

\* What a simulator that never stopped would have applied by time t: the
\* canonical items up to t, as far as the partition is contiguous.
Canonical(m, t) ==
    SelectIn(Source[m], {i \in Range(Source[m]) : i.ts <= t})

\* t is a frontier session s has had since its version v.
FrontierSince(s, v, t) ==
    \E n \in v .. sessions[s].version : t = FrontierAtVersion(domain_events[s], n)

\* Every stored checkpoint is what an uninterrupted replay would have reached:
\* filed under a version the session really had, at a frontier it has had since
\* that version and not beyond the one it has now, holding every canonical item
\* up to it exactly once and in order, whatever crashes, restarts, concurrent
\* workers and torn reads of the session came before. (The frontier need not be
\* that of the very version: the row and the events are read apart.)
CheckpointsExact ==
    \A r \in snapshots :
        LET log == domain_events[r.session]
            c   == r.checkpoint
            all == Canonical(SetupOf(log).manifest, c.time)
        IN  /\ FrontierSince(r.session, r.version, c.time)
            /\ c.time <= FrontierOf(log)
            /\ c.simulator = all
            /\ \A k \in DOMAIN all : all[k].seq = k - 1
            /\ c.source_event_seq = Len(all) - 1

\* advance_to blames the stored checkpoints, as conflicting ("session version
\* already has a different replay checkpoint") or corrupt ("checkpoint is ahead
\* of persisted session frontier"), only when the session has moved on since
\* the call read it: of a session that stands still no two workers disagree.
BlameMeansMoved ==
    \A w \in Worker :
        LET call == workers[w]
        IN  /\ call.error = "MISMATCH" => call.version < sessions[call.session].version
            /\ call.error = "CHECKPOINT_AHEAD" =>
                  call.time < FrontierOf(domain_events[call.session])

\* A result handed to the caller is durable: when a call ends well its
\* checkpoint is stored under the version it returns. The time of an advanced
\* session is the frontier of that very version; a call that found nothing to
\* advance may have read its events after a later commit, and then returns a
\* frontier the session has had since.
ResultsDurable ==
    \A w \in Worker : workers[w].stage \in {"current", "advanced"} =>
        LET call == workers[w]
        IN  /\ \E r \in RowAt(call.session, call.version) :
                  r.checkpoint = call.base /\ call.base.time = call.time
            /\ FrontierSince(call.session, call.version, call.time)
            /\ call.stage = "advanced" =>
                  call.time = FrontierAtVersion(domain_events[call.session],
                                                call.version)

\* Whatever the other callers do, a call that has begun comes to an end.
CallsReturn ==
    \A w \in Worker :
        workers[w].stage = "events" ~> workers[w].stage \in Ended \cup {"idle"}

\* "concurrent checkpoint write conflicted": save gives this error only when a
\* row is already stored under its version.
IntegrityMeansConflict ==
    \A w \in Worker : workers[w].error = "INTEGRITY" =>
        RowAt(workers[w].session, workers[w].version) # {}

\* What is stored can be resumed from by any worker, and is called into question
\* only by a call that is itself out of date.
CheckpointsSound == CoordinatorTypeOK /\ CheckpointsExact /\ BlameMeansMoved

=============================================================================
