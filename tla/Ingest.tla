------------------------------- MODULE Ingest -------------------------------
(***************************************************************************)
(* IngestionRunner.run (workers/ingest/.../core): a fetch plan executed    *)
(* with checkpointed raw chunks, beside the files it leaves on disk. Every *)
(* file is replaced atomically, so the steps are the replacements and what *)
(* happens between them; the process may stop between any two. What it     *)
(* keeps in memory, the BudgetGuard included, is then lost.                *)
(*                                                                         *)
(* A response stands for its own SHA-256 digest. The provider may answer   *)
(* the same chunk differently each time; an object in the cache may rot.   *)
(***************************************************************************)
EXTENDS Canonical, Sums

CONSTANTS
    Plan,               \* adapter.plan(request): the chunk keys in order
    Raw,                \* provider responses
    Size,               \* Size[r]: len(r)
    Cost,               \* Cost[c]: estimated_cost_minor of a chunk
    Malformed,          \* the responses normalize() raises on
    Event,              \* canonical events
    Normalize(_, _),    \* adapter.normalize(chunk, raw).events
    MaxRequests, MaxBytes, MaxCost,     \* limits of the BudgetGuard
    MaxFaults,          \* bound: crashes and rotten objects
    MaxFailures,        \* bound: fetches that raise
    NoRaw, NoOutput

Chunk == {Plan[i] : i \in DOMAIN Plan}

ASSUME PlanAssumption ==
    /\ Plan \in Seq(Chunk)
    /\ \A i, j \in DOMAIN Plan : Plan[i] = Plan[j] => i = j

ASSUME CostAssumption ==
    /\ Size \in [Raw -> Nat]
    /\ Cost \in [Chunk -> Nat]
    /\ Malformed \subseteq Raw
    /\ NoRaw \notin Raw
    /\ {MaxRequests, MaxBytes, MaxCost, MaxFaults, MaxFailures} \subseteq Nat

\* What normalize() returns are events with the fields of the sort key.
ASSUME EventAssumption ==
    /\ \A e \in Event : {e.ts, e.sequence, e.tie} \subseteq Int
    /\ \A c \in Chunk, r \in Raw \ Malformed : Normalize(c, r) \in Seq(Event)

VARIABLES
    cache,              \* ContentAddressedCache: what the file of a digest holds
    checkpoint,         \* JobStateStore: chunk -> digest, or NoRaw
    data, manifest,     \* the canonical output and its manifest, or NoOutput
    run,                \* the call of run() in progress
    guard,              \* BudgetGuard.requests, .bytes, .cost_minor
    faults, failures    \* how often the environment has interfered

vars == <<cache, checkpoint, data, manifest, run, guard, faults, failures>>
disk == <<cache, checkpoint, data, manifest>>

Stage == {"idle", "chunk", "consume", "put", "save", "normalize", "manifest"}

NoCompleted == [c \in Chunk |-> NoRaw]
Idle == [stage |-> "idle", next |-> 1, completed |-> NoCompleted,
         raw |-> NoRaw, batches |-> <<>>]
FreshGuard == [requests |-> 0, bytes |-> 0, cost |-> 0]

-----------------------------------------------------------------------------
\* The chunk being worked on.
Current == Plan[run.next]

\* FetchPlan.estimated_cost_minor
PlanCost == Total([i \in DOMAIN Plan |-> Cost[Plan[i]]])

\* What run() collects over the whole plan when chunk c is answered by raws[c].
\* The batches of a run are kept apart until its events are written.
Collected(raws) == FlattenSeq([i \in DOMAIN Plan |-> Normalize(Plan[i], raws[Plan[i]])])

\* The manifest: content hash (the ordered events themselves) and the digest
\* of every chunk.
Manifest(events, completed) == [content |-> Ordered(events), chunks |-> completed]

-----------------------------------------------------------------------------
Init ==
    /\ cache = [r \in Raw |-> "absent"]
    /\ checkpoint = NoCompleted
    /\ data = NoOutput
    /\ manifest = NoOutput
    /\ run = Idle
    /\ guard = FreshGuard
    /\ faults = 0
    /\ failures = 0

\* Mutation: what this process has spent already is not counted.
Preflight_freshGuard == Len(Plan) <= MaxRequests /\ PlanCost <= MaxCost

\* BudgetGuard.preflight: the whole plan, chunks that are completed included.
Preflight ==
    /\ guard.requests + Len(Plan) <= MaxRequests
    /\ guard.cost + PlanCost <= MaxCost

\* run() up to the loop. A plan over budget raises and changes nothing.
Begin ==
    /\ run.stage = "idle"
    /\ Preflight
    /\ run' = [Idle EXCEPT !.stage = "chunk", !.completed = checkpoint]
    /\ UNCHANGED <<disk, guard, faults, failures>>

AtChunk == run.stage = "chunk" /\ run.next <= Len(Plan)

\* adapter.fetch of a chunk the checkpoint does not name.
Fetch(r) ==
    /\ AtChunk
    /\ run.completed[Current] = NoRaw
    /\ run' = [run EXCEPT !.stage = "consume", !.raw = r]
    /\ UNCHANGED <<disk, guard, faults, failures>>

\* An exception leaves run(); the process and its guard live on.
Raise ==
    /\ run' = Idle
    /\ UNCHANGED <<disk, guard>>

\* adapter.fetch raises: no network, no entitlement, a refused checksum.
FetchFails ==
    /\ AtChunk
    /\ run.completed[Current] = NoRaw
    /\ failures < MaxFailures
    /\ failures' = failures + 1
    /\ Raise
    /\ UNCHANGED faults

WithinBudget(r) ==
    /\ guard.requests + 1 <= MaxRequests
    /\ guard.bytes + Size[r] <= MaxBytes
    /\ guard.cost + Cost[Current] <= MaxCost

\* BudgetGuard.consume raises before a counter changes.
Consume ==
    /\ run.stage = "consume"
    /\ IF WithinBudget(run.raw)
       THEN /\ guard' = [requests |-> guard.requests + 1,
                         bytes |-> guard.bytes + Size[run.raw],
                         cost |-> guard.cost + Cost[Current]]
            /\ run' = [run EXCEPT !.stage = "put"]
            /\ UNCHANGED disk
       ELSE Raise
    /\ UNCHANGED <<faults, failures>>

\* Mutation: the digest is recorded and the object itself is not stored.
Put_notStored ==
    /\ run.stage = "put"
    /\ run' = [run EXCEPT !.stage = "save"]
    /\ UNCHANGED <<disk, guard, faults, failures>>

\* ContentAddressedCache.put: an object already there is read and verified.
Put ==
    /\ run.stage = "put"
    /\ IF cache[run.raw] = "rotten"
       THEN Raise
       ELSE /\ cache' = [cache EXCEPT ![run.raw] = "good"]
            /\ run' = [run EXCEPT !.stage = "save"]
            /\ UNCHANGED <<checkpoint, data, manifest, guard>>
    /\ UNCHANGED <<faults, failures>>

\* The checkpoint entry and JobStateStore.save, which writes all of them.
Save ==
    LET completed == [run.completed EXCEPT ![Current] = run.raw]
    IN  /\ run.stage = "save"
        /\ checkpoint' = completed
        /\ run' = [run EXCEPT !.stage = "normalize", !.completed = completed]
        /\ UNCHANGED <<cache, data, manifest, guard, faults, failures>>

\* Mutation: a chunk already completed is fetched again.
Get_refetch(r) ==
    /\ AtChunk
    /\ run.completed[Current] # NoRaw
    /\ run' = [run EXCEPT !.stage = "normalize", !.raw = r]
    /\ UNCHANGED <<disk, guard, faults, failures>>

\* ContentAddressedCache.get for a completed chunk; it verifies what it reads.
Get(r) ==
    /\ AtChunk
    /\ run.completed[Current] = r
    /\ IF cache[r] = "good"
       THEN /\ run' = [run EXCEPT !.stage = "normalize", !.raw = r]
            /\ UNCHANGED <<disk, guard>>
       ELSE Raise
    /\ UNCHANGED <<faults, failures>>

\* adapter.normalize, then the next chunk.
NormalizeChunk ==
    /\ run.stage = "normalize"
    /\ IF run.raw \in Malformed
       THEN Raise
       ELSE /\ run' = [run EXCEPT !.stage = "chunk", !.next = @ + 1, !.raw = NoRaw,
                                  !.batches = Append(@, Normalize(Current, run.raw))]
            /\ UNCHANGED <<disk, guard>>
    /\ UNCHANGED <<faults, failures>>

\* write_canonical up to the replacement of the data file.
WriteData ==
    /\ run.stage = "chunk"
    /\ run.next > Len(Plan)
    /\ data' = Ordered(FlattenSeq(run.batches))
    /\ run' = [run EXCEPT !.stage = "manifest"]
    /\ UNCHANGED <<cache, checkpoint, manifest, guard, faults, failures>>

\* write_canonical: the manifest, and the return of run().
WriteManifest ==
    /\ run.stage = "manifest"
    /\ manifest' = Manifest(FlattenSeq(run.batches), run.completed)
    /\ run' = Idle
    /\ UNCHANGED <<cache, checkpoint, data, guard, faults, failures>>

\* The process stops inside run(); a new one starts with a new guard.
Crash ==
    /\ faults < MaxFaults
    /\ run.stage # "idle"
    /\ faults' = faults + 1
    /\ run' = Idle
    /\ guard' = FreshGuard
    /\ UNCHANGED <<disk, failures>>

\* Between runs the process may end; the next one has a guard of its own.
NewProcess ==
    /\ run.stage = "idle"
    /\ guard # FreshGuard
    /\ guard' = FreshGuard
    /\ UNCHANGED <<disk, run, faults, failures>>

\* An object of the cache no longer matches its address.
Rot(r) ==
    /\ faults < MaxFaults
    /\ cache[r] = "good"
    /\ faults' = faults + 1
    /\ cache' = [cache EXCEPT ![r] = "rotten"]
    /\ UNCHANGED <<checkpoint, data, manifest, run, guard, failures>>

\* Everything but faults and failures.
RunStep ==
    \/ Begin \/ Consume \/ Put \/ Save \/ NormalizeChunk \/ WriteData \/ WriteManifest
    \/ NewProcess
    \/ \E r \in Raw : Fetch(r) \/ Get(r)

Next == RunStep \/ FetchFails \/ Crash \/ \E r \in Raw : Rot(r)

Spec == Init /\ [][Next]_vars

\* A response that can be normalized and of which a whole plan fits the budget.
Acceptable == {r \in Raw \ Malformed : Len(Plan) * Size[r] <= MaxBytes}

\* Whoever runs the worker runs the job again after a failure, now and then in
\* a new process; a run once begun goes on; and a provider that is asked again
\* and again answers acceptably again and again. Crash, Rot and FetchFails are
\* bounded, never required.
LiveSpec ==
    /\ Spec
    /\ WF_vars(RunStep)
    /\ SF_vars(NewProcess)
    /\ SF_vars(\E r \in Acceptable : Fetch(r))

-----------------------------------------------------------------------------
(***************************************************************************)
(* Properties                                                              *)
(***************************************************************************)

TypeOK ==
    /\ cache \in [Raw -> {"absent", "good", "rotten"}]
    /\ checkpoint \in [Chunk -> Raw \cup {NoRaw}]
    /\ run.stage \in Stage
    /\ run.next \in 1 .. Len(Plan) + 1
    /\ run.completed \in [Chunk -> Raw \cup {NoRaw}]
    /\ run.raw \in Raw \cup {NoRaw}
    /\ guard \in [requests: 0..MaxRequests, bytes: 0..MaxBytes, cost: 0..MaxCost]
    /\ faults \in 0..MaxFaults
    /\ failures \in 0..MaxFailures

\* A checkpoint never names an object that was not stored: whatever the moment
\* of a crash, the resumed run finds the file of every completed chunk.
CheckpointBacked ==
    \A c \in Chunk : checkpoint[c] # NoRaw => cache[checkpoint[c]] # "absent"

\* A resumed job produces what an uninterrupted one would have produced from
\* the checkpointed responses: the same events, in order of their keys, no chunk twice or
\* missing, however often it stopped and whatever the provider answered to
\* the attempts that were lost.
OutputFromCheckpoint ==
    data # NoOutput =>
        /\ \A c \in Chunk : checkpoint[c] # NoRaw
        /\ LET expected == Collected(checkpoint)
               Copies(seq, e) == Cardinality({i \in DOMAIN seq : seq[i] = e})
           IN  /\ Len(data) = Len(expected)
               /\ \A e \in ToSet(expected) : Copies(data, e) = Copies(expected, e)
               /\ \A i, j \in DOMAIN data : i < j => ~KeyBefore(data[j], data[i])

\* The manifest on disk always describes the data file beside it, also after a
\* crash between the two replacements and during a later run that rewrites
\* both.
OutputsAgree ==
    manifest # NoOutput =>
        manifest = [content |-> data, chunks |-> checkpoint]

\* "BudgetGuard rejects the full request/cost envelope before network access":
\* once a run is past its preflight no fetch finds the request or cost budget
\* spent, whatever the same process has fetched before; only bytes may be.
EnvelopeBeforeNetwork ==
    run.stage = "consume" =>
        /\ guard.requests < MaxRequests
        /\ guard.cost + Cost[Current] <= MaxCost

ResultOf(raws) == Manifest(Collected(raws), raws)
Job == INSTANCE IngestJob WITH
          NoResult <- NoOutput, pinned <- checkpoint, published <- manifest

\* The runner with its crashes, retries and changing responses implements the
\* job that is never interrupted.
ImplementsJob == Job!JobSpec

\* "Provider or ingestion failure: job is resumable": a job that is run again
\* after each failure is published, as long as its cache is intact and its plan
\* and responses fit the budget of a new process. The exception is a response
\* that cannot be normalized: it is checkpointed before normalize() sees it,
\* and every later run reads it from the cache and fails on it again.
JobFinishes ==
    <>(\/ manifest # NoOutput
       \/ \E r \in Raw : cache[r] = "rotten"
       \/ \E c \in Chunk : checkpoint[c] \in Malformed)

\* The files on disk can be resumed from and read at any moment: a checkpoint
\* names stored objects only, a manifest the data and the responses beside it.
DiskSound == TypeOK /\ CheckpointBacked /\ OutputsAgree

=============================================================================
