---------------------------- MODULE IngestProofs ----------------------------
(***************************************************************************)
(* Proofs about Ingest for every plan, provider, budget and number of      *)
(* faults: what is on disk is sound at every moment, and the runner        *)
(* implements the job that is never interrupted.                           *)
(*                                                                         *)
(* DiskSound is not inductive. That a manifest fits the data beside it     *)
(* rests on both being determined by the checkpoint, and that on the       *)
(* batches a run holds in memory being those of the chunks behind it;      *)
(* that a checkpoint names stored objects rests on where in a turn of the  *)
(* loop the run stands.                                                    *)
(*                                                                         *)
(* And about Dataset: what the catalogue makes of a manifest is exactly    *)
(* what the manifest covers, whatever gaps it declares.                    *)
(***************************************************************************)
EXTENDS Ingest, Dataset, SequenceTheorems, FiniteSetTheorems, WellFoundedInduction, TLAPS

\* A batch of events, and run() in progress.
Batch == {Normalize(c, r) : c \in Chunk, r \in Raw}
Run == [stage: Stage, next: 1 .. Len(Plan) + 1, completed: [Chunk -> Raw \cup {NoRaw}],
        raw: Raw \cup {NoRaw}, batches: Seq(Batch)]

Done == \A c \in Chunk : checkpoint[c] # NoRaw
BatchesUpTo(n) == [i \in 1 .. n |-> Normalize(Plan[i], checkpoint[Plan[i]])]

\* What a run knows is what the checkpoint holds.
MemoryOK ==
    run.stage # "idle" =>
        /\ run.completed = checkpoint
        /\ \A i \in 1 .. run.next - 1 : checkpoint[Plan[i]] # NoRaw
        /\ run.batches = BatchesUpTo(run.next - 1)

\* A response is on its way to the checkpoint, or there.
TurnOK ==
    /\ run.stage \in {"consume", "put", "save", "normalize"} =>
          run.next <= Len(Plan) /\ run.raw \in Raw
    /\ run.stage \in {"consume", "put", "save"} => checkpoint[Current] = NoRaw
    /\ run.stage = "save" => cache[run.raw] # "absent"
    /\ run.stage = "normalize" => checkpoint[Current] = run.raw

\* The outputs are functions of a complete checkpoint.
DataOK == Done /\ data = Ordered(Collected(checkpoint))
OutputOK ==
    /\ run.stage = "manifest" => run.next = Len(Plan) + 1 /\ DataOK
    /\ data # NoOutput => DataOK
    /\ manifest # NoOutput => DataOK /\ manifest = ResultOf(checkpoint)

\* The inductive invariant.
Inv ==
    /\ TypeOK
    /\ run \in Run
    /\ MemoryOK
    /\ TurnOK
    /\ OutputOK
    /\ CheckpointBacked

-----------------------------------------------------------------------------
(***************************************************************************)
(* The plan, the run record and its batches                                *)
(***************************************************************************)

LEMMA PlanFacts ==
    /\ Len(Plan) \in Nat
    /\ DOMAIN Plan = 1 .. Len(Plan)
    /\ \A i \in 1 .. Len(Plan) : Plan[i] \in Chunk
    /\ \A c \in Chunk : \E i \in 1 .. Len(Plan) : Plan[i] = c
    /\ \A i, j \in 1 .. Len(Plan) : Plan[i] = Plan[j] => i = j
<1>1. Len(Plan) \in Nat /\ DOMAIN Plan = 1 .. Len(Plan)
    BY PlanAssumption, LenProperties
<1> QED
    BY <1>1, PlanAssumption DEF Chunk

LEMMA IdleIsRun ==
    /\ Idle \in Run
    /\ Idle.stage = "idle" /\ Idle.next = 1 /\ Idle.raw = NoRaw /\ Idle.batches = <<>>
    /\ Idle.completed = NoCompleted
    BY PlanFacts, EmptySeq DEF Idle, Run, NoCompleted, Stage

\* The fields a step of run() leaves alone when it moves to another stage.
LEMMA StageFields ==
    ASSUME NEW u \in Run, NEW st \in Stage, NEW v, v = [u EXCEPT !.stage = st]
    PROVE  /\ v \in Run /\ v.stage = st /\ v.raw = u.raw
           /\ v.next = u.next /\ v.completed = u.completed /\ v.batches = u.batches
    BY DEF Run

LEMMA RunFields ==
    ASSUME NEW u \in Run
    PROVE  /\ u.stage \in Stage
           /\ u.next \in 1 .. Len(Plan) + 1
           /\ u.next \in Int
           /\ u.completed \in [Chunk -> Raw \cup {NoRaw}]
           /\ u.raw \in Raw \cup {NoRaw}
           /\ u.batches \in Seq(Batch)
    BY PlanFacts DEF Run

LEMMA BatchesGrow ==
    ASSUME checkpoint \in [Chunk -> Raw \cup {NoRaw}],
           NEW n \in Nat, n < Len(Plan),
           \A i \in 1 .. n + 1 : checkpoint[Plan[i]] # NoRaw
    PROVE  /\ Normalize(Plan[n + 1], checkpoint[Plan[n + 1]]) \in Batch
           /\ Append(BatchesUpTo(n), Normalize(Plan[n + 1], checkpoint[Plan[n + 1]]))
                 = BatchesUpTo(n + 1)
<1> DEFINE b(i) == Normalize(Plan[i], checkpoint[Plan[i]])
<1>1. \A i \in 1 .. n + 1 : b(i) \in Batch
    <2> SUFFICES ASSUME NEW i \in 1 .. n + 1 PROVE b(i) \in Batch
        OBVIOUS
    <2>1. i \in 1 .. Len(Plan)
        BY PlanFacts
    <2>2. Plan[i] \in Chunk
        BY <2>1, PlanFacts
    <2>3. checkpoint[Plan[i]] \in Raw
        BY <2>2
    <2> QED
        BY <2>2, <2>3 DEF Batch
<1> HIDE DEF b
<1>2. [i \in 1 .. n |-> b(i)] \in Seq(Batch)
    BY <1>1, IsASeq
<1>3. Len([i \in 1 .. n |-> b(i)]) = n
    BY <1>2, LenProperties
<1>4. b(n + 1) \in Batch
    BY <1>1
<1>5. Append([i \in 1 .. n |-> b(i)], b(n + 1)) = [i \in 1 .. n + 1 |-> b(i)]
    BY <1>2, <1>3, <1>4
<1> QED
    BY <1>4, <1>5 DEF b, BatchesUpTo

\* All batches are the events of the whole plan.
LEMMA BatchesComplete ==
    BatchesUpTo(Len(Plan)) =
        [i \in DOMAIN Plan |-> Normalize(Plan[i], checkpoint[Plan[i]])]
    BY PlanFacts DEF BatchesUpTo

-----------------------------------------------------------------------------
(***************************************************************************)
(* What a step keeps that leaves the disk, or the memory of the run, alone *)
(***************************************************************************)

Guard == [requests: 0..MaxRequests, bytes: 0..MaxBytes, cost: 0..MaxCost]

\* The environment's counters and the budget have their types.
LEMMA DiskKept ==
    ASSUME Inv, UNCHANGED disk, run' \in Run, guard' \in Guard,
           faults' \in 0..MaxFaults, failures' \in 0..MaxFailures
    PROVE  /\ TypeOK'
           /\ CheckpointBacked'
           /\ run'.stage # "manifest" => OutputOK'
<1>1. TypeOK'
    BY RunFields DEF Inv, TypeOK, disk, Guard
<1>2. CheckpointBacked'
    BY DEF Inv, CheckpointBacked, disk
<1>3. ASSUME run'.stage # "manifest" PROVE OutputOK'
    <2>1. checkpoint' = checkpoint /\ data' = data /\ manifest' = manifest
        BY DEF disk
    <2> QED
        BY <1>3, <2>1 DEF Inv, OutputOK, DataOK, Done, Collected, ResultOf, Manifest
<1> QED
    BY <1>1, <1>2, <1>3

LEMMA MemoryKept ==
    ASSUME Inv, run.stage # "idle", checkpoint' = checkpoint,
           run'.next = run.next, run'.completed = run.completed, run'.batches = run.batches
    PROVE  MemoryOK'
    BY DEF Inv, MemoryOK, BatchesUpTo

\* run() is left, by a result, an exception or the end of the process.
LEMMA IdleKeeps ==
    ASSUME Inv, UNCHANGED disk, run' = Idle, guard' \in Guard,
           faults' \in 0..MaxFaults, failures' \in 0..MaxFailures
    PROVE  Inv'
<1>1. run' \in Run /\ run'.stage = "idle"
    BY IdleIsRun
<1>2. MemoryOK' /\ TurnOK'
    BY <1>1 DEF MemoryOK, TurnOK
<1> QED
    BY <1>1, <1>2, DiskKept DEF Inv

\* The types of the counters.
LEMMA CountersTyped ==
    ASSUME Inv
    PROVE  guard \in Guard /\ faults \in 0..MaxFaults /\ failures \in 0..MaxFailures
    BY DEF Inv, TypeOK, Guard

LEMMA FreshTyped == FreshGuard \in Guard
    BY CostAssumption DEF FreshGuard, Guard

LEMMA RaiseKeeps ==
    ASSUME Inv, Raise, faults' \in 0..MaxFaults, failures' \in 0..MaxFailures
    PROVE  Inv'
    BY IdleKeeps, CountersTyped DEF Raise

-----------------------------------------------------------------------------
(***************************************************************************)
(* One lemma for every action                                              *)
(***************************************************************************)

LEMMA InitHolds == Init => Inv
<1> SUFFICES ASSUME Init PROVE Inv
    OBVIOUS
<1>1. run \in Run /\ run.stage = "idle"
    BY IdleIsRun DEF Init
<1>2. TypeOK
    BY <1>1, RunFields, FreshTyped, CostAssumption DEF Init, TypeOK, Guard, NoCompleted
<1>3. OutputOK /\ CheckpointBacked
    BY <1>1 DEF Init, OutputOK, CheckpointBacked, NoCompleted
<1> QED
    BY <1>1, <1>2, <1>3 DEF Inv, MemoryOK, TurnOK

LEMMA BeginKeeps == ASSUME Inv, Begin PROVE Inv'
<1>1. checkpoint \in [Chunk -> Raw \cup {NoRaw}]
    BY DEF Inv, TypeOK
<1>2. /\ run' \in Run /\ run'.stage = "chunk" /\ run'.next = 1
      /\ run'.completed = checkpoint /\ run'.batches = <<>>
    <2>1. run' = [Idle EXCEPT !.stage = "chunk", !.completed = checkpoint]
        BY DEF Begin
    <2>2. "chunk" \in Stage
        BY DEF Stage
    <2> QED
        BY <1>1, <2>1, <2>2, IdleIsRun DEF Run
<1>3. UNCHANGED disk /\ UNCHANGED <<guard, faults, failures>>
    BY DEF Begin
<1>4. MemoryOK'
    <2>1. BatchesUpTo(0)' = <<>>
        BY DEF BatchesUpTo
    <2> QED
        BY <1>2, <1>3, <2>1 DEF MemoryOK, disk
<1>5. TurnOK'
    BY <1>2 DEF TurnOK
<1> QED
    BY <1>2, <1>3, <1>4, <1>5, DiskKept, CountersTyped DEF Inv

LEMMA FetchKeeps == ASSUME Inv, NEW r \in Raw, Fetch(r) PROVE Inv'
<1>1. /\ run' \in Run /\ run'.stage = "consume" /\ run'.raw = r /\ run'.next = run.next
      /\ run'.completed = run.completed /\ run'.batches = run.batches
    <2>1. run \in Run /\ run' = [run EXCEPT !.stage = "consume", !.raw = r]
        BY DEF Inv, Fetch
    <2> QED
        BY <2>1 DEF Run, Stage
<1>2. UNCHANGED disk /\ UNCHANGED <<guard, faults, failures>>
    BY DEF Fetch
<1>3. run.stage = "chunk" /\ run.next <= Len(Plan) /\ run.completed[Current] = NoRaw
    BY DEF Fetch, AtChunk
<1>4. MemoryOK'
    BY <1>1, <1>2, <1>3, MemoryKept DEF disk
<1>5. TurnOK'
    BY <1>1, <1>2, <1>3 DEF Inv, MemoryOK, TurnOK, Current, disk
<1> QED
    BY <1>1, <1>2, <1>4, <1>5, DiskKept, CountersTyped DEF Inv

LEMMA ConsumeKeeps == ASSUME Inv, Consume PROVE Inv'
<1>1. run.stage = "consume" /\ UNCHANGED <<faults, failures>>
    BY DEF Consume
<1>2. CASE ~WithinBudget(run.raw)
    BY <1>1, <1>2, RaiseKeeps, CountersTyped DEF Consume
<1>3. CASE WithinBudget(run.raw)
    <2>1. run' = [run EXCEPT !.stage = "put"] /\ UNCHANGED disk
        BY <1>3 DEF Consume
    <2>2. /\ run' \in Run /\ run'.stage = "put" /\ run'.raw = run.raw /\ run'.next = run.next
          /\ run'.completed = run.completed /\ run'.batches = run.batches
        <3>1. run \in Run /\ "put" \in Stage
            BY DEF Inv, Stage
        <3> QED
            BY <2>1, <3>1, StageFields
    <2>3. guard' \in Guard
        <3>1. run.raw \in Raw /\ Current \in Chunk
            BY <1>1, PlanFacts, RunFields DEF Inv, TurnOK, Current
        <3>2. Size[run.raw] \in Nat /\ Cost[Current] \in Nat
            BY <3>1, CostAssumption
        <3>3. /\ guard.requests \in Nat /\ guard.bytes \in Nat /\ guard.cost \in Nat
            BY CostAssumption DEF Inv, TypeOK
        <3>4. guard' = [requests |-> guard.requests + 1,
                        bytes |-> guard.bytes + Size[run.raw],
                        cost |-> guard.cost + Cost[Current]]
            BY <1>3 DEF Consume
        <3> QED
            BY <1>3, <3>2, <3>3, <3>4, CostAssumption DEF Guard, WithinBudget
    <2>4. MemoryOK'
        BY <1>1, <2>1, <2>2, MemoryKept DEF disk
    <2>5. TurnOK'
        BY <1>1, <2>1, <2>2 DEF Inv, TurnOK, Current, disk
    <2> QED
        BY <1>1, <2>1, <2>2, <2>3, <2>4, <2>5, DiskKept, CountersTyped DEF Inv
<1> QED
    BY <1>2, <1>3

LEMMA FetchFailsKeeps == ASSUME Inv, FetchFails PROVE Inv'
<1>1. failures' \in 0..MaxFailures /\ faults' = faults /\ Raise
    BY CountersTyped, CostAssumption DEF FetchFails
<1> QED
    BY <1>1, RaiseKeeps, CountersTyped

LEMMA PutKeeps == ASSUME Inv, Put PROVE Inv'
<1>1. run.stage = "put" /\ UNCHANGED <<faults, failures>>
    BY DEF Put
<1>2. CASE cache[run.raw] = "rotten"
    BY <1>1, <1>2, RaiseKeeps, CountersTyped DEF Put
<1>3. CASE cache[run.raw] # "rotten"
    <2>1. /\ cache' = [cache EXCEPT ![run.raw] = "good"]
          /\ run' = [run EXCEPT !.stage = "save"]
          /\ UNCHANGED <<checkpoint, data, manifest, guard>>
        BY <1>3 DEF Put
    <2>2. /\ run' \in Run /\ run'.stage = "save" /\ run'.raw = run.raw /\ run'.next = run.next
          /\ run'.completed = run.completed /\ run'.batches = run.batches
        <3>1. run \in Run /\ "save" \in Stage
            BY DEF Inv, Stage
        <3> QED
            BY <2>1, <3>1, StageFields
    <2>3. run.raw \in Raw /\ cache \in [Raw -> {"absent", "good", "rotten"}]
        BY <1>1 DEF Inv, TurnOK, TypeOK
    <2>4. /\ cache' \in [Raw -> {"absent", "good", "rotten"}]
          /\ cache'[run.raw] # "absent"
          /\ \A r \in Raw : cache[r] # "absent" => cache'[r] # "absent"
        BY <2>1, <2>3
    <2>5. TypeOK'
        BY <1>1, <2>1, <2>2, <2>4, RunFields DEF Inv, TypeOK
    <2>6. MemoryOK'
        BY <1>1, <2>1, <2>2, MemoryKept
    <2>7. TurnOK'
        BY <1>1, <2>1, <2>2, <2>4 DEF Inv, TurnOK, Current
    <2>8. OutputOK'
        BY <2>1, <2>2 DEF Inv, OutputOK, DataOK, Done, Collected, ResultOf, Manifest
    <2>9. CheckpointBacked'
        BY <2>1, <2>4 DEF Inv, TypeOK, CheckpointBacked
    <2> QED
        BY <2>2, <2>5, <2>6, <2>7, <2>8, <2>9 DEF Inv
<1> QED
    BY <1>2, <1>3

\* What Save does to the checkpoint: the entry of the current chunk, empty
\* before, and no other.
LEMMA SavedCheckpoint ==
    ASSUME Inv, Save
    PROVE  /\ run.raw \in Raw /\ Current \in Chunk
           /\ run.next \in 1 .. Len(Plan)
           /\ checkpoint[Current] = NoRaw
           /\ checkpoint' = [checkpoint EXCEPT ![Current] = run.raw]
           /\ checkpoint' \in [Chunk -> Raw \cup {NoRaw}]
           /\ checkpoint'[Current] = run.raw
           /\ \A c \in Chunk : c # Current => checkpoint'[c] = checkpoint[c]
<1>1. run.stage = "save" /\ run.completed = checkpoint
    BY DEF Inv, Save, MemoryOK
<1>2. run.next \in 1 .. Len(Plan) /\ run.raw \in Raw /\ checkpoint[Current] = NoRaw
    BY <1>1, RunFields, PlanFacts DEF Inv, TurnOK
<1>3. Current \in Chunk
    BY <1>2, PlanFacts DEF Current
<1>4. checkpoint' = [checkpoint EXCEPT ![Current] = run.raw]
    BY <1>1 DEF Save
<1>5. checkpoint \in [Chunk -> Raw \cup {NoRaw}]
    BY DEF Inv, TypeOK
<1> QED
    BY <1>2, <1>3, <1>4, <1>5

LEMMA SaveKeeps == ASSUME Inv, Save PROVE Inv'
<1>1. /\ run.stage = "save" /\ run.completed = checkpoint
      /\ run.batches = BatchesUpTo(run.next - 1)
      /\ \A i \in 1 .. run.next - 1 : checkpoint[Plan[i]] # NoRaw
    BY DEF Inv, Save, MemoryOK
<1>2. UNCHANGED <<cache, data, manifest, guard, faults, failures>>
    BY DEF Save
<1>3. /\ run' \in Run /\ run'.stage = "normalize" /\ run'.raw = run.raw
      /\ run'.next = run.next /\ run'.completed = checkpoint' /\ run'.batches = run.batches
    <2>1. run \in Run /\ run' = [run EXCEPT !.stage = "normalize", !.completed = checkpoint']
        BY DEF Inv, Save
    <2> QED
        BY <2>1, SavedCheckpoint DEF Run, Stage
<1>4. TypeOK'
    BY <1>2, <1>3, SavedCheckpoint, RunFields DEF Inv, TypeOK
<1>5. \A i \in 1 .. run.next - 1 : checkpoint'[Plan[i]] = checkpoint[Plan[i]]
    <2> SUFFICES ASSUME NEW i \in 1 .. run.next - 1
                 PROVE  Plan[i] \in Chunk /\ Plan[i] # Current
        BY SavedCheckpoint
    <2>1. i \in 1 .. Len(Plan) /\ i # run.next
        BY SavedCheckpoint, PlanFacts
    <2> QED
        BY <2>1, SavedCheckpoint, PlanFacts DEF Current
<1>6. MemoryOK'
    <2>1. BatchesUpTo(run.next - 1)' = BatchesUpTo(run.next - 1)
        BY <1>3, <1>5 DEF BatchesUpTo
    <2> QED
        BY <1>1, <1>3, <1>5, <2>1 DEF MemoryOK
<1>7. TurnOK'
    BY <1>3, SavedCheckpoint, PlanFacts DEF TurnOK, Current
<1>8. OutputOK'
    <2>1. ~Done
        BY SavedCheckpoint DEF Done
    <2> QED
        BY <1>2, <1>3, <2>1 DEF Inv, OutputOK, DataOK
<1>9. CheckpointBacked'
    BY <1>1, <1>2, SavedCheckpoint DEF Inv, TurnOK, CheckpointBacked
<1> QED
    BY <1>3, <1>4, <1>6, <1>7, <1>8, <1>9 DEF Inv

LEMMA GetKeeps == ASSUME Inv, NEW r \in Raw, Get(r) PROVE Inv'
<1>1. /\ run.stage = "chunk" /\ run.next <= Len(Plan) /\ run.completed[Current] = r
      /\ UNCHANGED <<faults, failures>>
    BY DEF Get, AtChunk
<1>2. CASE cache[r] # "good"
    BY <1>1, <1>2, RaiseKeeps, CountersTyped DEF Get
<1>3. CASE cache[r] = "good"
    <2>1. /\ run' = [run EXCEPT !.stage = "normalize", !.raw = r]
          /\ UNCHANGED disk /\ guard' = guard
        BY <1>3 DEF Get
    <2>2. /\ run' \in Run /\ run'.stage = "normalize" /\ run'.raw = r /\ run'.next = run.next
          /\ run'.completed = run.completed /\ run'.batches = run.batches
        <3>1. run \in Run
            BY DEF Inv
        <3> QED
            BY <2>1, <3>1 DEF Run, Stage
    <2>3. MemoryOK'
        BY <1>1, <2>1, <2>2, MemoryKept DEF disk
    <2>4. TurnOK'
        BY <1>1, <2>1, <2>2 DEF Inv, MemoryOK, TurnOK, Current, disk
    <2> QED
        BY <1>1, <2>1, <2>2, <2>3, <2>4, DiskKept, CountersTyped DEF Inv
<1> QED
    BY <1>2, <1>3

LEMMA NormalizeKeeps == ASSUME Inv, NormalizeChunk PROVE Inv'
<1>1. /\ run.stage = "normalize" /\ UNCHANGED <<faults, failures>>
      /\ run.completed = checkpoint /\ run.batches = BatchesUpTo(run.next - 1)
      /\ \A i \in 1 .. run.next - 1 : checkpoint[Plan[i]] # NoRaw
      /\ run.raw \in Raw /\ checkpoint[Current] = run.raw
    BY DEF Inv, NormalizeChunk, MemoryOK, TurnOK
<1>2. CASE run.raw \in Malformed
    BY <1>1, <1>2, RaiseKeeps, CountersTyped DEF NormalizeChunk
<1>3. CASE run.raw \notin Malformed
    <2> DEFINE b == Normalize(Current, run.raw)
    <2>1. /\ run' = [run EXCEPT !.stage = "chunk", !.next = @ + 1, !.raw = NoRaw,
                                !.batches = Append(@, b)]
          /\ UNCHANGED disk /\ guard' = guard
        BY <1>3 DEF NormalizeChunk
    <2>2. run.next \in 1 .. Len(Plan)
        BY <1>1, RunFields, PlanFacts DEF Inv, TurnOK
    <2>3. \A i \in 1 .. run.next : checkpoint[Plan[i]] # NoRaw
        BY <1>1, <2>2, PlanFacts, CostAssumption DEF Current
    <2>4. b \in Batch /\ Append(run.batches, b) = BatchesUpTo(run.next)
        <3>1. /\ run.next - 1 \in Nat /\ run.next - 1 < Len(Plan)
              /\ (run.next - 1) + 1 = run.next
              /\ checkpoint \in [Chunk -> Raw \cup {NoRaw}]
            BY <2>2, PlanFacts DEF Inv, TypeOK
        <3> QED
            BY <1>1, <2>3, <3>1, BatchesGrow DEF Current
    <2> HIDE DEF b
    <2>5. /\ run' \in Run /\ run'.stage = "chunk" /\ run'.next = run.next + 1
          /\ run'.completed = run.completed /\ run'.batches = BatchesUpTo(run.next)
        <3>1. run \in Run /\ run.next + 1 \in 1 .. Len(Plan) + 1
            BY <2>2, PlanFacts DEF Inv
        <3>2. Append(run.batches, b) \in Seq(Batch)
            BY <2>4, <3>1, RunFields, AppendProperties
        <3> QED
            BY <2>1, <2>4, <3>1, <3>2 DEF Run, Stage
    <2>6. MemoryOK'
        BY <1>1, <2>1, <2>2, <2>3, <2>5 DEF MemoryOK, BatchesUpTo, disk
    <2>7. TurnOK'
        BY <2>5 DEF TurnOK
    <2> QED
        BY <1>1, <2>1, <2>5, <2>6, <2>7, DiskKept, CountersTyped DEF Inv
<1> QED
    BY <1>2, <1>3

\* At the end of the loop the checkpoint is complete and the run holds the
\* events it determines.
LEMMA LoopEnded ==
    ASSUME Inv, run.stage # "idle", run.next = Len(Plan) + 1
    PROVE  /\ Done
           /\ run.completed = checkpoint
           /\ FlattenSeq(run.batches) = Collected(checkpoint)
<1>1. /\ run.completed = checkpoint /\ run.batches = BatchesUpTo(Len(Plan))
      /\ \A i \in 1 .. Len(Plan) : checkpoint[Plan[i]] # NoRaw
    BY PlanFacts DEF Inv, MemoryOK
<1>2. Done
    BY <1>1, PlanFacts DEF Done
<1>3. FlattenSeq(run.batches) = Collected(checkpoint)
    BY <1>1, BatchesComplete DEF Collected
<1> QED
    BY <1>1, <1>2, <1>3

LEMMA WriteDataKeeps == ASSUME Inv, WriteData PROVE Inv'
<1>1. /\ run.stage = "chunk" /\ run.next > Len(Plan)
      /\ UNCHANGED <<cache, checkpoint, manifest, guard, faults, failures>>
      /\ run' = [run EXCEPT !.stage = "manifest"]
      /\ data' = Ordered(FlattenSeq(run.batches))
    BY DEF WriteData
<1>2. /\ run' \in Run /\ run'.stage = "manifest" /\ run'.next = run.next
      /\ run'.completed = run.completed /\ run'.batches = run.batches
    <2>1. run \in Run /\ "manifest" \in Stage
        BY DEF Inv, Stage
    <2> QED
        BY <1>1, <2>1, StageFields
<1>3. run.next = Len(Plan) + 1
    BY <1>1, RunFields, PlanFacts DEF Inv
<1>4. Done /\ data' = Ordered(Collected(checkpoint))
    BY <1>1, <1>3, LoopEnded
<1>5. TypeOK'
    BY <1>1, <1>2, RunFields DEF Inv, TypeOK
<1>6. MemoryOK'
    BY <1>1, <1>2, MemoryKept
<1>7. TurnOK'
    BY <1>2 DEF TurnOK
<1>8. OutputOK'
    <2>1. DataOK'
        BY <1>1, <1>4 DEF DataOK, Done, Collected
    <2>2. ResultOf(checkpoint)' = ResultOf(checkpoint)
        BY <1>1 DEF ResultOf, Manifest, Collected
    <2> QED
        BY <1>1, <1>2, <1>3, <2>1, <2>2 DEF Inv, OutputOK
<1>9. CheckpointBacked'
    BY <1>1 DEF Inv, CheckpointBacked
<1> QED
    BY <1>2, <1>5, <1>6, <1>7, <1>8, <1>9 DEF Inv

\* What is published is what the checkpoint determines.
LEMMA PublishedResult ==
    ASSUME Inv, WriteManifest
    PROVE  DataOK /\ manifest' = ResultOf(checkpoint)
<1>1. /\ run.stage = "manifest" /\ DataOK /\ run.next = Len(Plan) + 1
      /\ manifest' = Manifest(FlattenSeq(run.batches), run.completed)
    BY DEF Inv, OutputOK, WriteManifest
<1> QED
    BY <1>1, LoopEnded DEF ResultOf

LEMMA WriteManifestKeeps == ASSUME Inv, WriteManifest PROVE Inv'
<1>1. run' = Idle /\ UNCHANGED <<cache, checkpoint, data, guard, faults, failures>>
    BY DEF WriteManifest
<1>2. run' \in Run /\ run'.stage = "idle"
    BY <1>1, IdleIsRun
<1>3. TypeOK'
    BY <1>1, <1>2, RunFields DEF Inv, TypeOK
<1>4. OutputOK'
    <2>1. DataOK'
        BY <1>1, PublishedResult DEF DataOK, Done, Collected
    <2>2. ResultOf(checkpoint)' = ResultOf(checkpoint)
        BY <1>1 DEF ResultOf, Manifest, Collected
    <2> QED
        BY <1>2, <2>1, <2>2, PublishedResult DEF OutputOK
<1>5. CheckpointBacked'
    BY <1>1 DEF Inv, CheckpointBacked
<1> QED
    BY <1>2, <1>3, <1>4, <1>5 DEF Inv, MemoryOK, TurnOK

LEMMA CrashKeeps == ASSUME Inv, Crash PROVE Inv'
<1>1. faults' \in 0..MaxFaults
    BY CountersTyped, CostAssumption DEF Crash
<1> QED
    BY <1>1, IdleKeeps, CountersTyped, FreshTyped DEF Crash

LEMMA NewProcessKeeps == ASSUME Inv, NewProcess PROVE Inv'
<1>1. run' = run /\ run.stage = "idle" /\ UNCHANGED disk /\ guard' \in Guard
    BY FreshTyped DEF NewProcess
<1>2. run' \in Run /\ run'.stage = "idle"
    BY <1>1 DEF Inv
<1> QED
    BY <1>1, <1>2, DiskKept, CountersTyped DEF Inv, MemoryOK, TurnOK, NewProcess

LEMMA RotKeeps == ASSUME Inv, NEW r \in Raw, Rot(r) PROVE Inv'
<1>1. /\ UNCHANGED <<checkpoint, data, manifest, run, guard, failures>>
      /\ faults' \in 0..MaxFaults
    BY CountersTyped, CostAssumption DEF Rot
<1>2. /\ cache' \in [Raw -> {"absent", "good", "rotten"}]
      /\ \A q \in Raw : cache[q] # "absent" => cache'[q] # "absent"
    BY DEF Inv, TypeOK, Rot
<1>3. TypeOK'
    BY <1>1, <1>2 DEF Inv, TypeOK
<1>4. MemoryOK'
    BY <1>1 DEF Inv, MemoryOK, BatchesUpTo
<1>5. TurnOK'
    BY <1>1, <1>2 DEF Inv, TurnOK, Current
<1>6. OutputOK'
    BY <1>1 DEF Inv, OutputOK, DataOK, Done, Collected, ResultOf, Manifest
<1>7. CheckpointBacked'
    BY <1>1, <1>2 DEF Inv, TypeOK, CheckpointBacked
<1> QED
    BY <1>1, <1>3, <1>4, <1>5, <1>6, <1>7 DEF Inv

LEMMA StutterKeeps == ASSUME Inv, UNCHANGED vars PROVE Inv'
<1>1. UNCHANGED <<cache, checkpoint, data, manifest, run, guard, faults, failures>>
    BY DEF vars
<1>2. TypeOK' /\ CheckpointBacked'
    BY <1>1 DEF Inv, TypeOK, CheckpointBacked
<1>3. MemoryOK'
    BY <1>1 DEF Inv, MemoryOK, BatchesUpTo
<1>4. TurnOK'
    BY <1>1 DEF Inv, TurnOK, Current
<1>5. OutputOK'
    BY <1>1 DEF Inv, OutputOK, DataOK, Done, Collected, ResultOf, Manifest
<1> QED
    BY <1>1, <1>2, <1>3, <1>4, <1>5 DEF Inv

LEMMA NextKeeps == ASSUME Inv, [Next]_vars PROVE Inv'
    BY BeginKeeps, FetchKeeps, FetchFailsKeeps, ConsumeKeeps, PutKeeps, SaveKeeps, GetKeeps,
       NormalizeKeeps, WriteDataKeeps, WriteManifestKeeps, CrashKeeps, NewProcessKeeps,
       RotKeeps, StutterKeeps
    DEF Next, RunStep

-----------------------------------------------------------------------------
(***************************************************************************)
(* The budget                                                              *)
(***************************************************************************)

LEMMA UnitsFinite ==
    ASSUME NEW S, IsFiniteSet(S), NEW f \in [S -> Nat]
    PROVE  IsFiniteSet(Units(f))
<1> DEFINE part == [x \in S |-> {x} \X (1 .. f[x])]
<1>1. IsFiniteSet({part[x] : x \in S})
    <2>1. part \in Surjection(S, {part[x] : x \in S})
        BY DEF Surjection
    <2> QED
        BY <2>1, FS_Surjection
<1>2. \A T \in {part[x] : x \in S} : IsFiniteSet(T)
    <2> SUFFICES ASSUME NEW x \in S PROVE IsFiniteSet({x} \X (1 .. f[x]))
        OBVIOUS
    <2>1. IsFiniteSet({x}) /\ f[x] \in Int /\ 1 \in Int
        BY FS_Singleton
    <2>2. IsFiniteSet(1 .. f[x])
        BY <2>1, FS_Interval
    <2> QED
        BY <2>1, <2>2, FS_Product
<1>3. Units(f) = UNION {part[x] : x \in S}
    BY DEF Units
<1> HIDE DEF part
<1> QED
    BY <1>1, <1>2, <1>3, FS_UNION

LEMMA TotalNat ==
    ASSUME NEW S, IsFiniteSet(S), NEW f \in [S -> Nat]
    PROVE  Total(f) \in Nat
    BY UnitsFinite, FS_CardinalityType DEF Total

\* f without its value at x.
Without(f, x) == [y \in DOMAIN f \ {x} |-> f[y]]

\* A sum is one summand and the sum of the others.
LEMMA TotalSplit ==
    ASSUME NEW S, IsFiniteSet(S), NEW f \in [S -> Nat], NEW x \in S
    PROVE  Total(f) = f[x] + Total(Without(f, x))
<1>0. PICK g : g = Without(f, x)
    OBVIOUS
<1> DEFINE A == {x} \X (1 .. f[x])
<1>1. IsFiniteSet(S \ {x}) /\ g \in [S \ {x} -> Nat]
    BY <1>0, FS_RemoveElement DEF Without
<1>2. IsFiniteSet(Units(f)) /\ IsFiniteSet(Units(g)) /\ Total(g) \in Nat
    BY <1>1, UnitsFinite, TotalNat
<1>3. f[x] \in Nat /\ DOMAIN f = S /\ DOMAIN g = S \ {x}
    BY <1>1
<1>4. IsFiniteSet(A) /\ Cardinality(A) = f[x]
    <2>1. IsFiniteSet({x}) /\ Cardinality({x}) = 1
        BY FS_Singleton
    <2>2. IsFiniteSet(1 .. f[x]) /\ Cardinality(1 .. f[x]) = f[x]
        BY <1>3, FS_Interval
    <2>3. IsFiniteSet(A) /\ Cardinality(A) = Cardinality({x}) * Cardinality(1 .. f[x])
        BY <2>1, <2>2, FS_Product
    <2> QED
        BY <1>3, <2>1, <2>2, <2>3
<1>5. Units(f) = A \cup Units(g)
    <2>1. \A y \in S \ {x} : g[y] = f[y]
        BY <1>0 DEF Without
    <2> QED
        BY <1>3, <2>1 DEF Units
<1>6. A \cap Units(g) = {}
    BY <1>3 DEF Units
<1> HIDE DEF A
<1>7. Cardinality(A \cup Units(g)) = Cardinality(A) + Cardinality(Units(g)) - Cardinality({})
    <2>1. Cardinality(A \cup Units(g))
              = Cardinality(A) + Cardinality(Units(g)) - Cardinality(A \cap Units(g))
        BY <1>2, <1>4, FS_Union
    <2> QED
        BY <1>6, <2>1
<1> QED
    BY <1>0, <1>2, <1>3, <1>4, <1>5, <1>7, FS_EmptySet DEF Total

\* The estimated cost of the plan from its n-th chunk on.
CostFrom(n) == Total([i \in n .. Len(Plan) |-> Cost[Plan[i]]])

LEMMA CostAhead ==
    ASSUME NEW n \in 1 .. Len(Plan) + 1
    PROVE  /\ CostFrom(n) \in Nat
           /\ n <= Len(Plan) => /\ Cost[Plan[n]] \in Nat
                                /\ CostFrom(n) = Cost[Plan[n]] + CostFrom(n + 1)
<1> DEFINE c(m) == [i \in m .. Len(Plan) |-> Cost[Plan[i]]]
<1>1. \A m \in 1 .. Len(Plan) + 2 : c(m) \in [m .. Len(Plan) -> Nat]
    <2> SUFFICES ASSUME NEW m \in 1 .. Len(Plan) + 2, NEW i \in m .. Len(Plan)
                 PROVE  Cost[Plan[i]] \in Nat
        OBVIOUS
    <2>1. i \in 1 .. Len(Plan)
        BY PlanFacts
    <2> QED
        BY <2>1, PlanFacts, CostAssumption
<1>2. n \in Int /\ Len(Plan) \in Int /\ IsFiniteSet(n .. Len(Plan))
    BY PlanFacts, FS_Interval
<1>3. c(n) \in [n .. Len(Plan) -> Nat]
    BY <1>1, PlanFacts
<1>4. CostFrom(n) \in Nat
    BY <1>2, <1>3, TotalNat DEF CostFrom
<1>5. ASSUME n <= Len(Plan)
      PROVE  Cost[Plan[n]] \in Nat /\ CostFrom(n) = Cost[Plan[n]] + CostFrom(n + 1)
    <2>1. n \in n .. Len(Plan) /\ (n .. Len(Plan)) \ {n} = n + 1 .. Len(Plan)
        BY <1>2, <1>5
    <2>2. c(n + 1) = Without(c(n), n) /\ c(n)[n] = Cost[Plan[n]]
        BY <2>1 DEF Without
    <2>3. c(n)[n] \in Nat
        BY <1>3, <2>1
    <2> HIDE DEF c
    <2>4. Total(c(n)) = c(n)[n] + Total(Without(c(n), n))
        BY <1>2, <1>3, <2>1, TotalSplit
    <2> QED
        BY <2>2, <2>3, <2>4 DEF CostFrom, c
<1> QED
    BY <1>4, <1>5

\* After q requests and some cost the limits still cover the plan from its n-th
\* chunk on.
Covers(q, cost, n) ==
    q + (Len(Plan) + 1 - n) <= MaxRequests /\ cost + CostFrom(n) <= MaxCost

LEMMA CoversNext ==
    ASSUME NEW n \in 1 .. Len(Plan), NEW q \in Nat, NEW cost \in Nat, Covers(q, cost, n)
    PROVE  /\ q < MaxRequests /\ cost + Cost[Plan[n]] <= MaxCost
           /\ Covers(q + 1, cost + Cost[Plan[n]], n + 1)
           /\ Covers(q, cost, n + 1)
<1>1. Len(Plan) \in Nat /\ MaxRequests \in Nat /\ MaxCost \in Nat /\ n + 1 \in 1 .. Len(Plan) + 1
    BY PlanFacts, CostAssumption
<1>2. PICK here, rest : here = Cost[Plan[n]] /\ rest = CostFrom(n + 1)
    OBVIOUS
<1>3. here \in Nat /\ rest \in Nat /\ CostFrom(n) = here + rest
    BY <1>1, <1>2, CostAhead
<1>4. (cost + here) + rest <= MaxCost /\ cost + rest <= MaxCost /\ cost + here <= MaxCost
    BY <1>1, <1>3 DEF Covers
<1>5. /\ q < MaxRequests
      /\ (q + 1) + (Len(Plan) + 1 - (n + 1)) <= MaxRequests
      /\ q + (Len(Plan) + 1 - (n + 1)) <= MaxRequests
    BY <1>1 DEF Covers
<1> QED
    BY <1>2, <1>4, <1>5 DEF Covers

LEMMA PlanCostIs == PlanCost = CostFrom(1)
    BY PlanFacts DEF PlanCost, CostFrom

\* The first chunk of the loop that is not paid for yet.
Unpaid == IF run.stage \in {"chunk", "consume"} THEN run.next ELSE run.next + 1

\* Past its preflight a run has the requests and the cost of what is left of
\* the plan within its limits.
EnvelopeOK ==
    run.stage \in {"chunk", "consume", "put", "save", "normalize"} =>
        Covers(guard.requests, guard.cost, Unpaid)

LEMMA EnvelopeKept ==
    ASSUME Inv, EnvelopeOK, [Next]_vars
    PROVE  EnvelopeOK'
<1>1. /\ run \in Run /\ run.next \in 1 .. Len(Plan) + 1 /\ Len(Plan) \in Nat
      /\ guard.requests \in Nat /\ guard.cost \in Nat /\ MaxRequests \in Nat /\ MaxCost \in Nat
    BY RunFields, PlanFacts, CostAssumption DEF Inv, TypeOK
<1>2. CASE run'.stage \in {"idle", "manifest"}
    BY <1>2 DEF EnvelopeOK
<1>3. CASE Begin
    <2>1. run'.stage = "chunk" /\ run'.next = 1 /\ guard' = guard
        BY <1>3 DEF Begin, Idle
    <2>2. Unpaid' = 1
        BY <2>1 DEF Unpaid
    <2>3. Covers(guard.requests, guard.cost, 1)
        BY <1>1, <1>3, PlanCostIs DEF Begin, Preflight, Covers
    <2> QED
        BY <2>1, <2>2, <2>3 DEF EnvelopeOK
<1>4. ASSUME NEW r \in Raw, Fetch(r) PROVE EnvelopeOK'
    <2>1. /\ run.stage = "chunk" /\ run'.stage = "consume" /\ run'.next = run.next
          /\ guard' = guard
        BY <1>1, <1>4 DEF Fetch, AtChunk, Run
    <2>2. Unpaid' = Unpaid
        BY <2>1 DEF Unpaid
    <2> QED
        BY <2>1, <2>2 DEF EnvelopeOK
<1>5. CASE Consume /\ run'.stage = "put"
    <2>1. /\ run.stage = "consume" /\ run.next <= Len(Plan) /\ run'.next = run.next
          /\ guard'.requests = guard.requests + 1
          /\ guard'.cost = guard.cost + Cost[Plan[run.next]]
        BY <1>1, <1>5, IdleIsRun DEF Consume, Raise, Inv, TurnOK, Run, Current
    <2>2. Unpaid = run.next /\ Unpaid' = run.next + 1
        BY <1>5, <2>1 DEF Unpaid
    <2>3. run.next \in 1 .. Len(Plan) /\ Covers(guard.requests, guard.cost, run.next)
        BY <1>1, <2>1, <2>2 DEF EnvelopeOK
    <2>4. Covers(guard'.requests, guard'.cost, run.next + 1)
        BY <1>1, <2>1, <2>3, CoversNext
    <2> QED
        BY <2>2, <2>4 DEF EnvelopeOK
<1>6. CASE Put \/ Save
    <2>1. CASE run' = Idle
        BY <1>2, <2>1, IdleIsRun
    <2>2. CASE run' # Idle
        <3>1. /\ run.stage \in {"put", "save"} /\ run'.stage \in {"save", "normalize"}
              /\ run'.next = run.next /\ guard' = guard
            BY <1>1, <1>6, <2>2 DEF Put, Save, Raise, Run
        <3>2. Unpaid' = Unpaid
            BY <3>1 DEF Unpaid
        <3> QED
            BY <3>1, <3>2 DEF EnvelopeOK
    <2> QED
        BY <2>1, <2>2
<1>7. ASSUME NEW r \in Raw, Get(r) PROVE EnvelopeOK'
    <2>1. CASE run' = Idle
        BY <1>2, <2>1, IdleIsRun
    <2>2. CASE run' # Idle
        <3>1. /\ run.stage = "chunk" /\ run.next <= Len(Plan) /\ run'.stage = "normalize"
              /\ run'.next = run.next /\ guard' = guard
            BY <1>1, <1>7, <2>2 DEF Get, AtChunk, Raise, Run
        <3>2. Unpaid = run.next /\ Unpaid' = run.next + 1
            BY <3>1 DEF Unpaid
        <3>3. run.next \in 1 .. Len(Plan) /\ Covers(guard.requests, guard.cost, run.next)
            BY <1>1, <3>1, <3>2 DEF EnvelopeOK
        <3>4. Covers(guard.requests, guard.cost, run.next + 1)
            BY <1>1, <3>3, CoversNext
        <3> QED
            BY <3>1, <3>2, <3>4 DEF EnvelopeOK
    <2> QED
        BY <2>1, <2>2
<1>8. CASE NormalizeChunk
    <2>1. CASE run' = Idle
        BY <1>2, <2>1, IdleIsRun
    <2>2. CASE run' # Idle
        <3>1. /\ run.stage = "normalize" /\ run'.stage = "chunk"
              /\ run'.next = run.next + 1 /\ guard' = guard
            BY <1>1, <1>8, <2>2 DEF NormalizeChunk, Raise, Run
        <3>2. Unpaid' = Unpaid
            BY <3>1 DEF Unpaid
        <3> QED
            BY <3>1, <3>2 DEF EnvelopeOK
    <2> QED
        BY <2>1, <2>2
<1>9. CASE FetchFails \/ WriteData \/ WriteManifest \/ Crash
    <2>1. run'.stage \in {"idle", "manifest"}
        BY <1>1, <1>9, IdleIsRun DEF FetchFails, Raise, WriteData, WriteManifest, Crash, Run
    <2> QED
        BY <1>2, <2>1
<1>10. CASE NewProcess
    <2>1. run' = run /\ run.stage = "idle"
        BY <1>10 DEF NewProcess
    <2> QED
        BY <1>2, <2>1
<1>11. CASE UNCHANGED <<run, guard>>
    BY <1>11 DEF EnvelopeOK, Unpaid
<1>12. CASE Consume /\ run'.stage # "put"
    <2>1. run' = Idle
        BY <1>1, <1>12 DEF Consume, Raise, Run
    <2> QED
        BY <1>2, <2>1, IdleIsRun
<1> QED
    BY <1>3, <1>4, <1>5, <1>6, <1>7, <1>8, <1>9, <1>10, <1>11, <1>12
    DEF Next, RunStep, Rot, vars

-----------------------------------------------------------------------------
(***************************************************************************)
(* Induction, with the property given by the set of numbers that have it   *)
(***************************************************************************)

LEMMA LeastNat ==
    ASSUME NEW T \in SUBSET Nat, T # {}
    PROVE  \E x \in T : \A y \in T : x <= y
<1>1. PICK x \in T : \A y \in T : ~(<<y, x>> \in OpToRel(<, Nat))
    BY NatLessThanWellFounded, WFMin
<1>2. OpToRel(<, Nat) = {ss \in Nat \X Nat : ss[1] < ss[2]}
    BY Zenon DEF OpToRel
<1>3. ASSUME NEW y \in T PROVE ~(y < x)
    <2>1. <<y, x>> \notin {ss \in Nat \X Nat : ss[1] < ss[2]}
        BY <1>1, <1>2
    <2>2. <<y, x>> \in Nat \X Nat /\ <<y, x>>[1] = y /\ <<y, x>>[2] = x
        OBVIOUS
    <2> QED
        BY <2>1, <2>2, SMT
<1> QED
    BY <1>3

LEMMA SetInduction ==
    ASSUME NEW S \in SUBSET Nat, 0 \in S, \A n \in S : n + 1 \in S
    PROVE  S = Nat
<1> SUFFICES ASSUME Nat \ S # {} PROVE FALSE
    OBVIOUS
<1>1. PICK x \in Nat \ S : \A y \in Nat \ S : x <= y
    BY LeastNat
<1>2. x - 1 \in Nat /\ x - 1 \in S
    BY <1>1
<1> QED
    BY <1>1, <1>2

-----------------------------------------------------------------------------
(***************************************************************************)
(* What FlattenSeq flattens, and what Ordered does to a sequence           *)
(***************************************************************************)

\* f is the function FlattenSeq defines on the first m sequences of s.
Flattens(f, s, m) ==
    f = [i \in 1 .. m |-> IF i = 1 THEN s[i] ELSE f[i - 1] \o s[i]]

LEMMA FlattensExtend ==
    ASSUME NEW s, NEW m \in Nat, NEW g, Flattens(g, s, m)
    PROVE  \E f : Flattens(f, s, m + 1)
<1> DEFINE last == IF m + 1 = 1 THEN s[m + 1] ELSE g[m] \o s[m + 1]
           f == [i \in 1 .. m + 1 |-> IF i = m + 1 THEN last ELSE g[i]]
<1>1. \A i \in 1 .. m : f[i] = g[i]
    OBVIOUS
<1>2. \A i \in 1 .. m : g[i] = IF i = 1 THEN s[i] ELSE g[i - 1] \o s[i]
    BY DEF Flattens
<1>3. f[m + 1] = last /\ (m # 0 => m \in 1 .. m) /\ (m + 1) - 1 = m /\ (m + 1 = 1 <=> m = 0)
    OBVIOUS
<1> HIDE DEF f
<1>4. ASSUME NEW i \in 1 .. m + 1
      PROVE  f[i] = IF i = 1 THEN s[i] ELSE f[i - 1] \o s[i]
    <2>1. CASE i = m + 1
        BY <1>1, <1>3, <2>1
    <2>2. CASE i # m + 1
        <3>1. i \in 1 .. m /\ (i # 1 => i - 1 \in 1 .. m)
            BY <2>2
        <3>2. f[i] = g[i] /\ (i # 1 => f[i - 1] = g[i - 1])
            BY <1>1, <3>1
        <3> QED
            BY <1>2, <3>1, <3>2
    <2> QED
        BY <2>1, <2>2
<1>5. Flattens(f, s, m + 1)
    <2>1. f = [i \in 1 .. m + 1 |-> f[i]]
        BY DEF f
    <2>2. [i \in 1 .. m + 1 |-> f[i]]
              = [i \in 1 .. m + 1 |-> IF i = 1 THEN s[i] ELSE f[i - 1] \o s[i]]
        BY <1>4
    <2> QED
        BY <2>1, <2>2, Zenon DEF Flattens
<1> QED
    BY <1>5

\* Sequences of events flatten to a sequence of events.
LEMMA FlattenTyped ==
    ASSUME NEW E, NEW n \in Nat, NEW s \in [1 .. n -> Seq(E)]
    PROVE  FlattenSeq(s) \in Seq(E)
<1>1. s \in Seq(Seq(E)) /\ Len(s) = n
    BY IsASeq, LenProperties
<1>2. CASE n = 0
    <2>1. s = << >>
        BY <1>1, <1>2, EmptySeq
    <2> QED
        BY <1>1, <1>2, <2>1, EmptySeq DEF FlattenSeq
<1>3. CASE n # 0
    <2> DEFINE S == {m \in Nat : \E f : Flattens(f, s, m)}
               G == CHOOSE f : f = [i \in 1 .. Len(s) |-> IF i = 1 THEN s[i] ELSE f[i - 1] \o s[i]]
               T == {i \in Nat : i \in 1 .. n => G[i] \in Seq(E)}
    <2>1. S = Nat
        <3>1. 0 \in S
            <4> DEFINE f == [i \in 1 .. 0 |-> << >>]
            <4>1. Flattens(f, s, 0)
                BY DEF Flattens
            <4> QED
                BY <4>1
        <3>2. \A m \in S : m + 1 \in S
            BY FlattensExtend
        <3>3. S \in SUBSET Nat
            OBVIOUS
        <3> HIDE DEF S
        <3> QED
            BY <3>1, <3>2, <3>3, SetInduction
    <2>2. PICK f : Flattens(f, s, n)
        BY <2>1
    <2>3. f = [i \in 1 .. Len(s) |-> IF i = 1 THEN s[i] ELSE f[i - 1] \o s[i]]
        BY <1>1, <2>2 DEF Flattens
    <2>4. G = [i \in 1 .. Len(s) |-> IF i = 1 THEN s[i] ELSE G[i - 1] \o s[i]]
        BY <2>3
    <2>5. FlattenSeq(s) = G[n]
        BY <1>1, <1>3 DEF FlattenSeq
    <2> HIDE DEF G
    <2>6. \A i \in 1 .. n : G[i] = IF i = 1 THEN s[i] ELSE G[i - 1] \o s[i]
        BY <1>1, <2>4
    <2>7. T = Nat
        <3>1. 0 \in T
            OBVIOUS
        <3>2. ASSUME NEW i \in T PROVE i + 1 \in T
            <4> SUFFICES ASSUME i + 1 \in 1 .. n PROVE G[i + 1] \in Seq(E)
                OBVIOUS
            <4>1. s[i + 1] \in Seq(E) /\ i \in Nat /\ (i + 1) - 1 = i
                OBVIOUS
            <4>2. CASE i = 0
                BY <2>6, <4>1, <4>2
            <4>3. CASE i # 0
                <5>1. i \in 1 .. n /\ i + 1 # 1
                    BY <4>1, <4>3
                <5>2. G[i] \in Seq(E) /\ G[i + 1] = G[i] \o s[i + 1]
                    BY <2>6, <4>1, <5>1
                <5> QED
                    BY <4>1, <5>2, ConcatProperties
            <4> QED
                BY <4>2, <4>3
        <3>3. T \in SUBSET Nat
            OBVIOUS
        <3> HIDE DEF T
        <3> QED
            BY <3>1, <3>2, <3>3, SetInduction
    <2>8. n \in T /\ n \in 1 .. n
        BY <1>3, <2>7
    <2> QED
        BY <2>5, <2>8
<1> QED
    BY <1>2, <1>3

-----------------------------------------------------------------------------

\* The order in which two places of a sequence come to stand.
Before(events, i, j) ==
    \/ KeyBefore(events[i], events[j])
    \/ ~KeyBefore(events[j], events[i]) /\ i < j

Rank(events, i) == Cardinality({j \in DOMAIN events : Before(events, j, i)})

\* The place the k-th event of the ordered sequence comes from.
From(events, k) == CHOOSE i \in DOMAIN events : Rank(events, i) = k - 1

Keyed(E) == \A e \in E : e.ts \in Int /\ e.sequence \in Int /\ e.tie \in Int

KeyLess(a1, a2, a3, b1, b2, b3) ==
    \/ a1 < b1
    \/ a1 = b1 /\ a2 < b2
    \/ a1 = b1 /\ a2 = b2 /\ a3 < b3

LEMMA KeyLessOrders ==
    ASSUME NEW a1 \in Int, NEW a2 \in Int, NEW a3 \in Int,
           NEW b1 \in Int, NEW b2 \in Int, NEW b3 \in Int,
           NEW c1 \in Int, NEW c2 \in Int, NEW c3 \in Int
    PROVE  LET aa == KeyLess(a1, a2, a3, a1, a2, a3)
               ab == KeyLess(a1, a2, a3, b1, b2, b3)
               ba == KeyLess(b1, b2, b3, a1, a2, a3)
               bc == KeyLess(b1, b2, b3, c1, c2, c3)
               cb == KeyLess(c1, c2, c3, b1, b2, b3)
               ac == KeyLess(a1, a2, a3, c1, c2, c3)
               ca == KeyLess(c1, c2, c3, a1, a2, a3)
           IN  /\ ~aa /\ ~(ab /\ ba) /\ (ab /\ bc => ac) /\ (ab /\ ~cb => ac)
               /\ (~ba /\ bc => ac) /\ (~ba /\ ~cb => ~ca)
    BY DEF KeyLess

LEMMA BeforeOrders ==
    ASSUME NEW E, Keyed(E), NEW events \in Seq(E)
    PROVE  \A i, j, k \in DOMAIN events :
              /\ ~Before(events, i, i)
              /\ Before(events, i, j) => ~Before(events, j, i)
              /\ Before(events, i, j) /\ Before(events, j, k) => Before(events, i, k)
              /\ i # j => Before(events, i, j) \/ Before(events, j, i)
<1> SUFFICES ASSUME NEW i \in DOMAIN events, NEW j \in DOMAIN events, NEW k \in DOMAIN events
             PROVE  /\ ~Before(events, i, i)
                    /\ Before(events, i, j) => ~Before(events, j, i)
                    /\ Before(events, i, j) /\ Before(events, j, k) => Before(events, i, k)
                    /\ i # j => Before(events, i, j) \/ Before(events, j, i)
    OBVIOUS
<1>1. i \in Int /\ j \in Int /\ k \in Int /\ events[i] \in E /\ events[j] \in E /\ events[k] \in E
    OBVIOUS
<1>2. \A e \in E : e.ts \in Int /\ SourceSequence(e) \in Int /\ e.tie \in Int
    BY DEF Keyed, SourceSequence
<1>3. PICK a, b, c : a = events[i] /\ b = events[j] /\ c = events[k]
    OBVIOUS
<1>4. PICK a1, a2, a3, b1, b2, b3, c1, c2, c3 :
          /\ a1 = a.ts /\ a2 = SourceSequence(a) /\ a3 = a.tie
          /\ b1 = b.ts /\ b2 = SourceSequence(b) /\ b3 = b.tie
          /\ c1 = c.ts /\ c2 = SourceSequence(c) /\ c3 = c.tie
    OBVIOUS
<1>5. /\ a1 \in Int /\ a2 \in Int /\ a3 \in Int /\ b1 \in Int /\ b2 \in Int /\ b3 \in Int
      /\ c1 \in Int /\ c2 \in Int /\ c3 \in Int
    BY <1>1, <1>2, <1>3, <1>4
<1> DEFINE aa == KeyLess(a1, a2, a3, a1, a2, a3)
           ab == KeyLess(a1, a2, a3, b1, b2, b3)
           ba == KeyLess(b1, b2, b3, a1, a2, a3)
           bc == KeyLess(b1, b2, b3, c1, c2, c3)
           cb == KeyLess(c1, c2, c3, b1, b2, b3)
           ac == KeyLess(a1, a2, a3, c1, c2, c3)
           ca == KeyLess(c1, c2, c3, a1, a2, a3)
<1>7. /\ Before(events, i, i) <=> aa \/ (~aa /\ i < i)
      /\ Before(events, i, j) <=> ab \/ (~ba /\ i < j)
      /\ Before(events, j, i) <=> ba \/ (~ab /\ j < i)
      /\ Before(events, j, k) <=> bc \/ (~cb /\ j < k)
      /\ Before(events, i, k) <=> ac \/ (~ca /\ i < k)
    BY <1>3, <1>4 DEF Before, KeyBefore, KeyLess
<1>8. /\ ~aa /\ ~(ab /\ ba) /\ (ab /\ bc => ac) /\ (ab /\ ~cb => ac) /\ (~ba /\ bc => ac)
      /\ (~ba /\ ~cb => ~ca)
    BY <1>5, KeyLessOrders
<1> HIDE DEF aa, ab, ba, bc, cb, ac, ca
<1>9. ~Before(events, i, i)
    BY <1>1, <1>7, <1>8
<1>10. Before(events, i, j) => ~Before(events, j, i)
    BY <1>1, <1>7, <1>8
<1>11. Before(events, i, j) /\ Before(events, j, k) => Before(events, i, k)
    BY <1>1, <1>7, <1>8
<1>12. i # j => Before(events, i, j) \/ Before(events, j, i)
    BY <1>1, <1>7, <1>8
<1> QED
    BY <1>9, <1>10, <1>11, <1>12

LEMMA IntervalSize ==
    ASSUME NEW n \in Nat
    PROVE  /\ IsFiniteSet(1 .. n) /\ Cardinality(1 .. n) = n
           /\ IsFiniteSet(0 .. n - 1) /\ Cardinality(0 .. n - 1) = n
<1>1. 1 \in Int /\ 0 \in Int /\ n \in Int /\ n - 1 \in Int
    OBVIOUS
<1>2. IsFiniteSet(1 .. n) /\ Cardinality(1 .. n) = IF 1 > n THEN 0 ELSE n - 1 + 1
    BY <1>1, FS_Interval
<1>3. IsFiniteSet(0 .. n - 1) /\ Cardinality(0 .. n - 1) = IF 0 > n - 1 THEN 0 ELSE n - 1 - 0 + 1
    BY <1>1, FS_Interval
<1> QED
    BY <1>2, <1>3

\* What comes before a place, before another place, is ranked lower; so the
\* ranks are 0 to Len(events) - 1, each once.
LEMMA RankOrders ==
    ASSUME NEW E, Keyed(E), NEW events \in Seq(E),
           NEW i \in DOMAIN events, NEW j \in DOMAIN events, Before(events, i, j)
    PROVE  Rank(events, i) < Rank(events, j)
<1> DEFINE low == {k \in DOMAIN events : Before(events, k, i)}
           high == {k \in DOMAIN events : Before(events, k, j)}
<1>1. low \subseteq high /\ i \in high /\ i \notin low
    BY BeforeOrders
<1>2. IsFiniteSet(high)
    <2>1. IsFiniteSet(DOMAIN events) /\ high \in SUBSET DOMAIN events
        BY LenProperties, FS_Interval
    <2> HIDE DEF high
    <2> QED
        BY <2>1, FS_Subset
<1>3. Rank(events, i) = Cardinality(low) /\ Rank(events, j) = Cardinality(high)
    BY DEF Rank
<1> HIDE DEF low, high
<1>4. /\ Cardinality(low) <= Cardinality(high) /\ Cardinality(low) # Cardinality(high)
      /\ IsFiniteSet(low)
    BY <1>1, <1>2, FS_Subset
<1>5. Cardinality(low) \in Nat /\ Cardinality(high) \in Nat
    BY <1>2, <1>4, FS_CardinalityType
<1> QED
    BY <1>3, <1>4, <1>5

LEMMA RankRange ==
    ASSUME NEW E, Keyed(E), NEW events \in Seq(E), NEW i \in DOMAIN events
    PROVE  Rank(events, i) \in 0 .. Len(events) - 1
<1> DEFINE low == {k \in DOMAIN events : Before(events, k, i)}
<1>1. low \subseteq DOMAIN events /\ i \notin low
    BY BeforeOrders
<1>2. /\ DOMAIN events = 1 .. Len(events) /\ Len(events) \in Nat
      /\ IsFiniteSet(DOMAIN events) /\ Cardinality(DOMAIN events) = Len(events)
    BY LenProperties, IntervalSize
<1>3. Rank(events, i) = Cardinality(low)
    BY DEF Rank
<1> HIDE DEF low
<1>4. /\ IsFiniteSet(low) /\ Cardinality(low) <= Cardinality(DOMAIN events)
      /\ Cardinality(low) # Cardinality(DOMAIN events)
    BY <1>1, <1>2, FS_Subset
<1>5. Cardinality(low) \in Nat
    BY <1>4, FS_CardinalityType
<1> QED
    BY <1>2, <1>3, <1>4, <1>5

\* Every place of the ordered sequence is filled from one place of the other.
LEMMA FromRanked ==
    ASSUME NEW E, Keyed(E), NEW events \in Seq(E), NEW k \in DOMAIN events
    PROVE  From(events, k) \in DOMAIN events /\ Rank(events, From(events, k)) = k - 1
<1> DEFINE N == Len(events)
           f == [i \in 1 .. N |-> Rank(events, i)]
<1>1. DOMAIN events = 1 .. N /\ N \in Nat
    BY LenProperties
<1>2. f \in [1 .. N -> 0 .. N - 1]
    BY <1>1, RankRange
<1>3. \A i, j \in 1 .. N : i # j => Rank(events, i) # Rank(events, j)
    <2> SUFFICES ASSUME NEW i \in DOMAIN events, NEW j \in DOMAIN events, i # j
                 PROVE  Rank(events, i) # Rank(events, j)
        BY <1>1
    <2>1. Rank(events, i) \in Int /\ Rank(events, j) \in Int
        BY <1>1, RankRange
    <2>2. Before(events, i, j) \/ Before(events, j, i)
        BY BeforeOrders
    <2> QED
        BY <2>1, <2>2, RankOrders
<1>4. f \in Injection(1 .. N, 0 .. N - 1)
    BY <1>2, <1>3 DEF Injection, IsInjective
<1>5. /\ IsFiniteSet(0 .. N - 1) /\ Cardinality(0 .. N - 1) = N
      /\ Cardinality(1 .. N) = N
    BY <1>1, IntervalSize
<1>6. f \in Surjection(1 .. N, 0 .. N - 1)
    <2> HIDE DEF f, N
    <2> QED
        BY <1>4, <1>5, FS_Injection
<1>7. k - 1 \in 0 .. N - 1
    BY <1>1
<1>8. \E i \in 1 .. N : f[i] = k - 1
    <2> HIDE DEF f
    <2> QED
        BY <1>6, <1>7 DEF Surjection
<1>9. \E i \in DOMAIN events : Rank(events, i) = k - 1
    BY <1>1, <1>8
<1> QED
    BY <1>9 DEF From

OrderedIs(events) == [k \in DOMAIN events |-> events[From(events, k)]]

LEMMA OrderedEq == ASSUME NEW events PROVE Ordered(events) = OrderedIs(events)
    BY DEF Ordered, OrderedIs, From, Rank, Before

\* How often e stands in s.
Places(s, e) == {i \in DOMAIN s : s[i] = e}

\* list.sort: a permutation of the events in which no event stands behind one
\* that its key precedes.
LEMMA OrderedSorts ==
    ASSUME NEW E, Keyed(E), NEW events \in Seq(E), NEW d, d = Ordered(events)
    PROVE  /\ DOMAIN d = DOMAIN events /\ Len(d) = Len(events)
           /\ \A i, j \in DOMAIN d : i < j => ~KeyBefore(d[j], d[i])
           /\ \A e : Cardinality(Places(d, e)) = Cardinality(Places(events, e))
<1> DEFINE N == Len(events)
           c == [k \in 1 .. N |-> From(events, k)]
<1>1. DOMAIN events = 1 .. N /\ N \in Nat
    BY LenProperties
<1>2. d = [k \in 1 .. N |-> events[c[k]]]
    BY <1>1, OrderedEq DEF OrderedIs
<1>3. c \in [1 .. N -> 1 .. N] /\ \A k \in 1 .. N : Rank(events, c[k]) = k - 1
    BY <1>1, FromRanked
<1> HIDE DEF c
<1>4. DOMAIN d = DOMAIN events /\ Len(d) = Len(events)
    <2>1. \A k \in 1 .. N : events[c[k]] \in E
        BY <1>1, <1>3
    <2>2. d \in Seq(E)
        BY <1>1, <1>2, <2>1, IsASeq
    <2>3. DOMAIN d = 1 .. N
        BY <1>2
    <2> QED
        BY <1>1, <2>2, <2>3, LenProperties
<1>5. ASSUME NEW i \in DOMAIN d, NEW j \in DOMAIN d, i < j PROVE ~KeyBefore(d[j], d[i])
    <2>1. /\ i \in 1 .. N /\ j \in 1 .. N /\ c[i] \in DOMAIN events /\ c[j] \in DOMAIN events
          /\ d[i] = events[c[i]] /\ d[j] = events[c[j]]
        BY <1>1, <1>2, <1>3, <1>4
    <2>2. Rank(events, c[i]) < Rank(events, c[j]) /\ Rank(events, c[i]) \in Int
        BY <1>3, <1>5, <2>1, SMTT(30)
    <2>3. ~Before(events, c[j], c[i])
        <3> SUFFICES ASSUME Before(events, c[j], c[i]) PROVE FALSE
            OBVIOUS
        <3>1. Rank(events, c[j]) < Rank(events, c[i])
            BY <2>1, RankOrders
        <3> QED
            BY <1>3, <2>1, <2>2, <3>1
    <2> QED
        BY <2>1, <2>3 DEF Before
<1>6. ASSUME NEW e PROVE Cardinality(Places(d, e)) = Cardinality(Places(events, e))
    <2>1. c \in Injection(1 .. N, 1 .. N)
        <3>1. \A i, j \in 1 .. N : c[i] = c[j] => i = j
            <4> SUFFICES ASSUME NEW i \in 1 .. N, NEW j \in 1 .. N, c[i] = c[j] PROVE i = j
                OBVIOUS
            <4>1. i - 1 = j - 1 /\ i \in Int /\ j \in Int
                BY <1>3
            <4> QED
                BY <4>1
        <3> QED
            BY <1>3, <3>1 DEF Injection, IsInjective
    <2>2. c \in Surjection(1 .. N, 1 .. N)
        <3>1. IsFiniteSet(1 .. N)
            BY <1>1, IntervalSize
        <3> HIDE DEF N
        <3> QED
            BY <2>1, <3>1, FS_Injection
    <2> DEFINE P == Places(d, e)
               Q == Places(events, e)
               h == [k \in P |-> c[k]]
    <2>3. P \subseteq 1 .. N /\ Q \subseteq 1 .. N
        BY <1>1, <1>4 DEF Places
    <2>4. \A k \in 1 .. N : k \in P <=> c[k] \in Q
        BY <1>1, <1>2, <1>3, <1>4 DEF Places
    <2>5. h \in [P -> Q]
        BY <2>3, <2>4
    <2>6. h \in Bijection(P, Q)
        <3>1. \A a, b \in P : h[a] = h[b] => a = b
            BY <2>1, <2>3 DEF Injection, IsInjective
        <3>2. \A t \in Q : \E k \in P : h[k] = t
            BY <2>2, <2>3, <2>4 DEF Surjection
        <3> HIDE DEF P, Q
        <3> QED
            BY <2>5, <3>1, <3>2 DEF Bijection, Injection, Surjection, IsInjective
    <2>7. IsFiniteSet(P)
        <3>1. IsFiniteSet(1 .. N)
            BY <1>1, IntervalSize
        <3> QED
            BY <2>3, <3>1, FS_Subset
    <2> HIDE DEF P, Q, h
    <2>8. ExistsBijection(P, Q)
        BY <2>6 DEF ExistsBijection
    <2>9. Cardinality(P) = Cardinality(Q)
        BY <2>7, <2>8, FS_Bijection
    <2> QED
        BY <2>9 DEF P, Q
<1> QED
    BY <1>4, <1>5, <1>6

-----------------------------------------------------------------------------
(***************************************************************************)
(* What a run has normalized                                               *)
(***************************************************************************)

\* The chunks behind a run, and all chunks of a data file, could be normalized.
ReadableOK ==
    /\ run.stage # "idle" => \A i \in 1 .. run.next - 1 : checkpoint[Plan[i]] \notin Malformed
    /\ data # NoOutput => \A c \in Chunk : checkpoint[c] \notin Malformed

LEMMA ReadableKept ==
    ASSUME Inv, ReadableOK, [Next]_vars
    PROVE  ReadableOK'
<1>1. run \in Run /\ run.next \in 1 .. Len(Plan) + 1 /\ Len(Plan) \in Nat
    BY RunFields, PlanFacts DEF Inv
<1>2. ASSUME run' = Idle, checkpoint' = checkpoint, data' = data PROVE ReadableOK'
    BY <1>2, IdleIsRun DEF ReadableOK
<1>3. ASSUME run.stage # "idle", run'.next = run.next, checkpoint' = checkpoint, data' = data
      PROVE  ReadableOK'
    BY <1>3 DEF ReadableOK
<1>4. CASE Begin
    <2>1. run'.next = 1 /\ checkpoint' = checkpoint /\ data' = data
        BY <1>4 DEF Begin, Idle, disk
    <2>2. 1 .. run'.next - 1 = {}
        BY <2>1
    <2> QED
        BY <2>1, <2>2 DEF ReadableOK
<1>5. CASE Save
    <2>1. /\ run'.next = run.next /\ data' = data /\ run.stage = "save"
        BY <1>1, <1>5 DEF Save, Run
    <2>2. data = NoOutput
        BY <1>5, SavedCheckpoint DEF Inv, OutputOK, DataOK, Done
    <2>3. ASSUME NEW i \in 1 .. run.next - 1 PROVE checkpoint'[Plan[i]] \notin Malformed
        <3>1. i \in 1 .. Len(Plan) /\ i # run.next /\ run.next \in 1 .. Len(Plan)
            BY <1>1, <1>5, SavedCheckpoint
        <3>2. Plan[i] \in Chunk /\ Plan[i] # Current
            BY <3>1, PlanFacts DEF Current
        <3>3. checkpoint'[Plan[i]] = checkpoint[Plan[i]]
            BY <1>5, <3>2, SavedCheckpoint
        <3> QED
            BY <2>1, <3>3 DEF ReadableOK
    <2> QED
        BY <2>1, <2>2, <2>3 DEF ReadableOK
<1>6. CASE NormalizeChunk /\ run' # Idle
    <2>1. /\ run.stage = "normalize" /\ run.raw \notin Malformed /\ run'.next = run.next + 1
          /\ checkpoint' = checkpoint /\ data' = data
        BY <1>1, <1>6 DEF NormalizeChunk, Raise, Run, disk
    <2>2. checkpoint[Plan[run.next]] \notin Malformed
        BY <2>1 DEF Inv, TurnOK, Current
    <2>3. \A i \in 1 .. run'.next - 1 : i = run.next \/ i \in 1 .. run.next - 1
        BY <1>1, <2>1
    <2> QED
        BY <2>1, <2>2, <2>3 DEF ReadableOK
<1>7. CASE WriteData
    <2>1. /\ run.stage = "chunk" /\ run.next > Len(Plan) /\ run'.next = run.next
          /\ checkpoint' = checkpoint
        BY <1>1, <1>7 DEF WriteData, Run
    <2>2. \A i \in 1 .. Len(Plan) : checkpoint[Plan[i]] \notin Malformed
        BY <1>1, <2>1 DEF ReadableOK
    <2>3. \A c \in Chunk : checkpoint[c] \notin Malformed
        BY <2>2, PlanFacts
    <2> QED
        BY <2>1, <2>3 DEF ReadableOK
<1>8. CASE UNCHANGED <<run, checkpoint, data>>
    BY <1>8 DEF ReadableOK
<1>9. ASSUME NEW r \in Raw, Fetch(r) \/ Get(r) PROVE ReadableOK'
    <2>1. run.stage # "idle" /\ checkpoint' = checkpoint /\ data' = data
        BY <1>9 DEF Fetch, Get, AtChunk, Raise, disk
    <2>2. run' = Idle \/ run'.next = run.next
        BY <1>1, <1>9 DEF Fetch, Get, Raise, Run
    <2> QED
        BY <1>2, <1>3, <2>1, <2>2
<1>10. CASE Consume \/ Put
    <2>1. run.stage # "idle" /\ checkpoint' = checkpoint /\ data' = data
        BY <1>10 DEF Consume, Put, Raise, disk
    <2>2. run' = Idle \/ run'.next = run.next
        BY <1>1, <1>10 DEF Consume, Put, Raise, Run
    <2> QED
        BY <1>2, <1>3, <2>1, <2>2
<1>11. CASE FetchFails \/ WriteManifest \/ Crash
    BY <1>2, <1>11 DEF FetchFails, WriteManifest, Crash, Raise, disk
<1>12. CASE NormalizeChunk /\ run' = Idle
    BY <1>1, <1>2, <1>12, IdleIsRun DEF NormalizeChunk, Raise, Run, disk
<1>13. CASE NewProcess \/ (\E r \in Raw : Rot(r)) \/ UNCHANGED vars
    BY <1>8, <1>13 DEF NewProcess, Rot, vars, disk
<1> QED
    BY <1>4, <1>5, <1>6, <1>7, <1>9, <1>10, <1>11, <1>12, <1>13 DEF Next, RunStep

\* What a complete and readable checkpoint collects are events.
LEMMA CollectedTyped ==
    ASSUME Inv, Done, \A c \in Chunk : checkpoint[c] \notin Malformed
    PROVE  Collected(checkpoint) \in Seq(Event)
<1> DEFINE b == [i \in DOMAIN Plan |-> Normalize(Plan[i], checkpoint[Plan[i]])]
<1>1. \A i \in 1 .. Len(Plan) : Normalize(Plan[i], checkpoint[Plan[i]]) \in Seq(Event)
    <2> SUFFICES ASSUME NEW i \in 1 .. Len(Plan)
                 PROVE  Normalize(Plan[i], checkpoint[Plan[i]]) \in Seq(Event)
        OBVIOUS
    <2>1. Plan[i] \in Chunk
        BY PlanFacts
    <2>2. checkpoint[Plan[i]] \in Raw \ Malformed
        BY <2>1 DEF Inv, TypeOK, Done
    <2> QED
        BY <2>1, <2>2, EventAssumption
<1>2. b \in [1 .. Len(Plan) -> Seq(Event)] /\ Len(Plan) \in Nat
    BY <1>1, PlanFacts
<1> HIDE DEF b
<1>3. FlattenSeq(b) \in Seq(Event)
    BY <1>2, FlattenTyped
<1> QED
    BY <1>3 DEF Collected, b

-----------------------------------------------------------------------------
(***************************************************************************)
(* Theorems                                                                *)
(***************************************************************************)

\* The inductive invariant: wherever run() stops, memory, checkpoint and outputs
\* fit each other.
THEOREM IngestInvariant == Spec => []Inv
    BY InitHolds, NextKeeps, PTL DEF Spec

\* IngestionRunner leaves sound files whatever stops it and whatever a provider
\* answers: every checkpointed digest has its object, every manifest describes
\* the data file and the responses beside it.
THEOREM DiskAlwaysSound == Spec => []DiskSound
<1>1. Inv => DiskSound
    <2> SUFFICES ASSUME Inv, manifest # NoOutput
                 PROVE  manifest = [content |-> data, chunks |-> checkpoint]
        BY DEF Inv, DiskSound, OutputsAgree
    <2> QED
        BY DEF Inv, OutputOK, DataOK, ResultOf, Manifest
<1> QED
    BY <1>1, IngestInvariant, PTL

\* A resumed job produces what an uninterrupted one would have produced from the
\* checkpointed responses, for every plan and whatever normalize() makes of a
\* response: all chunks are there, and the data file is a permutation of their
\* events in the order of the keys.
THEOREM OutputDetermined == Spec => []OutputFromCheckpoint
<1>1. Init => ReadableOK
    BY IdleIsRun DEF Init, ReadableOK
<1>2. Inv /\ ReadableOK /\ [Next]_vars => ReadableOK'
    BY ReadableKept
<1>3. Inv /\ ReadableOK => OutputFromCheckpoint
    <2> SUFFICES ASSUME Inv, ReadableOK, data # NoOutput PROVE OutputFromCheckpoint
        BY DEF OutputFromCheckpoint
    <2>1. PICK expected : expected = Collected(checkpoint)
        OBVIOUS
    <2>2. Done /\ data = Ordered(expected)
        BY <2>1 DEF Inv, OutputOK, DataOK
    <2>3. expected \in Seq(Event) /\ Keyed(Event)
        BY <2>1, <2>2, CollectedTyped, EventAssumption DEF ReadableOK, Keyed
    <2>4. /\ Len(data) = Len(expected)
          /\ \A i, j \in DOMAIN data : i < j => ~KeyBefore(data[j], data[i])
          /\ \A e : Cardinality(Places(data, e)) = Cardinality(Places(expected, e))
        BY <2>2, <2>3, OrderedSorts
    <2>5. \A e : Cardinality({i \in DOMAIN data : data[i] = e})
                    = Cardinality({i \in DOMAIN expected : expected[i] = e})
        BY <2>4 DEF Places
    <2>6. /\ Len(data) = Len(Collected(checkpoint))
          /\ \A e \in ToSet(Collected(checkpoint)) :
                Cardinality({i \in DOMAIN data : data[i] = e})
                    = Cardinality({i \in DOMAIN Collected(checkpoint) :
                                       Collected(checkpoint)[i] = e})
        BY <2>1, <2>4, <2>5
    <2>7. \A c \in Chunk : checkpoint[c] # NoRaw
        BY <2>2 DEF Done
    <2> QED
        BY <2>4, <2>6, <2>7, Zenon DEF OutputFromCheckpoint
<1> QED
    BY <1>1, <1>2, <1>3, IngestInvariant, PTL DEF Spec

\* BudgetGuard.preflight is enough: past it no fetch of the run finds its
\* request or cost budget spent, for every plan, every budget and whatever the
\* process has spent before.
THEOREM EnvelopeHolds == Spec => []EnvelopeBeforeNetwork
<1>1. Init => EnvelopeOK
    BY IdleIsRun DEF Init, EnvelopeOK
<1>2. Inv /\ EnvelopeOK => EnvelopeBeforeNetwork
    <2> SUFFICES ASSUME Inv, EnvelopeOK, run.stage = "consume"
                 PROVE  guard.requests < MaxRequests /\ guard.cost + Cost[Current] <= MaxCost
        BY DEF EnvelopeBeforeNetwork
    <2>1. /\ run.next \in 1 .. Len(Plan) + 1 /\ run.next <= Len(Plan) /\ Len(Plan) \in Nat
          /\ guard.requests \in Nat /\ guard.cost \in Nat
          /\ MaxRequests \in Nat /\ MaxCost \in Nat
        BY RunFields, PlanFacts, CostAssumption, SMTT(30) DEF Inv, TypeOK, TurnOK
    <2>2. run.next \in 1 .. Len(Plan) /\ Covers(guard.requests, guard.cost, run.next)
        BY <2>1 DEF EnvelopeOK, Unpaid
    <2> QED
        BY <2>1, <2>2, CoversNext DEF Current
<1>3. Inv /\ EnvelopeOK /\ [Next]_vars => EnvelopeOK'
    BY EnvelopeKept
<1> QED
    BY <1>1, <1>2, <1>3, IngestInvariant, PTL DEF Spec

\* Every step of the runner is a step of the uninterrupted job or invisible to
\* it: only Save pins, only WriteManifest publishes.
LEMMA StepImplements ==
    ASSUME Inv, [Next]_vars
    PROVE  [Job!JobNext]_(Job!jobVars)
<1>1. CASE Save
    <2>1. Job!Pin(Current, run.raw)
        BY <1>1, SavedCheckpoint DEF Job!Pin, Save
    <2> QED
        BY <1>1, <2>1, SavedCheckpoint DEF Job!JobNext
<1>2. CASE WriteManifest
    <2>1. Job!Publish
        BY <1>2, PublishedResult DEF Job!Publish, WriteManifest, DataOK, Done
    <2> QED
        BY <2>1 DEF Job!JobNext
<1>3. CASE UNCHANGED vars
    BY <1>3 DEF vars, Job!jobVars
<1>4. ASSUME [Next]_vars, ~Save, ~WriteManifest, ~UNCHANGED vars
      PROVE  UNCHANGED Job!jobVars
    BY <1>4 DEF Next, RunStep, Begin, Fetch, FetchFails, Consume, Put, Get, NormalizeChunk,
                WriteData, Crash, NewProcess, Rot, Raise, disk, Job!jobVars
<1> QED
    BY <1>1, <1>2, <1>3, <1>4

\* The runner implements IngestJob: with every crash, retry, refused budget,
\* rotten object and changing answer, the checkpoint pins each chunk once and
\* what is published is what the pinned responses determine.
THEOREM RunnerImplementsJob == Spec => ImplementsJob
<1>1. Init => Job!JobInit
    BY DEF Init, NoCompleted, Job!JobInit
<1>2. Inv /\ [Next]_vars => [Job!JobNext]_(Job!jobVars)
    BY StepImplements
<1> QED
    BY <1>1, <1>2, IngestInvariant, PTL DEF Spec, ImplementsJob, Job!JobSpec

-----------------------------------------------------------------------------
(***************************************************************************)
(* What the catalogue offers. A chain of intervals: proper ones inside the *)
(* span, ascending, that do not touch. The merged gaps are a chain, and    *)
(* so are the pieces that are left when they are cut out.                  *)
(***************************************************************************)

Piece(span) == {w \in [start: Int, end: Int] :
                   span.start <= w.start /\ w.start < w.end /\ w.end <= span.end}
Chain(span, s) ==
    /\ s \in Seq(Piece(span))
    /\ \A i, j \in 1 .. Len(s) : i < j => s[i].end < s[j].start
HoldsMoment(s, t) == \E i \in 1 .. Len(s) : Within(s[i], t)

LEMMA ChainFacts ==
    ASSUME NEW span, NEW s, Chain(span, s)
    PROVE  /\ Len(s) \in Nat /\ DOMAIN s = 1 .. Len(s)
           /\ \A i \in 1 .. Len(s) :
                 /\ s[i] \in Piece(span)
                 /\ s[i].start \in Int /\ s[i].end \in Int
                 /\ span.start <= s[i].start /\ s[i].start < s[i].end /\ s[i].end <= span.end
           /\ \A i, j \in 1 .. Len(s) : i < j => s[i].end < s[j].start
<1>1. s \in Seq(Piece(span))
    BY DEF Chain
<1>2. Len(s) \in Nat /\ DOMAIN s = 1 .. Len(s) /\ \A i \in 1 .. Len(s) : s[i] \in Piece(span)
    BY <1>1, LenProperties, ElementOfSeq
<1> QED
    BY <1>2 DEF Piece, Chain

\* A chain grows at its end.
LEMMA ChainAppend ==
    ASSUME NEW span, NEW s, Chain(span, s), NEW p \in Piece(span),
           \A i \in 1 .. Len(s) : s[i].end < p.start
    PROVE  /\ Chain(span, Append(s, p))
           /\ \A t : HoldsMoment(Append(s, p), t) <=> HoldsMoment(s, t) \/ Within(p, t)
           /\ Len(Append(s, p)) = Len(s) + 1 /\ Append(s, p)[Len(s) + 1] = p
<1> DEFINE n == Len(s)
           u == Append(s, p)
<1>1. n \in Nat /\ s \in Seq(Piece(span))
    BY ChainFacts DEF Chain
<1>2. /\ u \in Seq(Piece(span)) /\ Len(u) = n + 1
      /\ \A i \in 1 .. n + 1 : u[i] = IF i <= n THEN s[i] ELSE p
    BY <1>1, AppendProperties
<1> HIDE DEF u, n
<1>3. \A i \in 1 .. n + 1 : (i \in 1 .. n /\ u[i] = s[i]) \/ (i = n + 1 /\ u[i] = p)
    BY <1>1, <1>2
<1>4. ASSUME NEW i \in 1 .. n + 1, NEW j \in 1 .. n + 1, i < j PROVE u[i].end < u[j].start
    <2>1. i \in 1 .. n /\ u[i] = s[i]
        BY <1>1, <1>3, <1>4
    <2>2. CASE j \in 1 .. n /\ u[j] = s[j]
        BY <1>4, <2>1, <2>2, ChainFacts DEF n
    <2>3. CASE j = n + 1 /\ u[j] = p
        BY <2>1, <2>3 DEF n
    <2> QED
        BY <1>3, <2>2, <2>3
<1>5. Chain(span, u)
    BY <1>2, <1>4 DEF Chain
<1>6. ASSUME NEW t PROVE HoldsMoment(u, t) <=> HoldsMoment(s, t) \/ Within(p, t)
    <2>1. ASSUME HoldsMoment(u, t) PROVE HoldsMoment(s, t) \/ Within(p, t)
        <3>1. PICK i \in 1 .. n + 1 : Within(u[i], t)
            BY <1>2, <2>1 DEF HoldsMoment
        <3> QED
            BY <1>3, <3>1 DEF HoldsMoment, n
    <2>2. ASSUME HoldsMoment(s, t) PROVE HoldsMoment(u, t)
        <3>1. PICK i \in 1 .. n : Within(s[i], t)
            BY <2>2 DEF HoldsMoment, n
        <3>2. i \in 1 .. n + 1 /\ u[i] = s[i]
            BY <1>1, <1>2
        <3> QED
            BY <1>2, <3>1, <3>2 DEF HoldsMoment
    <2>3. ASSUME Within(p, t) PROVE HoldsMoment(u, t)
        <3>1. n + 1 \in 1 .. n + 1 /\ u[n + 1] = p
            BY <1>1, <1>2
        <3> QED
            BY <1>2, <2>3, <3>1 DEF HoldsMoment
    <2> QED
        BY <2>1, <2>2, <2>3
<1>7. u[n + 1] = p
    BY <1>1, <1>2
<1> QED
    BY <1>2, <1>5, <1>6, <1>7 DEF u, n

LEMMA MaxOfTwo ==
    ASSUME NEW a \in Int, NEW b \in Int
    PROVE  /\ Max({a, b}) \in Int /\ a <= Max({a, b}) /\ b <= Max({a, b})
           /\ Max({a, b}) = a \/ Max({a, b}) = b
           /\ a <= b => Max({a, b}) = b
<1>1. \E x \in {a, b} : \A y \in {a, b} : x >= y
    OBVIOUS
<1>2. Max({a, b}) \in {a, b} /\ \A y \in {a, b} : Max({a, b}) >= y
    BY <1>1 DEF Max
<1> QED
    BY <1>2

LEMMA MinOfTwo ==
    ASSUME NEW a \in Int, NEW b \in Int
    PROVE  /\ Min({a, b}) \in Int /\ Min({a, b}) <= a /\ Min({a, b}) <= b
           /\ Min({a, b}) = a \/ Min({a, b}) = b
<1>1. \E x \in {a, b} : \A y \in {a, b} : x <= y
    OBVIOUS
<1>2. Min({a, b}) \in {a, b} /\ \A y \in {a, b} : Min({a, b}) <= y
    BY <1>1 DEF Min
<1> QED
    BY <1>2

-----------------------------------------------------------------------------
(***************************************************************************)
(* The order of a finite set                                               *)
(***************************************************************************)

\* What is ahead of an element: part of the set, and a linear order.
Lines(S, ahead) ==
    /\ \A x \in S : ahead[x] \in SUBSET S /\ x \notin ahead[x]
    /\ \A x, y \in S : x = y \/ x \in ahead[y] \/ y \in ahead[x]
    /\ \A x, y \in S : x \in ahead[y] => ahead[x] \subseteq ahead[y]

LEMMA AheadCounts ==
    ASSUME NEW S, IsFiniteSet(S), NEW ahead, Lines(S, ahead), NEW x \in S
    PROVE  /\ Cardinality(ahead[x]) \in 0 .. Cardinality(S) - 1
           /\ \A y \in S : x \in ahead[y] => Cardinality(ahead[x]) < Cardinality(ahead[y])
<1>1. ASSUME NEW A, NEW B, IsFiniteSet(B), A \subseteq B, A # B
      PROVE  /\ Cardinality(A) \in Nat /\ Cardinality(B) \in Nat
             /\ Cardinality(A) < Cardinality(B)
    <2>1. /\ IsFiniteSet(A) /\ Cardinality(A) <= Cardinality(B)
          /\ Cardinality(A) = Cardinality(B) => A = B
        BY <1>1, FS_Subset
    <2>2. Cardinality(A) \in Nat /\ Cardinality(B) \in Nat
        BY <1>1, <2>1, FS_CardinalityType
    <2> QED
        BY <1>1, <2>1, <2>2
<1>2. ahead[x] \subseteq S /\ ahead[x] # S
    BY DEF Lines
<1>3. Cardinality(ahead[x]) \in 0 .. Cardinality(S) - 1
    BY <1>1, <1>2
<1>4. ASSUME NEW y \in S, x \in ahead[y]
      PROVE  Cardinality(ahead[x]) < Cardinality(ahead[y])
    <2>1. ahead[x] \subseteq ahead[y] /\ ahead[x] # ahead[y] /\ ahead[y] \subseteq S
        BY <1>4 DEF Lines
    <2>2. IsFiniteSet(ahead[y])
        BY <2>1, FS_Subset
    <2> QED
        BY <1>1, <2>1, <2>2
<1> QED
    BY <1>3, <1>4

\* Every element has its place, and what stands earlier is ahead.
LEMMA InOrderIs ==
    ASSUME NEW S, IsFiniteSet(S), NEW ahead, Lines(S, ahead),
           NEW order, order = InOrder(S, ahead)
    PROVE  /\ order \in Seq(S) /\ Len(order) = Cardinality(S)
           /\ \A x \in S : \E n \in 1 .. Len(order) : order[n] = x
           /\ \A m, n \in 1 .. Len(order) : m < n => order[m] \in ahead[order[n]]
<1> DEFINE size == Cardinality(S)
           count(x) == Cardinality(ahead[x])
           f == [x \in S |-> count(x)]
<1>1. size \in Nat
    BY FS_CardinalityType
<1>2. /\ \A x \in S : count(x) \in 0 .. size - 1
      /\ \A x, y \in S : x \in ahead[y] => count(x) < count(y)
    BY AheadCounts
<1>3. order = [n \in 1 .. size |-> CHOOSE x \in S : count(x) = n - 1]
    BY DEF InOrder
<1>4. \A x, y \in S : x = y \/ x \in ahead[y] \/ y \in ahead[x]
    BY DEF Lines
<1> HIDE DEF count, size
<1>5. ASSUME NEW x \in S, NEW y \in S, count(x) = count(y) PROVE x = y
    <2>1. ~(count(x) < count(y)) /\ ~(count(y) < count(x))
        BY <1>2, <1>5
    <2> QED
        BY <1>2, <1>4, <2>1
<1>6. f \in Injection(S, 0 .. size - 1)
    <2>1. f \in [S -> 0 .. size - 1]
        BY <1>2
    <2>2. ASSUME NEW x \in S, NEW y \in S, f[x] = f[y] PROVE x = y
        BY <1>5, <2>2
    <2> QED
        BY <2>1, <2>2 DEF Injection, IsInjective
<1>7. \A k \in 0 .. size - 1 : \E x \in S : f[x] = k
    <2>1. IsFiniteSet(0 .. size - 1) /\ Cardinality(0 .. size - 1) = size
        BY <1>1, IntervalSize
    <2>2. f \in Surjection(S, 0 .. size - 1)
        <3> HIDE DEF f
        <3> QED
            BY <1>6, <2>1, FS_Injection DEF size
    <2> QED
        BY <2>2 DEF Surjection
<1>8. ASSUME NEW n \in 1 .. size PROVE order[n] \in S /\ count(order[n]) = n - 1
    <2>1. n - 1 \in 0 .. size - 1
        BY <1>1
    <2>2. \E x \in S : count(x) = n - 1
        BY <1>7, <2>1
    <2>3. order[n] = CHOOSE x \in S : count(x) = n - 1
        BY <1>3
    <2> QED
        BY <2>2, <2>3
<1>9. order \in Seq(S) /\ Len(order) = size
    <2>1. order \in [1 .. size -> S]
        <3>1. order = [n \in 1 .. size |-> order[n]]
            BY <1>3
        <3> QED
            BY <1>8, <3>1
    <2> QED
        BY <1>1, <2>1, SeqDef, LenProperties
<1>10. ASSUME NEW x \in S PROVE \E n \in 1 .. size : order[n] = x
    <2>1. count(x) + 1 \in 1 .. size /\ (count(x) + 1) - 1 = count(x)
        BY <1>1, <1>2
    <2>2. order[count(x) + 1] \in S /\ count(order[count(x) + 1]) = count(x)
        BY <1>8, <2>1
    <2>3. order[count(x) + 1] = x
        BY <1>5, <2>2
    <2> QED
        BY <2>1, <2>3
<1>11. ASSUME NEW m \in 1 .. size, NEW n \in 1 .. size, m < n
       PROVE  order[m] \in ahead[order[n]]
    <2>1. /\ order[m] \in S /\ order[n] \in S
          /\ count(order[m]) = m - 1 /\ count(order[n]) = n - 1
        BY <1>8
    <2>2. order[m] # order[n] /\ ~(count(order[n]) < count(order[m]))
        BY <1>11, <2>1
    <2> QED
        BY <1>2, <1>4, <2>1, <2>2
<1> QED
    BY <1>9, <1>10, <1>11 DEF size

-----------------------------------------------------------------------------
(***************************************************************************)
(* The gaps inside the span, in order                                      *)
(***************************************************************************)

\* The gaps cut to the span: maybe empty, inside it, in the order of their start.
Clips(span) == {w \in [start: Int, end: Int] : span.start <= w.start /\ w.end <= span.end}
StartsAscend(span, s) ==
    /\ s \in Seq(Clips(span))
    /\ \A i, j \in 1 .. Len(s) : i < j => s[i].start <= s[j].start

Earlier(x, y) == x.start < y.start \/ (x.start = y.start /\ x.end < y.end)

LEMMA EarlierLines ==
    ASSUME NEW S \in SUBSET [start: Int, end: Int],
           NEW ahead, ahead = [x \in S |-> {y \in S : Earlier(y, x)}]
    PROVE  Lines(S, ahead) /\ \A x, y \in S : x \in ahead[y] <=> Earlier(x, y)
<1>1. \A x, y \in S : x \in ahead[y] <=> Earlier(x, y)
    OBVIOUS
<1>2. \A x \in S : ahead[x] \in SUBSET S
    OBVIOUS
<1>3. \A x \in S : /\ x.start \in Int /\ x.end \in Int
                   /\ x = [start |-> x.start, end |-> x.end]
    OBVIOUS
<1>4. ASSUME NEW x \in S, NEW y \in S
      PROVE  ~Earlier(x, x) /\ (x = y \/ Earlier(x, y) \/ Earlier(y, x))
    <2>1. x.start = y.start /\ x.end = y.end => x = y
        BY <1>3
    <2> QED
        BY <1>3, <2>1 DEF Earlier
<1>5. ASSUME NEW x \in S, NEW y \in S, NEW z \in S, Earlier(z, x), Earlier(x, y)
      PROVE  Earlier(z, y)
    BY <1>3, <1>5 DEF Earlier
<1> HIDE DEF Earlier
<1>6. ASSUME NEW x \in S, NEW y \in S, x \in ahead[y] PROVE ahead[x] \subseteq ahead[y]
    <2> SUFFICES ASSUME NEW z \in ahead[x] PROVE z \in ahead[y]
        OBVIOUS
    <2>1. z \in S
        BY <1>2
    <2> QED
        BY <1>1, <1>5, <1>6, <2>1
<1> QED
    BY <1>1, <1>2, <1>4, <1>6 DEF Lines

LEMMA ClippedIs ==
    ASSUME NEW span, span.start \in Int, span.end \in Int,
           NEW known \in SUBSET [start: Int, end: Int], IsFiniteSet(known),
           NEW s, s = Clipped(span, known)
    PROVE  /\ StartsAscend(span, s)
           /\ \A t \in Int : Within(span, t) =>
                 (HoldsMoment(s, t) <=> \E g \in known : Within(g, t))
           /\ \A t \in Int : HoldsMoment(s, t) => Within(span, t)
<1> DEFINE meeting == {g \in known : g.end > span.start /\ g.start < span.end}
           clip(g) == Interval(Max({span.start, g.start}), Min({span.end, g.end}))
           cut == {clip(g) : g \in meeting}
           ahead == [x \in cut |-> {y \in cut : Earlier(y, x)}]
<1>1. s = InOrder(cut, ahead)
    BY Zenon DEF Clipped, Earlier
<1>2. \A g \in known : g.start \in Int /\ g.end \in Int
    OBVIOUS
<1>3. ASSUME NEW g \in meeting
      PROVE  /\ clip(g) \in Clips(span)
             /\ \A t \in Int : Within(clip(g), t) <=> Within(span, t) /\ Within(g, t)
    <2> DEFINE a == Max({span.start, g.start})
               b == Min({span.end, g.end})
    <2>1. g \in known /\ g.start \in Int /\ g.end \in Int
        BY <1>2
    <2>2. /\ a \in Int /\ span.start <= a /\ g.start <= a /\ (a = span.start \/ a = g.start)
          /\ b \in Int /\ b <= span.end /\ b <= g.end /\ (b = span.end \/ b = g.end)
        BY <2>1, MaxOfTwo, MinOfTwo
    <2>3. clip(g).start = a /\ clip(g).end = b /\ clip(g) = [start |-> a, end |-> b]
        BY DEF Interval
    <2> HIDE DEF a, b, clip
    <2> QED
        BY <2>1, <2>2, <2>3 DEF Clips, Within
<1>4. IsFiniteSet(cut)
    <2>1. IsFiniteSet(meeting)
        BY FS_Subset
    <2> DEFINE f == [g \in meeting |-> clip(g)]
    <2>2. f \in [meeting -> cut] /\ \A x \in cut : \E g \in meeting : f[g] = x
        <3> HIDE DEF meeting, clip
        <3> QED
            OBVIOUS
    <2> HIDE DEF f, cut, meeting
    <2>3. f \in Surjection(meeting, cut)
        BY <2>2 DEF Surjection
    <2> QED
        BY <2>1, <2>3, FS_Surjection
<1>5. cut \in SUBSET Clips(span)
    BY <1>3
<1>6. cut \in SUBSET [start: Int, end: Int]
    BY <1>5 DEF Clips
<1>7. Lines(cut, ahead) /\ \A x, y \in cut : x \in ahead[y] <=> Earlier(x, y)
    <2> HIDE DEF cut
    <2> QED
        BY <1>6, EarlierLines
<1>8. /\ s \in Seq(cut)
      /\ \A x \in cut : \E n \in 1 .. Len(s) : s[n] = x
      /\ \A m, n \in 1 .. Len(s) : m < n => s[m] \in ahead[s[n]]
    <2> HIDE DEF cut, ahead
    <2> QED
        BY <1>1, <1>4, <1>7, InOrderIs
<1>9. \A n \in 1 .. Len(s) : s[n] \in cut
    BY <1>8, ElementOfSeq
<1>10. StartsAscend(span, s)
    <2> HIDE DEF cut, ahead
    <2>1. s \in Seq(Clips(span))
        BY <1>5, <1>8, SeqMonotonic
    <2>2. ASSUME NEW i \in 1 .. Len(s), NEW j \in 1 .. Len(s), i < j
          PROVE  s[i].start <= s[j].start
        <3>1. Earlier(s[i], s[j])
            BY <1>7, <1>8, <1>9, <2>2
        <3>2. s[i].start \in Int /\ s[j].start \in Int
            BY <1>5, <1>9 DEF Clips
        <3> QED
            BY <3>1, <3>2 DEF Earlier
    <2> QED
        BY <2>1, <2>2 DEF StartsAscend
<1>11. ASSUME NEW t \in Int, HoldsMoment(s, t) PROVE Within(span, t) /\ \E g \in known : Within(g, t)
    <2>1. PICK n \in 1 .. Len(s) : Within(s[n], t)
        BY <1>11 DEF HoldsMoment
    <2>2. PICK g \in meeting : s[n] = clip(g)
        BY <1>9
    <2> HIDE DEF clip
    <2> QED
        BY <1>3, <2>1, <2>2
<1>12. ASSUME NEW t \in Int, Within(span, t), NEW g \in known, Within(g, t) PROVE HoldsMoment(s, t)
    <2>1. g \in meeting
        <3>1. span.start <= t /\ t < span.end /\ g.start <= t /\ t < g.end
            BY <1>12 DEF Within
        <3>2. g.end > span.start /\ g.start < span.end
            BY <1>2, <3>1
        <3> QED
            BY <3>2
    <2>2. PICK n \in 1 .. Len(s) : s[n] = clip(g)
        BY <1>8, <2>1
    <2>3. Within(s[n], t)
        <3> HIDE DEF clip, meeting
        <3> QED
            BY <1>3, <1>12, <2>1, <2>2
    <2> QED
        BY <2>3 DEF HoldsMoment
<1> QED
    BY <1>10, <1>11, <1>12

-----------------------------------------------------------------------------
(***************************************************************************)
(* Merging                                                                 *)
(***************************************************************************)

\* A gap that touches the last of a chain makes it longer.
LEMMA ChainExtend ==
    ASSUME NEW span, NEW m, Chain(span, m), m # << >>,
           NEW w \in Piece(span), w.start = m[Len(m)].start,
           NEW u, u = Append(Front(m), w)
    PROVE  /\ Chain(span, u) /\ Len(u) = Len(m) /\ u[Len(m)] = w
           /\ \A t : HoldsMoment(u, t) <=> Within(w, t) \/ \E i \in 1 .. Len(m) - 1 : Within(m[i], t)
<1> DEFINE n == Len(m)
           front == Front(m)
<1>1. /\ n \in Nat /\ m \in Seq(Piece(span))
      /\ \A i \in 1 .. n : /\ m[i] \in Piece(span) /\ m[i].start \in Int /\ m[i].end \in Int
                           /\ span.start <= m[i].start /\ m[i].start < m[i].end
      /\ \A i, j \in 1 .. n : i < j => m[i].end < m[j].start
    BY ChainFacts DEF Chain
<1>2. n # 0 /\ n \in 1 .. n /\ n - 1 \in Nat
    <2>1. n # 0
        BY <1>1, EmptySeq
    <2> QED
        BY <1>1, <2>1
<1>3. /\ front \in Seq(Piece(span)) /\ Len(front) = n - 1
      /\ \A i \in 1 .. n - 1 : front[i] = m[i]
    <2>1. \A i \in 1 .. n - 1 : m[i] \in Piece(span)
        BY <1>1, <1>2
    <2>2. 1 \in Int /\ n - 1 \in Int /\ front = SubSeq(m, 1, n - 1)
        BY <1>2 DEF Front
    <2> HIDE DEF n, front
    <2>3. /\ front \in Seq(Piece(span))
          /\ Len(front) = IF 1 <= n - 1 THEN (n - 1) - 1 + 1 ELSE 0
          /\ \A i \in 1 .. (n - 1) - 1 + 1 : front[i] = m[1 + i - 1]
        BY <2>1, <2>2, SubSeqProperties
    <2>4. Len(front) = n - 1
        BY <1>2, <2>3
    <2>5. ASSUME NEW i \in 1 .. n - 1 PROVE front[i] = m[i]
        <3>1. i \in 1 .. (n - 1) - 1 + 1 /\ 1 + i - 1 = i
            BY <1>2
        <3>2. front[i] = m[1 + i - 1]
            BY <2>3, <3>1
        <3> QED
            BY <3>1, <3>2
    <2> QED
        BY <2>3, <2>4, <2>5
<1>4. w \in Piece(span) /\ w.start = m[n].start
    OBVIOUS
<1> HIDE DEF n, front
<1>5. Chain(span, front)
    <2>1. ASSUME NEW i \in 1 .. n - 1, NEW j \in 1 .. n - 1, i < j PROVE front[i].end < front[j].start
        <3>1. i \in 1 .. n /\ j \in 1 .. n /\ front[i] = m[i] /\ front[j] = m[j]
            BY <1>1, <1>2, <1>3
        <3> QED
            BY <1>1, <2>1, <3>1
    <2> QED
        BY <1>3, <2>1 DEF Chain
<1>6. \A i \in 1 .. Len(front) : front[i].end < w.start
    <2> SUFFICES ASSUME NEW i \in 1 .. n - 1 PROVE front[i].end < w.start
        BY <1>3
    <2>1. i \in 1 .. n /\ i < n /\ front[i] = m[i]
        BY <1>1, <1>2, <1>3
    <2> QED
        BY <1>1, <1>2, <1>4, <2>1
<1>7. u = Append(front, w)
    BY DEF front
<1>8. /\ Chain(span, u)
      /\ \A t : HoldsMoment(u, t) <=> HoldsMoment(front, t) \/ Within(w, t)
      /\ Len(u) = Len(front) + 1 /\ u[Len(front) + 1] = w
    BY <1>4, <1>5, <1>6, <1>7, ChainAppend
<1>9. Len(front) + 1 = n
    BY <1>1, <1>2, <1>3
<1>10. \A t : HoldsMoment(front, t) <=> \E i \in 1 .. n - 1 : Within(m[i], t)
    BY <1>3 DEF HoldsMoment
<1> QED
    BY <1>8, <1>9, <1>10 DEF n

\* The merged gaps of the first i clips: a chain that covers what they cover, and
\* whose last gap does not start after any clip that is still to come.
MergedTo(span, c, i, m) ==
    /\ Chain(span, m)
    /\ \A t \in Int : HoldsMoment(m, t) <=> \E k \in 1 .. i : Within(c[k], t)
    /\ m # << >> => \A k \in i + 1 .. Len(c) : m[Len(m)].start <= c[k].start

LEMMA MergeStep ==
    ASSUME NEW span, NEW c, StartsAscend(span, c), NEW i \in Nat, i + 1 \in 1 .. Len(c),
           NEW m, MergedTo(span, c, i, m)
    PROVE  MergedTo(span, c, i + 1, Merge(m, c[i + 1]))
<1> DEFINE g == c[i + 1]
           n == Len(m)
           u == Merge(m, g)
<1>1. /\ Len(c) \in Nat
      /\ \A k \in 1 .. Len(c) : /\ c[k] \in [start: Int, end: Int]
                                /\ c[k].start \in Int /\ c[k].end \in Int
                                /\ span.start <= c[k].start /\ c[k].end <= span.end
      /\ \A j, k \in 1 .. Len(c) : j < k => c[j].start <= c[k].start
    <2>1. c \in Seq(Clips(span))
        BY DEF StartsAscend
    <2>2. Len(c) \in Nat /\ \A k \in 1 .. Len(c) : c[k] \in Clips(span)
        BY <2>1, LenProperties, ElementOfSeq
    <2> QED
        BY <2>2 DEF StartsAscend, Clips
<1>2. /\ g \in [start: Int, end: Int] /\ g.start \in Int /\ g.end \in Int
      /\ span.start <= g.start /\ g.end <= span.end
    BY <1>1
<1>3. ASSUME NEW t PROVE (\E k \in 1 .. i + 1 : Within(c[k], t))
                           <=> (\E k \in 1 .. i : Within(c[k], t)) \/ Within(g, t)
    <2>1. \A k \in 1 .. i + 1 : k \in 1 .. i \/ k = i + 1
        OBVIOUS
    <2>2. (\A k \in 1 .. i : k \in 1 .. i + 1) /\ i + 1 \in 1 .. i + 1
        OBVIOUS
    <2> QED
        BY <2>1, <2>2
<1>4. \A k \in i + 2 .. Len(c) : /\ k \in i + 1 .. Len(c) /\ g.start <= c[k].start
                                 /\ c[k].start \in Int
    <2> SUFFICES ASSUME NEW k \in i + 2 .. Len(c)
                 PROVE  k \in i + 1 .. Len(c) /\ g.start <= c[k].start /\ c[k].start \in Int
        OBVIOUS
    <2>1. k \in 1 .. Len(c) /\ k \in i + 1 .. Len(c) /\ i + 1 < k
        BY <1>1
    <2> QED
        BY <1>1, <2>1
<1>5. /\ Chain(span, m) /\ n \in Nat
      /\ \A t \in Int : HoldsMoment(m, t) <=> \E k \in 1 .. i : Within(c[k], t)
      /\ m # << >> => \A k \in i + 1 .. Len(c) : m[n].start <= c[k].start
      /\ m # << >> => n \in 1 .. n
      /\ \A k \in 1 .. n : /\ m[k].start \in Int /\ m[k].end \in Int
                           /\ m[k].start < m[k].end /\ span.start <= m[k].start
                           /\ m[k].end <= span.end
      /\ \A j, k \in 1 .. n : j < k => m[j].end < m[k].start
    <2>1. Chain(span, m) /\ n \in Nat /\ m \in Seq(Piece(span))
        BY ChainFacts DEF MergedTo, Chain
    <2>2. m # << >> => n # 0
        BY <2>1, EmptySeq
    <2>3. m # << >> => n \in 1 .. n
        BY <2>1, <2>2
    <2> QED
        BY <2>1, <2>3, ChainFacts DEF MergedTo
<1>6. Last(m) = m[n] /\ (i + 1) + 1 = i + 2
    BY DEF Last
<1> SUFFICES /\ Chain(span, u)
             /\ \A t \in Int : HoldsMoment(u, t) <=> HoldsMoment(m, t) \/ Within(g, t)
             /\ u # << >> => \A k \in i + 2 .. Len(c) : u[Len(u)].start <= c[k].start
    BY <1>3, <1>5, <1>6 DEF MergedTo
<1> HIDE DEF g, n
<1>7. CASE g.start >= g.end
    <2>1. u = m
        BY <1>7 DEF Merge
    <2>2. \A t \in Int : ~Within(g, t)
        <3> SUFFICES ASSUME NEW t \in Int, Within(g, t) PROVE FALSE
            OBVIOUS
        <3> QED
            BY <1>2, <1>7 DEF Within
    <2> QED
        BY <1>4, <1>5, <2>1, <2>2 DEF n
<1>8. CASE g.start < g.end /\ m # << >> /\ g.start <= m[n].end
    <2> DEFINE e == Max({m[n].end, g.end})
               w == Interval(m[n].start, e)
    <2>1. m[n].start \in Int /\ m[n].end \in Int /\ m[n].end <= span.end
          /\ m[n].start <= g.start
        <3>1. i + 1 \in i + 1 .. Len(c)
            BY <1>1
        <3> QED
            BY <1>5, <1>8, <3>1 DEF g
    <2>2. /\ e \in Int /\ m[n].end <= e /\ g.end <= e
          /\ (e = m[n].end \/ e = g.end)
        BY <1>2, <2>1, MaxOfTwo
    <2>3. u = Append(Front(m), w)
        BY <1>2, <1>6, <1>8 DEF Merge
    <2>4. w.start = m[n].start /\ w.end = e
        BY DEF Interval
    <2>5. e <= span.end
        BY <1>2, <2>1, <2>2
    <2>6. /\ Chain(span, u) /\ Len(u) = n /\ u[n] = w
          /\ \A t : HoldsMoment(u, t) <=> Within(w, t) \/ \E k \in 1 .. n - 1 : Within(m[k], t)
        <3>1. w = [start |-> m[n].start, end |-> e]
            BY DEF Interval
        <3> HIDE DEF e, w, u
        <3>2. w \in Piece(span)
            BY <1>5, <1>8, <2>1, <2>2, <2>4, <2>5, <3>1 DEF Piece
        <3>3. Chain(span, m) /\ m # << >>
            BY <1>5, <1>8
        <3>4. w.start = m[Len(m)].start
            BY <2>4 DEF n
        <3>5. u = Append(Front(m), w)
            BY <2>3
        <3>6. Chain(span, u)
            BY <3>2, <3>3, <3>4, <3>5, ChainExtend
        <3>7. Len(u) = Len(m) /\ u[Len(m)] = w
            BY <3>2, <3>3, <3>4, <3>5, ChainExtend
        <3>8. \A t : HoldsMoment(u, t) <=> Within(w, t) \/ \E k \in 1 .. Len(m) - 1 : Within(m[k], t)
            BY <3>2, <3>3, <3>4, <3>5, ChainExtend
        <3> QED
            BY <3>6, <3>7, <3>8 DEF n
    <2> HIDE DEF e, w, u
    <2>7. ASSUME NEW t \in Int PROVE HoldsMoment(u, t) <=> HoldsMoment(m, t) \/ Within(g, t)
        <3>1. Within(w, t) <=> Within(m[n], t) \/ Within(g, t)
            BY <1>2, <1>8, <2>1, <2>2, <2>4 DEF Within
        <3>2. HoldsMoment(m, t) <=> Within(m[n], t) \/ \E k \in 1 .. n - 1 : Within(m[k], t)
            <4>1. \A k \in 1 .. n : k = n \/ k \in 1 .. n - 1
                BY <1>5
            <4>2. n \in 1 .. n /\ \A k \in 1 .. n - 1 : k \in 1 .. n
                BY <1>5, <1>8
            <4> QED
                BY <4>1, <4>2 DEF HoldsMoment, n
        <3> QED
            BY <2>6, <3>1, <3>2
    <2>8. \A k \in i + 2 .. Len(c) : u[Len(u)].start <= c[k].start
        BY <1>4, <1>5, <1>8, <2>4, <2>6
    <2> QED
        BY <2>6, <2>7, <2>8
<1>9. CASE g.start < g.end /\ (m = << >> \/ ~(g.start <= m[n].end))
    <2>1. u = Append(m, g)
        BY <1>2, <1>6, <1>9 DEF Merge
    <2>2. g \in Piece(span)
        BY <1>2, <1>9 DEF Piece
    <2>3. \A k \in 1 .. Len(m) : m[k].end < g.start
        <3> SUFFICES ASSUME NEW k \in 1 .. n PROVE m[k].end < g.start
            BY DEF n
        <3>1. m # << >> /\ n \in 1 .. n
            <4>1. CASE m = << >>
                BY <4>1, EmptySeq DEF n
            <4> QED
                BY <1>5, <4>1
        <3>2. m[n].end < g.start
            BY <1>2, <1>5, <1>9, <3>1
        <3>3. k = n \/ k < n
            BY <1>5
        <3>4. k < n => m[k].end < m[n].start
            BY <1>5, <3>1
        <3> QED
            BY <1>2, <1>5, <3>1, <3>2, <3>3, <3>4
    <2>4. /\ Chain(span, u)
          /\ \A t : HoldsMoment(u, t) <=> HoldsMoment(m, t) \/ Within(g, t)
          /\ Len(u) = Len(m) + 1 /\ u[Len(m) + 1] = g
        BY <1>5, <2>1, <2>2, <2>3, ChainAppend
    <2> QED
        BY <1>4, <2>4
<1> QED
    BY <1>2, <1>7, <1>8, <1>9

\* The merged gaps, one clip after another.
Merges(f, c, n) == f = [i \in 0 .. n |-> IF i = 0 THEN << >> ELSE Merge(f[i - 1], c[i])]

LEMMA MergesExist ==
    ASSUME NEW c, NEW n \in Nat
    PROVE  \E f : Merges(f, c, n)
<1> DEFINE S == {m \in Nat : \E f : Merges(f, c, m)}
<1>1. 0 \in S
    <2> DEFINE f == [i \in 0 .. 0 |-> << >>]
    <2>1. Merges(f, c, 0)
        BY DEF Merges
    <2> QED
        BY <2>1
<1>2. ASSUME NEW m \in S PROVE m + 1 \in S
    <2>1. PICK g : Merges(g, c, m)
        OBVIOUS
    <2> DEFINE last == Merge(g[m], c[m + 1])
               f == [i \in 0 .. m + 1 |-> IF i = m + 1 THEN last ELSE g[i]]
    <2>2. \A i \in 0 .. m : f[i] = g[i]
        OBVIOUS
    <2>3. \A i \in 0 .. m : g[i] = IF i = 0 THEN << >> ELSE Merge(g[i - 1], c[i])
        BY <2>1 DEF Merges
    <2>4. f[m + 1] = last /\ m \in 0 .. m /\ (m + 1) - 1 = m /\ m + 1 # 0
        OBVIOUS
    <2> HIDE DEF f
    <2>5. ASSUME NEW i \in 0 .. m + 1
          PROVE  f[i] = IF i = 0 THEN << >> ELSE Merge(f[i - 1], c[i])
        <3>1. CASE i = m + 1
            BY <2>2, <2>4, <3>1
        <3>2. CASE i # m + 1
            <4>1. i \in 0 .. m /\ (i # 0 => i - 1 \in 0 .. m)
                BY <3>2
            <4>2. f[i] = g[i] /\ (i # 0 => f[i - 1] = g[i - 1])
                BY <2>2, <4>1
            <4> QED
                BY <2>3, <4>1, <4>2
        <3> QED
            BY <3>1, <3>2
    <2>6. Merges(f, c, m + 1)
        <3>1. f = [i \in 0 .. m + 1 |-> f[i]]
            BY DEF f
        <3>2. [i \in 0 .. m + 1 |-> f[i]]
                  = [i \in 0 .. m + 1 |-> IF i = 0 THEN << >> ELSE Merge(f[i - 1], c[i])]
            BY <2>5
        <3> QED
            BY <3>1, <3>2, Zenon DEF Merges
    <2> QED
        BY <2>6
<1>3. S \in SUBSET Nat
    OBVIOUS
<1>4. S = Nat
    <2> HIDE DEF S
    <2> QED
        BY <1>1, <1>2, <1>3, SetInduction
<1> QED
    BY <1>4

LEMMA MergedGapsAre ==
    ASSUME NEW span, NEW c, StartsAscend(span, c), NEW m, m = MergedGaps(c)
    PROVE  Chain(span, m) /\ \A t \in Int : HoldsMoment(m, t) <=> HoldsMoment(c, t)
<1> DEFINE n == Len(c)
           G == CHOOSE f : f = [i \in 0 .. Len(c) |-> IF i = 0 THEN << >> ELSE Merge(f[i - 1], c[i])]
           T == {i \in Nat : i <= n => MergedTo(span, c, i, G[i])}
<1>1. n \in Nat
    BY LenProperties DEF StartsAscend
<1>2. PICK f : Merges(f, c, n)
    BY <1>1, MergesExist
<1>3. f = [i \in 0 .. Len(c) |-> IF i = 0 THEN << >> ELSE Merge(f[i - 1], c[i])]
    BY <1>2 DEF Merges
<1>4. G = [i \in 0 .. Len(c) |-> IF i = 0 THEN << >> ELSE Merge(G[i - 1], c[i])]
    BY <1>3
<1>5. m = G[n]
    BY Zenon DEF MergedGaps
<1> HIDE DEF G
<1>6. \A i \in 0 .. n : G[i] = IF i = 0 THEN << >> ELSE Merge(G[i - 1], c[i])
    BY <1>4
<1>7. 0 \in T
    <2>1. G[0] = << >>
        BY <1>1, <1>6
    <2>2. Chain(span, << >>) /\ \A t : ~HoldsMoment(<< >>, t)
        BY DEF Chain, HoldsMoment
    <2>3. MergedTo(span, c, 0, << >>)
        BY <2>2 DEF MergedTo
    <2> QED
        BY <2>1, <2>3
<1>8. ASSUME NEW i \in T PROVE i + 1 \in T
    <2> SUFFICES ASSUME i + 1 <= n PROVE MergedTo(span, c, i + 1, G[i + 1])
        OBVIOUS
    <2>1. i \in Nat /\ i <= n /\ i + 1 \in 0 .. n /\ i + 1 # 0 /\ (i + 1) - 1 = i
          /\ i + 1 \in 1 .. Len(c)
        BY <1>1
    <2>2. MergedTo(span, c, i, G[i]) /\ G[i + 1] = Merge(G[i], c[i + 1])
        BY <1>6, <2>1
    <2> QED
        BY <2>1, <2>2, MergeStep
<1>9. T = Nat
    <2>1. T \in SUBSET Nat
        OBVIOUS
    <2> HIDE DEF T
    <2> QED
        BY <1>7, <1>8, <2>1, SetInduction
<1>10. MergedTo(span, c, n, m)
    BY <1>1, <1>5, <1>9
<1> QED
    BY <1>10 DEF MergedTo, HoldsMoment

-----------------------------------------------------------------------------
(***************************************************************************)
(* Cutting the gaps out of the span                                        *)
(***************************************************************************)

\* The state of the pass after the first i gaps of a chain: a chain of pieces
\* before the cursor that covers what lies before it outside those gaps.
CutTo(span, m, i, state) ==
    /\ state.cursor = IF i = 0 THEN span.start ELSE m[i].end
    /\ state.cursor \in Int /\ span.start <= state.cursor /\ state.cursor <= span.end
    /\ Chain(span, state.pieces)
    /\ \A k \in 1 .. Len(state.pieces) :
          IF i = 0 THEN FALSE ELSE state.pieces[k].end < state.cursor
    /\ \A t \in Int : HoldsMoment(state.pieces, t)
          <=> /\ span.start <= t /\ t < state.cursor
              /\ \A k \in 1 .. i : ~Within(m[k], t)

LEMMA CutStep ==
    ASSUME NEW span, span \in [start: Int, end: Int], NEW m, Chain(span, m),
           NEW i \in Nat, i + 1 \in 1 .. Len(m), NEW state, CutTo(span, m, i, state)
    PROVE  CutTo(span, m, i + 1, Cut(state, m[i + 1]))
<1> DEFINE g == m[i + 1]
           next == Cut(state, g)
           p == Interval(state.cursor, g.start)
           u == next.pieces
<1>1. /\ Len(m) \in Nat /\ g.start \in Int /\ g.end \in Int
      /\ span.start <= g.start /\ g.start < g.end /\ g.end <= span.end
    BY ChainFacts
<1>2. i # 0 => m[i].end < g.start /\ m[i].end \in Int
    <2>1. i # 0 => i \in 1 .. Len(m) /\ i < i + 1
        BY <1>1
    <2> QED
        BY <2>1, ChainFacts
<1>3. /\ state.cursor \in Int /\ span.start <= state.cursor
      /\ state.cursor <= g.start /\ (i # 0 => state.cursor < g.start)
      /\ span.start \in Int /\ span.end \in Int
    BY <1>1, <1>2 DEF CutTo
<1>4. /\ Chain(span, state.pieces)
      /\ \A k \in 1 .. Len(state.pieces) : i # 0 /\ state.pieces[k].end < state.cursor
      /\ \A k \in 1 .. Len(state.pieces) : state.pieces[k].end \in Int
      /\ \A t \in Int : HoldsMoment(state.pieces, t)
            <=> /\ span.start <= t /\ t < state.cursor
                /\ \A k \in 1 .. i : ~Within(m[k], t)
    BY ChainFacts DEF CutTo
<1>5. next.cursor = g.end
    <2>1. next.cursor = Max({state.cursor, g.end})
        BY DEF Cut
    <2>2. state.cursor <= g.end
        BY <1>1, <1>3
    <2> HIDE DEF g, next
    <2> QED
        BY <1>1, <1>3, <2>1, <2>2, MaxOfTwo
<1>6. u = IF state.cursor < g.start THEN Append(state.pieces, p) ELSE state.pieces
    BY DEF Cut
<1>7. p.start = state.cursor /\ p.end = g.start
    BY DEF Interval
<1>8. ASSUME NEW t PROVE (\A k \in 1 .. i + 1 : ~Within(m[k], t))
                           <=> (\A k \in 1 .. i : ~Within(m[k], t)) /\ ~Within(g, t)
    <2>1. \A k \in 1 .. i + 1 : k \in 1 .. i \/ k = i + 1
        OBVIOUS
    <2>2. (\A k \in 1 .. i : k \in 1 .. i + 1) /\ i + 1 \in 1 .. i + 1
        OBVIOUS
    <2> QED
        BY <2>1, <2>2
<1>9. i + 1 # 0 /\ g.end = m[i + 1].end
    OBVIOUS
\* The gaps so far end before the cursor, so nothing from there on is in one.
<1>10. ASSUME NEW t \in Int, state.cursor <= t, NEW k \in 1 .. i PROVE ~Within(m[k], t)
    <2>1. k \in 1 .. Len(m) /\ i \in 1 .. Len(m) /\ (k = i \/ k < i) /\ i # 0
        BY <1>1
    <2>2. m[k].end \in Int /\ m[i].end \in Int /\ m[i].start \in Int /\ m[i].start < m[i].end
          /\ (k < i => m[k].end < m[i].start)
        BY <2>1, ChainFacts
    <2>3. state.cursor = m[i].end
        BY <2>1 DEF CutTo
    <2>4. m[k].end <= t
        BY <1>10, <2>1, <2>2, <2>3
    <2> QED
        BY <2>2, <2>4 DEF Within
<1> HIDE DEF g, next, p, u
<1> SUFFICES /\ Chain(span, u)
             /\ \A k \in 1 .. Len(u) : u[k].end < g.end
             /\ \A t \in Int : HoldsMoment(u, t)
                   <=> /\ span.start <= t /\ t < g.end
                       /\ \A k \in 1 .. i + 1 : ~Within(m[k], t)
    <2>1. CutTo(span, m, i + 1, next)
        BY <1>1, <1>5, <1>9 DEF CutTo, u
    <2> QED
        BY <2>1 DEF next, g
<1>11. ASSUME NEW t \in Int
       PROVE  (/\ span.start <= t /\ t < g.end
               /\ \A k \in 1 .. i + 1 : ~Within(m[k], t))
                 <=> \/ /\ span.start <= t /\ t < state.cursor
                        /\ \A k \in 1 .. i : ~Within(m[k], t)
                     \/ state.cursor <= t /\ t < g.start
    <2>1. Within(g, t) <=> g.start <= t /\ t < g.end
        BY DEF Within
    <2>2. CASE t < state.cursor
        BY <1>1, <1>3, <1>8, <2>1, <2>2
    <2>3. CASE state.cursor <= t
        BY <1>1, <1>3, <1>8, <1>10, <2>1, <2>3
    <2> QED
        BY <1>3, <2>2, <2>3
<1>12. CASE state.cursor < g.start
    <2>1. u = Append(state.pieces, p)
        BY <1>6, <1>12
    <2>2. p \in Piece(span)
        <3>1. p = [start |-> state.cursor, end |-> g.start]
            BY DEF p, Interval
        <3>2. g.start <= span.end
            BY <1>1, <1>3
        <3> QED
            BY <1>1, <1>3, <1>7, <1>12, <3>1, <3>2 DEF Piece
    <2>3. \A k \in 1 .. Len(state.pieces) : state.pieces[k].end < p.start
        BY <1>4, <1>7
    <2>4. /\ Chain(span, u)
          /\ \A t : HoldsMoment(u, t) <=> HoldsMoment(state.pieces, t) \/ Within(p, t)
          /\ Len(u) = Len(state.pieces) + 1 /\ u[Len(state.pieces) + 1] = p
        BY <1>4, <2>1, <2>2, <2>3, ChainAppend
    <2>5. ASSUME NEW k \in 1 .. Len(u) PROVE u[k].end < g.end
        <3>1. Len(state.pieces) \in Nat /\ Len(u) \in Nat
            BY <1>4, <2>4, ChainFacts
        <3>2. /\ k = Len(u) \/ k < Len(u)
              /\ Len(u) \in 1 .. Len(u) /\ u[Len(u)] = p
            BY <2>4, <3>1
        <3>3. u[k].end \in Int /\ (k < Len(u) => u[k].end < p.start)
            BY <2>4, <3>2, ChainFacts
        <3> QED
            BY <1>1, <1>3, <1>7, <3>2, <3>3
    <2>6. \A t : Within(p, t) <=> state.cursor <= t /\ t < g.start
        BY <1>7 DEF Within
    <2> QED
        BY <1>4, <1>11, <2>4, <2>5, <2>6
<1>13. CASE ~(state.cursor < g.start)
    <2>1. u = state.pieces /\ state.cursor = g.start
        BY <1>1, <1>3, <1>6, <1>13
    <2>2. \A k \in 1 .. Len(u) : u[k].end < g.end
        BY <1>1, <1>4, <2>1
    <2>3. \A t \in Int : ~(state.cursor <= t /\ t < g.start)
        BY <1>1, <2>1
    <2> QED
        BY <1>4, <1>11, <2>1, <2>2, <2>3
<1> QED
    BY <1>12, <1>13

Cuts(f, span, m, n) ==
    f = [i \in 0 .. n |-> IF i = 0 THEN [pieces |-> << >>, cursor |-> span.start]
                                   ELSE Cut(f[i - 1], m[i])]

LEMMA CutsExist ==
    ASSUME NEW span, NEW c, NEW n \in Nat
    PROVE  \E f : Cuts(f, span, c, n)
<1> DEFINE base == [pieces |-> << >>, cursor |-> span.start]
           S == {m \in Nat : \E f : Cuts(f, span, c, m)}
<1>1. 0 \in S
    <2> DEFINE f == [i \in 0 .. 0 |-> base]
    <2>1. Cuts(f, span, c, 0)
        BY DEF Cuts
    <2> QED
        BY <2>1
<1>2. ASSUME NEW m \in S PROVE m + 1 \in S
    <2>1. PICK g : Cuts(g, span, c, m)
        OBVIOUS
    <2> DEFINE last == Cut(g[m], c[m + 1])
               f == [i \in 0 .. m + 1 |-> IF i = m + 1 THEN last ELSE g[i]]
    <2>2. \A i \in 0 .. m : f[i] = g[i]
        OBVIOUS
    <2>3. \A i \in 0 .. m : g[i] = IF i = 0 THEN base ELSE Cut(g[i - 1], c[i])
        BY <2>1 DEF Cuts
    <2>4. f[m + 1] = last /\ m \in 0 .. m /\ (m + 1) - 1 = m /\ m + 1 # 0
        OBVIOUS
    <2>5. f = [i \in 0 .. m + 1 |-> f[i]]
        OBVIOUS
    <2> HIDE DEF f, base
    <2>6. ASSUME NEW i \in 0 .. m + 1
          PROVE  f[i] = IF i = 0 THEN base ELSE Cut(f[i - 1], c[i])
        <3>1. CASE i = m + 1
            BY <2>2, <2>4, <3>1
        <3>2. CASE i # m + 1
            <4>1. i \in 0 .. m /\ (i # 0 => i - 1 \in 0 .. m)
                BY <3>2
            <4>2. f[i] = g[i] /\ (i # 0 => f[i - 1] = g[i - 1])
                BY <2>2, <4>1
            <4> QED
                BY <2>3, <4>1, <4>2
        <3> QED
            BY <3>1, <3>2
    <2>7. Cuts(f, span, c, m + 1)
        <3>1. [i \in 0 .. m + 1 |-> f[i]]
                  = [i \in 0 .. m + 1 |-> IF i = 0 THEN base ELSE Cut(f[i - 1], c[i])]
            BY <2>6
        <3> QED
            BY <2>5, <3>1, Zenon DEF Cuts, base
    <2> QED
        BY <2>7
<1>3. S \in SUBSET Nat
    OBVIOUS
<1>4. S = Nat
    <2> HIDE DEF S
    <2> QED
        BY <1>1, <1>2, <1>3, SetInduction
<1> QED
    BY <1>4

LEMMA CutGapsAre ==
    ASSUME NEW span, span \in [start: Int, end: Int], span.start <= span.end,
           NEW m, Chain(span, m), NEW end, end = CutGaps(span, m)
    PROVE  CutTo(span, m, Len(m), end)
<1> DEFINE n == Len(m)
           base == [pieces |-> << >>, cursor |-> span.start]
           G == CHOOSE f : f = [i \in 0 .. Len(m) |->
                  IF i = 0 THEN [pieces |-> << >>, cursor |-> span.start] ELSE Cut(f[i - 1], m[i])]
           T == {i \in Nat : i <= n => CutTo(span, m, i, G[i])}
<1>1. n \in Nat
    BY ChainFacts
<1>2. PICK f : Cuts(f, span, m, n)
    BY <1>1, CutsExist
<1>3. f = [i \in 0 .. Len(m) |->
             IF i = 0 THEN [pieces |-> << >>, cursor |-> span.start] ELSE Cut(f[i - 1], m[i])]
    BY <1>2 DEF Cuts
<1>4. G = [i \in 0 .. Len(m) |->
             IF i = 0 THEN [pieces |-> << >>, cursor |-> span.start] ELSE Cut(G[i - 1], m[i])]
    BY <1>3
<1>5. end = G[n]
    BY Zenon DEF CutGaps
<1> HIDE DEF G
<1>6. \A i \in 0 .. n : G[i] = IF i = 0 THEN base ELSE Cut(G[i - 1], m[i])
    BY <1>4
<1>7. 0 \in T
    <2>1. G[0] = base
        BY <1>1, <1>6
    <2>2. Chain(span, << >>) /\ (\A t : ~HoldsMoment(<< >>, t)) /\ Len(<< >>) = 0
        BY DEF Chain, HoldsMoment
    <2>3. base.pieces = << >> /\ base.cursor = span.start /\ span.start \in Int /\ span.end \in Int
        OBVIOUS
    <2> HIDE DEF base
    <2>4. CutTo(span, m, 0, base)
        BY <2>2, <2>3 DEF CutTo
    <2> QED
        BY <2>1, <2>4
<1>8. ASSUME NEW i \in T PROVE i + 1 \in T
    <2> SUFFICES ASSUME i + 1 <= n PROVE CutTo(span, m, i + 1, G[i + 1])
        OBVIOUS
    <2>1. i \in Nat /\ i <= n /\ i + 1 \in 0 .. n /\ i + 1 # 0 /\ (i + 1) - 1 = i
          /\ i + 1 \in 1 .. Len(m)
        BY <1>1
    <2>2. CutTo(span, m, i, G[i]) /\ G[i + 1] = Cut(G[i], m[i + 1])
        BY <1>6, <2>1
    <2> QED
        BY <2>1, <2>2, CutStep
<1>9. T = Nat
    <2>1. T \in SUBSET Nat
        OBVIOUS
    <2> HIDE DEF T
    <2> QED
        BY <1>7, <1>8, <2>1, SetInduction
<1> QED
    BY <1>1, <1>5, <1>9

-----------------------------------------------------------------------------
(***************************************************************************)
(* The catalogue                                                           *)
(***************************************************************************)

\* What is left of the span when the gaps are subtracted: exactly the moments
\* that no gap holds, in ascending pieces that do not touch.
LEMMA SubtractGapsExact ==
    ASSUME NEW span, span \in [start: Int, end: Int], span.start < span.end,
           NEW known \in SUBSET [start: Int, end: Int], IsFiniteSet(known),
           NEW r, r = SubtractGaps(span, known)
    PROVE  /\ Chain(span, r)
           /\ \A t \in Int : HoldsMoment(r, t) <=> Within(span, t) /\ \A g \in known : ~Within(g, t)
<1> DEFINE c == Clipped(span, known)
           m == MergedGaps(c)
           end == CutGaps(span, m)
           n == Len(m)
           p == Interval(end.cursor, span.end)
<1>1. span.start \in Int /\ span.end \in Int /\ span.start <= span.end
    OBVIOUS
<1>2. /\ StartsAscend(span, c)
      /\ \A t \in Int : Within(span, t) => (HoldsMoment(c, t) <=> \E g \in known : Within(g, t))
    BY <1>1, ClippedIs
<1>3. r = IF end.cursor < span.end THEN Append(end.pieces, p) ELSE end.pieces
    BY DEF SubtractGaps
<1> HIDE DEF c
<1>4. Chain(span, m) /\ \A t \in Int : HoldsMoment(m, t) <=> HoldsMoment(c, t)
    BY <1>2, MergedGapsAre
<1> HIDE DEF m
<1>5. CutTo(span, m, n, end)
    BY <1>1, <1>4, CutGapsAre
<1> HIDE DEF end
<1>6. n \in Nat /\ \A k \in 1 .. n : /\ m[k].start \in Int /\ m[k].end \in Int
                                     /\ m[k].start < m[k].end /\ span.start <= m[k].start
    BY <1>4, ChainFacts
<1>7. /\ end.cursor = IF n = 0 THEN span.start ELSE m[n].end
      /\ end.cursor \in Int /\ span.start <= end.cursor /\ end.cursor <= span.end
      /\ Chain(span, end.pieces)
      /\ \A k \in 1 .. Len(end.pieces) : IF n = 0 THEN FALSE ELSE end.pieces[k].end < end.cursor
      /\ \A t \in Int : HoldsMoment(end.pieces, t)
            <=> span.start <= t /\ t < end.cursor /\ \A k \in 1 .. n : ~Within(m[k], t)
    BY <1>5 DEF CutTo
\* From the cursor on there is no gap.
<1>8. ASSUME NEW t \in Int, end.cursor <= t, NEW k \in 1 .. n PROVE ~Within(m[k], t)
    <2>1. n # 0 /\ n \in 1 .. n /\ (k = n \/ k < n)
        BY <1>6
    <2>2. k < n => m[k].end < m[n].start
        BY <1>4, <2>1, ChainFacts
    <2>3. m[k].end <= t
        BY <1>6, <1>7, <1>8, <2>1, <2>2
    <2> QED
        BY <1>6, <2>3 DEF Within
<1>9. ASSUME NEW t \in Int
      PROVE  Within(span, t) /\ (\A g \in known : ~Within(g, t))
                <=> span.start <= t /\ t < span.end /\ \A k \in 1 .. n : ~Within(m[k], t)
    <2>1. Within(span, t) <=> span.start <= t /\ t < span.end
        BY DEF Within
    <2>2. HoldsMoment(m, t) <=> \E k \in 1 .. n : Within(m[k], t)
        BY DEF HoldsMoment
    <2> QED
        BY <1>2, <1>4, <2>1, <2>2
<1> HIDE DEF n, p
<1>10. CASE end.cursor < span.end
    <2>1. p.start = end.cursor /\ p.end = span.end /\ p \in Piece(span)
        <3>1. p = [start |-> end.cursor, end |-> span.end]
            BY DEF p, Interval
        <3> QED
            BY <1>1, <1>7, <1>10, <3>1 DEF Piece
    <2>2. \A k \in 1 .. Len(end.pieces) : end.pieces[k].end < p.start
        BY <1>7, <2>1
    <2>3. r = Append(end.pieces, p)
        BY <1>3, <1>10
    <2>4. Chain(span, r)
        BY <1>7, <2>1, <2>2, <2>3, ChainAppend
    <2>5. \A t : HoldsMoment(r, t) <=> HoldsMoment(end.pieces, t) \/ Within(p, t)
        BY <1>7, <2>1, <2>2, <2>3, ChainAppend
    <2>6. ASSUME NEW t \in Int
          PROVE  HoldsMoment(r, t) <=> Within(span, t) /\ \A g \in known : ~Within(g, t)
        <3>1. Within(p, t) <=> end.cursor <= t /\ t < span.end
            BY <2>1 DEF Within
        <3>2. CASE t < end.cursor
            BY <1>1, <1>7, <1>9, <2>5, <3>1, <3>2
        <3>3. CASE end.cursor <= t
            BY <1>1, <1>7, <1>8, <1>9, <2>5, <3>1, <3>3
        <3> QED
            BY <1>7, <3>2, <3>3
    <2> QED
        BY <2>4, <2>6
<1>11. CASE ~(end.cursor < span.end)
    <2>1. r = end.pieces /\ end.cursor = span.end
        BY <1>1, <1>3, <1>7, <1>11
    <2> QED
        BY <1>7, <1>9, <2>1
<1> QED
    BY <1>10, <1>11

LEMMA SegmentsAre ==
    ASSUME NEW span, span \in [start: Int, end: Int], span.start < span.end,
           NEW known \in SUBSET [start: Int, end: Int], IsFiniteSet(known),
           NEW status, NEW S,
           S = Segments([status |-> status, span |-> span, gaps |-> known])
    PROVE  /\ S \in SUBSET Piece(span)
           /\ \A s, r \in S : s = r \/ s.end < r.start \/ r.end < s.start
           /\ status \in {"VALID", "DEGRADED"} => \A t \in Int :
                (\E s \in S : Within(s, t)) <=> Within(span, t) /\ \A g \in known : ~Within(g, t)
<1> DEFINE q == SubtractGaps(span, known)
<1>1. S = IF status \in {"VALID", "DEGRADED"} THEN {q[i] : i \in DOMAIN q} ELSE {}
    BY DEF Segments, ToSet
<1>2. /\ Chain(span, q)
      /\ \A t \in Int : HoldsMoment(q, t) <=> Within(span, t) /\ \A g \in known : ~Within(g, t)
    BY SubtractGapsExact
<1> HIDE DEF q
<1>3. /\ Len(q) \in Nat /\ DOMAIN q = 1 .. Len(q)
      /\ \A i \in 1 .. Len(q) : q[i] \in Piece(span)
      /\ \A i, j \in 1 .. Len(q) : i < j => q[i].end < q[j].start
    BY <1>2, ChainFacts
<1>4. CASE status \notin {"VALID", "DEGRADED"}
    BY <1>1, <1>4
<1>5. CASE status \in {"VALID", "DEGRADED"}
    <2>1. S = {q[i] : i \in 1 .. Len(q)}
        BY <1>1, <1>3, <1>5
    <2>2. S \in SUBSET Piece(span)
        BY <1>3, <2>1
    <2>3. ASSUME NEW s \in S, NEW r \in S PROVE s = r \/ s.end < r.start \/ r.end < s.start
        <3>1. PICK i \in 1 .. Len(q) : s = q[i]
            BY <2>1
        <3>2. PICK j \in 1 .. Len(q) : r = q[j]
            BY <2>1
        <3>3. i = j \/ i < j \/ j < i
            BY <1>3
        <3> QED
            BY <1>3, <3>1, <3>2, <3>3
    <2>4. \A t : (\E s \in S : Within(s, t)) <=> HoldsMoment(q, t)
        BY <2>1 DEF HoldsMoment
    <2> QED
        BY <1>2, <2>2, <2>3, <2>4
<1> QED
    BY <1>4, <1>5

\* The state: the gaps declared so far are known ones.
DatasetInv == gaps \in SUBSET KnownGap /\ IsFiniteSet(gaps)

LEMMA DatasetInvariance == DatasetSpec => []DatasetInv
<1>1. DatasetInit => DatasetInv
    BY FS_EmptySet DEF DatasetInit, DatasetInv
<1>2. DatasetInv /\ [DatasetNext]_datasetVars => DatasetInv'
    <2> SUFFICES ASSUME DatasetInv, [DatasetNext]_datasetVars PROVE DatasetInv'
        OBVIOUS
    <2>1. ASSUME NEW row, CaptureRow(row) PROVE DatasetInv'
        BY <2>1 DEF CaptureRow, DatasetInv
    <2>2. ASSUME NEW g \in KnownGap, DeclareGap(g) PROVE DatasetInv'
        <3>1. gaps' = gaps \cup {g}
            BY <2>2 DEF DeclareGap
        <3>2. IsFiniteSet(gaps \cup {g})
            BY FS_AddElement DEF DatasetInv
        <3> QED
            BY <3>1, <3>2 DEF DatasetInv
    <2>3. ASSUME NEW row, NEW later, CaptureBookRow(row, later) PROVE DatasetInv'
        <3>1. \E x : CaptureRow(x)
            BY <2>3 DEF CaptureBookRow
        <3> QED
            BY <2>1, <3>1
    <2>4. CASE UNCHANGED datasetVars
        BY <2>4 DEF datasetVars, DatasetInv
    <2> QED
        BY <2>1, <2>2, <2>3, <2>4 DEF DatasetNext
<1> QED
    BY <1>1, <1>2, PTL DEF DatasetSpec

\* A moment belongs to a segment of the catalogue exactly when the manifest spans
\* it and no known gap holds it (CoverageCatalog.segments, _subtract_gaps).
LEMMA SegmentsAlwaysExact == DatasetInv => SegmentsExact
<1> SUFFICES ASSUME DatasetInv PROVE SegmentsExact
    OBVIOUS
<1> DEFINE S == Segments(ManifestOf("VALID"))
<1>1. /\ Span \in [start: Int, end: Int] /\ Span.start < Span.end
      /\ gaps \in SUBSET [start: Int, end: Int] /\ IsFiniteSet(gaps)
    BY FrameAssumption DEF DatasetInv
<1>2. S = Segments([status |-> "VALID", span |-> Span, gaps |-> gaps])
    BY DEF ManifestOf
<1> HIDE DEF S
<1>3. /\ S \in SUBSET Piece(Span)
      /\ \A s, r \in S : s = r \/ s.end < r.start \/ r.end < s.start
      /\ \A t \in Int :
            (\E s \in S : Within(s, t)) <=> Within(Span, t) /\ \A g \in gaps : ~Within(g, t)
    BY <1>1, <1>2, SegmentsAre
<1>4. \A s \in S : s.start < s.end
    BY <1>3 DEF Piece
<1>5. \A t \in Span.start - 1 .. Span.end : t \in Int
    BY <1>1
<1> QED
    BY <1>3, <1>4, <1>5 DEF SegmentsExact, S

\* eligible_windows and eligible_setups agree on every play start.
LEMMA WindowsAlwaysMatch == DatasetInv => WindowsMatchSetups
<1> SUFFICES ASSUME DatasetInv, NEW r \in Requirements,
                    NEW status \in {"VALID", "DEGRADED", "QUARANTINED"},
                    NEW t \in Span.start - 1 .. Span.end + 1
             PROVE  EligibleSetups(ManifestOf(status), r, t) # {}
                      <=> \E w \in EligibleWindows(ManifestOf(status), r) : w.start <= t /\ t <= w.end
    BY DEF WindowsMatchSetups
<1> DEFINE M == ManifestOf(status)
           S == Segments(M)
           window(s) == Interval(Earliest(s, r), s.end - r.duration)
           fits(s) == s.start <= t - r.warmup /\ s.end >= t + r.duration
<1>1. /\ Span \in [start: Int, end: Int] /\ Span.start < Span.end
      /\ gaps \in SUBSET [start: Int, end: Int] /\ IsFiniteSet(gaps)
      /\ r.warmup \in Int /\ r.duration \in Int
    BY FrameAssumption DEF DatasetInv
<1>2. t \in Int
    BY <1>1
<1>3. S = Segments([status |-> status, span |-> Span, gaps |-> gaps])
    BY DEF ManifestOf
<1>4. EligibleSetups(M, r, t) = {s \in S : MeetsPolicy(M, r) /\ fits(s)}
    BY DEF EligibleSetups
<1>5. EligibleWindows(M, r)
          = {w \in {window(s) : s \in S} : MeetsPolicy(M, r) /\ w.start <= w.end}
    BY DEF EligibleWindows
<1> HIDE DEF S, M
<1>6. \A s \in S : s.start \in Int /\ s.end \in Int
    <2>1. S \in SUBSET Piece(Span)
        BY <1>1, <1>3, SegmentsAre
    <2> QED
        BY <2>1 DEF Piece
<1>7. ASSUME NEW s \in S
      PROVE  fits(s) <=> LET w == window(s)
                         IN  w.start <= w.end /\ w.start <= t /\ t <= w.end
    <2>1. window(s).start = s.start + r.warmup /\ window(s).end = s.end - r.duration
        BY DEF Interval, Earliest
    <2> HIDE DEF window
    <2> QED
        BY <1>1, <1>2, <1>6, <2>1
<1> HIDE DEF window, fits
<1>8. ASSUME EligibleSetups(M, r, t) # {}
      PROVE  \E w \in EligibleWindows(M, r) : w.start <= t /\ t <= w.end
    <2>1. PICK s \in S : MeetsPolicy(M, r) /\ fits(s)
        BY <1>4, <1>8
    <2>2. window(s) \in EligibleWindows(M, r)
        BY <1>5, <1>7, <2>1
    <2> QED
        BY <1>7, <2>1, <2>2
<1>9. ASSUME NEW w \in EligibleWindows(M, r), w.start <= t, t <= w.end
      PROVE  EligibleSetups(M, r, t) # {}
    <2>1. PICK s \in S : w = window(s)
        BY <1>5
    <2>2. MeetsPolicy(M, r) /\ w.start <= w.end
        BY <1>5
    <2>3. s \in EligibleSetups(M, r, t)
        BY <1>4, <1>7, <1>9, <2>1, <2>2
    <2> QED
        BY <2>3
<1> QED
    BY <1>8, <1>9 DEF M

-----------------------------------------------------------------------------
(***************************************************************************)
(* Days and tiers                                                          *)
(***************************************************************************)

LEMMA FloorOfDays ==
    ASSUME NEW x \in Int
    PROVE  /\ x \div DayLength \in Int /\ DayLength * (x \div DayLength) <= x
           /\ x < DayLength * (x \div DayLength) + DayLength
<1>1. DayLength \in Nat \ {0}
    BY CalendarAssumption
<1> QED
    BY <1>1

\* A day that starts later starts a whole day later.
LEMMA DayApart ==
    ASSUME NEW a \in Int, NEW b \in Int, a < b
    PROVE  DayLength * a + DayLength <= DayLength * b
<1>1. DayLength \in Nat
    BY CalendarAssumption
<1>2. PICK d \in Nat : b = a + 1 + d
    <2>1. b - a - 1 \in Nat /\ b = a + 1 + (b - a - 1)
        OBVIOUS
    <2> QED
        BY <2>1
<1>3. DayLength * b = DayLength * a + DayLength + DayLength * d
    BY <1>1, <1>2
<1>4. DayLength * d \in Nat /\ DayLength * a \in Int
    BY <1>1
<1> QED
    BY <1>1, <1>3, <1>4

\* plan() asks for exactly the days that hold a moment of the request.
LEMMA PlannedDaysAre ==
    ASSUME NEW r, r.start \in Int, r.end \in Int, r.start < r.end
    PROVE  PlannedDays(r) = {t \div DayLength : t \in r.start .. r.end - 1}
<1> DEFINE first == r.start \div DayLength
           last == (r.end - 1) \div DayLength
<1>1. /\ DayLength \in Nat \ {0} /\ first \in Int /\ last \in Int
      /\ DayLength * first <= r.start /\ r.start < DayLength * first + DayLength
      /\ DayLength * last <= r.end - 1 /\ r.end - 1 < DayLength * last + DayLength
    <2>1. DayLength \in Nat \ {0} /\ r.end - 1 \in Int
        BY CalendarAssumption
    <2>2. /\ first \in Int /\ DayLength * first <= r.start
          /\ r.start < DayLength * first + DayLength
        BY FloorOfDays
    <2>3. /\ last \in Int /\ DayLength * last <= r.end - 1
          /\ r.end - 1 < DayLength * last + DayLength
        BY <2>1, FloorOfDays
    <2> QED
        BY <2>1, <2>2, <2>3
<1>2. PlannedDays(r) = first .. last
    BY DEF PlannedDays, FirstDay, LastDay
<1> HIDE DEF first, last
<1>3. ASSUME NEW t \in r.start .. r.end - 1 PROVE t \div DayLength \in first .. last
    <2> DEFINE d == t \div DayLength
    <2>1. /\ t \in Int /\ d \in Int /\ DayLength * d <= t /\ t < DayLength * d + DayLength
        BY FloorOfDays
    <2>2. \A a, b \in Int : a < b => DayLength * a + DayLength <= DayLength * b
        BY DayApart
    <2>3. DayLength * d \in Int /\ DayLength * first \in Int /\ DayLength * last \in Int
        BY <1>1, <2>1
    <2> HIDE DEF d
    <2>4. ~(d < first)
        <3> SUFFICES ASSUME d < first PROVE FALSE
            OBVIOUS
        <3>1. DayLength * d + DayLength <= DayLength * first
            BY <1>1, <2>1, <2>2
        <3> QED
            BY <1>1, <2>1, <2>3, <3>1
    <2>5. ~(last < d)
        <3> SUFFICES ASSUME last < d PROVE FALSE
            OBVIOUS
        <3>1. DayLength * last + DayLength <= DayLength * d
            BY <1>1, <2>1, <2>2
        <3> QED
            BY <1>1, <2>1, <2>3, <3>1
    <2>6. d \in first .. last
        BY <1>1, <2>1, <2>4, <2>5
    <2> QED
        BY <2>6 DEF d
<1>4. ASSUME NEW d \in first .. last PROVE \E t \in r.start .. r.end - 1 : t \div DayLength = d
    <2>1. CASE d = first
        <3>1. r.start \in r.start .. r.end - 1
            OBVIOUS
        <3> QED
            BY <2>1, <3>1 DEF first
    <2>2. CASE d # first
        <3> DEFINE t == DayLength * d
        <3>1. d \in Int /\ first < d /\ (d = last \/ d < last)
            BY <1>1, <2>2
        <3>2. DayLength * first + DayLength <= t
            BY <1>1, <3>1, DayApart
        <3>3. d < last => t + DayLength <= DayLength * last
            BY <1>1, <3>1, DayApart
        <3>4. t \in Int /\ DayLength * first \in Int /\ DayLength * last \in Int
            BY <1>1, <3>1
        <3>5. t \div DayLength = d
            BY <1>1, <3>1
        <3>6. d = last => t = DayLength * last
            OBVIOUS
        <3> HIDE DEF t
        <3>7. t \in r.start .. r.end - 1
            BY <1>1, <3>1, <3>2, <3>3, <3>4, <3>6
        <3> QED
            BY <3>5, <3>7
    <2> QED
        BY <2>1, <2>2
<1> QED
    BY <1>2, <1>3, <1>4

\* plan() asks for the days the request touches and refuses none of the data a
\* claimed tier rests on (capabilities_for_interval, TardisAdapter.plan).
LEMMA TierAlwaysPlannable == TierIsPlannable
<1> SUFFICES ASSUME NEW e \in Entitlements, NEW r \in Requests
             PROVE  LET tier == TierFor(e, FirstDay(r), LastDay(r))
                        plan(data_type) == Plannable(e, data_type, r)
                    IN  /\ PlannedDays(r) = {t \div DayLength : t \in r.start .. r.end - 1}
                        /\ tier = "F2" => plan("incremental_book_L2")
                        /\ tier = "F1" => plan("trades") /\ (plan("quotes") \/ plan("book_ticker"))
                        /\ tier = "F0T" => plan("trades")
                        /\ tier = "none" => ~plan("trades") /\ ~plan("incremental_book_L2")
                        /\ e.sample_only /\ tier # "none" => PlannedDays(r) \subseteq MonthStart
    BY Zenon DEF TierIsPlannable
<1> DEFINE tier == TierFor(e, FirstDay(r), LastDay(r))
           plan(data_type) == Plannable(e, data_type, r)
           has(data_type) == Complete(e, data_type, FirstDay(r), LastDay(r))
           days == PlannedDays(r)
<1>1. r.start \in Nat /\ r.end \in Nat /\ r.start < r.end /\ r.start >= 0
    BY FrameAssumption
<1>2. days = {t \div DayLength : t \in r.start .. r.end - 1}
    BY <1>1, PlannedDaysAre
<1>3. \A data_type : plan(data_type) <=> has(data_type)
    BY <1>1 DEF Plannable, Complete, PlannedDays
<1>4. ASSUME NEW data_type, has(data_type), e.sample_only PROVE days \subseteq MonthStart
    BY <1>4 DEF Complete, Permits, PlannedDays
<1>5. tier = CASE has("incremental_book_L2") -> "F2"
               [] ~has("incremental_book_L2") /\ has("trades")
                    /\ (has("quotes") \/ has("book_ticker")) -> "F1"
               [] ~has("incremental_book_L2") /\ has("trades")
                    /\ ~(has("quotes") \/ has("book_ticker")) -> "F0T"
               [] OTHER -> "none"
    BY DEF TierFor
<1> HIDE DEF tier, plan, has, days
<1>6. /\ tier = "F2" => has("incremental_book_L2")
      /\ tier = "F1" => has("trades") /\ (has("quotes") \/ has("book_ticker"))
      /\ tier = "F0T" => has("trades")
      /\ tier = "none" => ~has("trades") /\ ~has("incremental_book_L2")
      /\ tier # "none" => has("trades") \/ has("incremental_book_L2")
    BY <1>5
<1>7. e.sample_only /\ tier # "none" => days \subseteq MonthStart
    BY <1>4, <1>6
<1> QED
    BY <1>2, <1>3, <1>6, <1>7 DEF tier, plan, days

\* What the catalogue offers is what the manifest covers, whatever gaps it
\* declares, and what a provider claims to cover can be fetched.
THEOREM CatalogueAlwaysExact == DatasetSpec => []CatalogueExact
<1>1. DatasetInv => CatalogueExact
    BY SegmentsAlwaysExact, WindowsAlwaysMatch, TierAlwaysPlannable DEF CatalogueExact
<1> QED
    BY <1>1, DatasetInvariance, PTL

\* The aggregator and the catalogue agree on what is covered: of the buckets that
\* do not start before the manifest, exactly those that lie in one gap-free
\* segment carry neither the gap nor the coverage flag (aggregate_trades,
\* CoverageCatalog.segments).
Agree(w, cal) ==
    BarFlags(w, cal, Span.end, gaps) \subseteq {"SESSION_HALT"}
       <=> \E s \in Segments(ManifestOf("VALID")) : s.start <= w.start /\ w.end <= s.end
FlagsAgree ==
    \A cal \in Calendars : \A w \in [start: Int, end: Int] :
       w.start < w.end /\ Span.start <= w.start => Agree(w, cal)

LEMMA FlagsAgreeInv == DatasetInv => FlagsAgree
<1> SUFFICES ASSUME DatasetInv, NEW cal \in Calendars, NEW w \in [start: Int, end: Int],
                    w.start < w.end, Span.start <= w.start
             PROVE  Agree(w, cal)
    BY DEF FlagsAgree
<1> DEFINE S == Segments(ManifestOf("VALID"))
           clear == w.end <= Span.end /\ \A g \in gaps : ~Overlaps(g, w)
<1>1. /\ Span \in [start: Int, end: Int] /\ Span.start < Span.end
      /\ Span.start \in Int /\ Span.end \in Int /\ w.start \in Int /\ w.end \in Int
      /\ gaps \in SUBSET [start: Int, end: Int] /\ IsFiniteSet(gaps)
      /\ \A g \in gaps : g.start \in Int /\ g.end \in Int /\ g.start < g.end
    BY FrameAssumption DEF DatasetInv
<1>2. S = Segments([status |-> "VALID", span |-> Span, gaps |-> gaps])
    BY DEF ManifestOf
<1> HIDE DEF S
<1>3. /\ \A s \in S : /\ s.start \in Int /\ s.end \in Int /\ s.start < s.end
                      /\ Span.start <= s.start /\ s.end <= Span.end
      /\ \A s, r \in S : s = r \/ s.end < r.start \/ r.end < s.start
      /\ \A t \in Int :
            (\E s \in S : Within(s, t)) <=> Within(Span, t) /\ \A g \in gaps : ~Within(g, t)
    BY <1>1, <1>2, SegmentsAre DEF Piece
<1>4. BarFlags(w, cal, Span.end, gaps) \subseteq {"SESSION_HALT"} <=> clear
    <2>1. "INCOMPLETE_COVERAGE" \in BarFlags(w, cal, Span.end, gaps) <=> w.end > Span.end
        BY DEF BarFlags
    <2>2. "KNOWN_GAP" \in BarFlags(w, cal, Span.end, gaps) <=> \E g \in gaps : Overlaps(g, w)
        BY DEF BarFlags
    <2>3. BarFlags(w, cal, Span.end, gaps)
             \subseteq {"INCOMPLETE_COVERAGE", "KNOWN_GAP", "SESSION_HALT"}
        BY DEF BarFlags
    <2>4. w.end > Span.end <=> ~(w.end <= Span.end)
        BY <1>1
    <2> QED
        BY <2>1, <2>2, <2>3, <2>4
<1>5. ASSUME clear PROVE \E s \in S : s.start <= w.start /\ w.end <= s.end
    <2>1. ASSUME NEW t \in Int, w.start <= t, t < w.end PROVE \E s \in S : Within(s, t)
        <3>1. Within(Span, t)
            BY <1>1, <1>5, <2>1 DEF Within
        <3>2. ASSUME NEW g \in gaps, Within(g, t) PROVE FALSE
            <4>1. g.start <= t /\ t < g.end
                BY <3>2 DEF Within
            <4>2. g.start < w.end /\ w.start < g.end
                BY <1>1, <2>1, <4>1
            <4> QED
                BY <1>5, <4>2 DEF Overlaps
        <3> QED
            BY <1>3, <3>1, <3>2
    <2>2. PICK s \in S : Within(s, w.start)
        BY <1>1, <2>1
    <2>3. s.start <= w.start /\ w.start < s.end /\ s.end \in Int
        BY <1>3, <2>2 DEF Within
    <2>4. ASSUME s.end < w.end PROVE FALSE
        <3>1. PICK r \in S : Within(r, s.end)
            BY <1>1, <2>1, <2>3, <2>4
        <3>2. r.start <= s.end /\ s.end < r.end /\ s.start < s.end
            BY <1>3, <3>1 DEF Within
        <3>3. r.start \in Int /\ r.end \in Int /\ s.start \in Int
              /\ (s = r \/ s.end < r.start \/ r.end < s.start)
            BY <1>3
        <3> QED
            BY <2>3, <3>2, <3>3
    <2> QED
        BY <1>1, <2>3, <2>4
<1>6. ASSUME NEW s \in S, s.start <= w.start, w.end <= s.end PROVE clear
    <2>1. w.end <= Span.end
        BY <1>1, <1>3, <1>6
    <2>2. ASSUME NEW g \in gaps, Overlaps(g, w) PROVE FALSE
        <3>1. g.start < w.end /\ w.start < g.end
            BY <2>2 DEF Overlaps
        <3> DEFINE t == IF g.start <= w.start THEN w.start ELSE g.start
        <3>2. t \in Int /\ Within(g, t) /\ Within(s, t)
            BY <1>1, <1>3, <1>6, <3>1 DEF Within
        <3> QED
            BY <1>3, <3>2
    <2> QED
        BY <2>1, <2>2
<1> QED
    BY <1>4, <1>5, <1>6 DEF Agree, S

THEOREM FlagsAlwaysAgree == DatasetSpec => []FlagsAgree
    BY FlagsAgreeInv, DatasetInvariance, PTL

=============================================================================
