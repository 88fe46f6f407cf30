-------------------------- MODULE CoordinatorProofs --------------------------
(***************************************************************************)
(* Proofs about ReplayCoordinator, for every ordered source, batch size    *)
(* and number of workers, on top of SessionsProofs.                        *)
(***************************************************************************)
EXTENDS ReplayCoordinator, SessionsProofs

-----------------------------------------------------------------------------
(***************************************************************************)
(* The source                                                              *)
(***************************************************************************)

LEMMA SourceTyped ==
    ASSUME NEW m \in Manifest
    PROVE  /\ Source[m] \in Seq(Item) /\ Len(Source[m]) \in Nat
           /\ DOMAIN Source[m] = 1 .. Len(Source[m])
           /\ \A k \in 1 .. Len(Source[m]) :
                 /\ Source[m][k] \in Item
                 /\ Source[m][k].seq \in Nat /\ Source[m][k].ts \in Int
<1>1. Source[m] \in Seq(Item)
  BY CoordinatorAssumption
<1>2. /\ Len(Source[m]) \in Nat /\ DOMAIN Source[m] = 1 .. Len(Source[m])
      /\ \A k \in 1 .. Len(Source[m]) : Source[m][k] \in Item
  BY <1>1
<1> QED
  BY <1>1, <1>2 DEF Item

\* No sequence number is smaller than the place of its item allows.
LEMMA SourceDense ==
    ASSUME NEW m \in Manifest
    PROVE  \A k \in 1 .. Len(Source[m]) : Source[m][k].seq >= k - 1
<1> DEFINE S == {i \in Nat : i + 1 <= Len(Source[m]) => Source[m][i + 1].seq >= i}
<1>1. /\ Len(Source[m]) \in Nat
      /\ DOMAIN Source[m] = 1 .. Len(Source[m])
      /\ \A k \in 1 .. Len(Source[m]) : Source[m][k].seq \in Nat
  BY SourceTyped
<1>2. 0 \in S
  BY <1>1
<1>3. ASSUME NEW i \in S PROVE i + 1 \in S
  <2> SUFFICES ASSUME i + 1 + 1 <= Len(Source[m])
               PROVE  Source[m][i + 1 + 1].seq >= i + 1
    OBVIOUS
  <2>1. i + 1 \in 1 .. Len(Source[m]) /\ i + 1 + 1 \in 1 .. Len(Source[m]) /\ i + 1 < i + 1 + 1
    BY <1>1
  <2>2. Source[m][i + 1].seq >= i
    BY <2>1
  <2>3. Source[m][i + 1].seq < Source[m][i + 1 + 1].seq
    BY <1>1, <2>1, SourceAssumption
  <2> QED
    BY <1>1, <2>1, <2>2, <2>3
<1>4. S \in SUBSET Nat
  OBVIOUS
<1>5. S = Nat
  <2> HIDE DEF S
  <2> QED
    BY <1>2, <1>3, <1>4, SetInduction
<1> SUFFICES ASSUME NEW k \in 1 .. Len(Source[m]) PROVE Source[m][k].seq >= k - 1
  OBVIOUS
<1>6. k - 1 \in Nat /\ (k - 1) + 1 = k /\ k <= Len(Source[m])
  BY <1>1
<1>7. k - 1 \in S
  BY <1>5, <1>6
<1> QED
  BY <1>6, <1>7

\* A batch has nothing but what next_after looks for ...
OnlyWanted(m, after, through, batch) ==
    \A j \in 1 .. Len(batch) : \E k \in 1 .. Len(Source[m]) :
        batch[j] = Source[m][k] /\ Source[m][k].seq > after /\ Source[m][k].ts <= through

\* ... and all of it.
AllWanted(m, after, through, batch) ==
    \A k \in 1 .. Len(Source[m]) :
        Source[m][k].seq > after /\ Source[m][k].ts <= through
           => \E j \in 1 .. Len(batch) : batch[j] = Source[m][k]

LEMMA WantedRange ==
    ASSUME NEW m \in Manifest, NEW after \in Int, NEW through \in Int, NEW T,
           \A i \in 1 .. Len(Source[m]) : Source[m][i] \in T <=>
              Source[m][i].seq > after /\ Source[m][i].ts <= through,
           NEW wanted, wanted = SelectIn(Source[m], T)
    PROVE  /\ wanted \in Seq(Item)
           /\ OnlyWanted(m, after, through, wanted)
           /\ AllWanted(m, after, through, wanted)
<1>1. Source[m] \in Seq(Item)
  BY SourceTyped
<1>2. wanted \in Seq(Item) /\ Selected(wanted, Source[m], T)
  BY <1>1, SelectInRange
<1> QED
  BY <1>2 DEF Selected, OnlyWanted, AllWanted

-----------------------------------------------------------------------------
(***************************************************************************)
(* Replaying                                                               *)
(***************************************************************************)

\* A simulator state that applied the partition from its start, each item once
\* and in order, with no sequence number left out.
Prefix(m, state) ==
    /\ state \in Seq(Item)
    /\ Len(state) <= Len(Source[m])
    /\ \A k \in 1 .. Len(state) : state[k] = Source[m][k] /\ state[k].seq = k - 1

\* It applied nothing after time t ...
Within(state, t) == \A k \in 1 .. Len(state) : state[k].ts <= t

\* ... and everything up to t.
Drained(m, n, t) == \A k \in 1 .. Len(Source[m]) : k > n => Source[m][k].ts > t

\* Where a replay towards `through` stands.
Replayed(m, call, through) ==
    /\ Prefix(m, call.state)
    /\ Within(call.state, through)
    /\ call.after = Len(call.state) - 1

\* A checkpoint that an uninterrupted replay to its time would have reached.
Resumes(m, c) ==
    /\ c \in Checkpoint
    /\ Prefix(m, c.simulator)
    /\ Within(c.simulator, c.time)
    /\ Drained(m, Len(c.simulator), c.time)
    /\ c.source_event_seq = Len(c.simulator) - 1

\* Two checkpoints of the same time are the same.
LEMMA UniqueResume ==
    ASSUME NEW m \in Manifest, NEW c, NEW d, Resumes(m, c), Resumes(m, d),
           c.time = d.time
    PROVE  c = d
<1>1. ASSUME NEW x, NEW y, Resumes(m, x), Resumes(m, y), x.time = y.time
      PROVE  ~(Len(x.simulator) < Len(y.simulator))
  <2> SUFFICES ASSUME Len(x.simulator) < Len(y.simulator) PROVE FALSE
    OBVIOUS
  <2> DEFINE k == Len(x.simulator) + 1
  <2>1. /\ Len(x.simulator) \in Nat /\ Len(y.simulator) \in Nat
        /\ Len(y.simulator) <= Len(Source[m]) /\ Len(Source[m]) \in Nat
    BY <1>1, SourceTyped DEF Resumes, Prefix
  <2>2. k \in 1 .. Len(y.simulator) /\ k \in 1 .. Len(Source[m]) /\ k > Len(x.simulator)
    BY <2>1
  <2>3. Source[m][k].ts > x.time
    BY <1>1, <2>2 DEF Resumes, Drained
  <2>4. Source[m][k].ts <= y.time
    BY <1>1, <2>2 DEF Resumes, Within, Prefix
  <2>5. Source[m][k].ts \in Int /\ x.time \in Int
    BY <1>1, <2>2, SourceTyped DEF Resumes, Checkpoint
  <2> QED
    BY <1>1, <2>3, <2>4, <2>5
<1>2. /\ c \in Checkpoint /\ d \in Checkpoint
      /\ c.simulator \in Seq(Item) /\ d.simulator \in Seq(Item)
      /\ Len(c.simulator) \in Nat /\ Len(d.simulator) \in Nat
  BY DEF Resumes, Prefix
<1>3. Len(c.simulator) = Len(d.simulator)
  BY <1>1, <1>2
<1>4. \A k \in 1 .. Len(c.simulator) : c.simulator[k] = d.simulator[k]
  BY <1>3 DEF Resumes, Prefix
<1>5. c.simulator = d.simulator
  BY <1>2, <1>3, <1>4
<1>6. c.source_event_seq = d.source_event_seq
  BY <1>3 DEF Resumes
<1> QED
  BY <1>2, <1>5, <1>6 DEF Checkpoint

\* The items of a batch have the places after n.
Placed(m, n, batch) ==
    \A j \in 1 .. Len(batch) :
        /\ n + j \in 1 .. Len(Source[m])
        /\ batch[j] = Source[m][n + j] /\ batch[j].seq = n + j - 1

\* A valid batch continues the replay where it stands.
LEMMA BatchPlaces ==
    ASSUME NEW m \in Manifest, NEW n \in Nat, n <= Len(Source[m]),
           \A k \in 1 .. n : Source[m][k].seq = k - 1,
           NEW batch \in Seq(Item), NEW after, NEW through,
           OnlyWanted(m, after, through, batch),
           Len(batch) > 0 => batch[1].seq = n,
           \A j \in 1 .. Len(batch) : j > 1 => batch[j].seq = batch[j - 1].seq + 1
    PROVE  Placed(m, n, batch)
<1> DEFINE At(j) == /\ n + j \in 1 .. Len(Source[m])
                    /\ batch[j] = Source[m][n + j] /\ batch[j].seq = n + j - 1
           S == {i \in Nat : i + 1 <= Len(batch) => At(i + 1)}
<1>1. /\ Len(Source[m]) \in Nat /\ Len(batch) \in Nat
      /\ DOMAIN Source[m] = 1 .. Len(Source[m])
      /\ \A k \in 1 .. Len(Source[m]) : Source[m][k].seq \in Nat
  BY SourceTyped
\* An item whose number follows that of place p is at place p + 1.
<1>2. ASSUME NEW p \in Nat, p <= Len(Source[m]), p > 0 => Source[m][p].seq = p - 1,
             NEW k \in 1 .. Len(Source[m]), Source[m][k].seq = p
      PROVE  k = p + 1
  <2>1. k <= p + 1
    BY <1>1, <1>2, SourceDense
  <2>2. ASSUME k <= p PROVE FALSE
    <3>1. p \in 1 .. Len(Source[m]) /\ Source[m][p].seq = p - 1
      BY <1>1, <1>2, <2>2
    <3>2. CASE k = p
      BY <1>2, <3>1, <3>2
    <3>3. CASE k < p
      <4>1. Source[m][k].seq < Source[m][p].seq
        BY <1>1, <3>1, <3>3, SourceAssumption
      <4> QED
        BY <1>1, <1>2, <3>1, <4>1
    <3> QED
      BY <1>1, <2>2, <3>2, <3>3
  <2> QED
    BY <1>1, <2>1, <2>2
<1>3. 0 \in S
  <2> SUFFICES ASSUME 1 <= Len(batch) PROVE At(1)
    OBVIOUS
  <2>1. PICK k \in 1 .. Len(Source[m]) : batch[1] = Source[m][k]
    BY <1>1 DEF OnlyWanted
  <2>2. n > 0 => Source[m][n].seq = n - 1
    OBVIOUS
  <2>3. k = n + 1
    BY <1>1, <1>2, <2>1, <2>2
  <2> QED
    BY <1>1, <2>1, <2>3
<1>4. ASSUME NEW i \in S PROVE i + 1 \in S
  <2> SUFFICES ASSUME i + 1 + 1 <= Len(batch) PROVE At(i + 1 + 1)
    OBVIOUS
  <2>1. i \in Nat /\ i + 1 \in 1 .. Len(batch) /\ i + 1 + 1 \in 1 .. Len(batch)
    BY <1>1
  <2>2. /\ n + (i + 1) \in 1 .. Len(Source[m])
        /\ batch[i + 1] = Source[m][n + (i + 1)] /\ batch[i + 1].seq = n + (i + 1) - 1
    BY <2>1
  <2>3. batch[i + 1 + 1].seq = n + (i + 1)
    <3>1. (i + 1 + 1) - 1 = i + 1 /\ i + 1 + 1 > 1
      BY <2>1
    <3>2. batch[i + 1 + 1].seq = batch[i + 1].seq + 1
      BY <2>1, <3>1
    <3> QED
      BY <2>1, <2>2, <3>2
  <2>4. PICK k \in 1 .. Len(Source[m]) : batch[i + 1 + 1] = Source[m][k]
    BY <2>1 DEF OnlyWanted
  <2>5. k = n + (i + 1) + 1
    BY <1>1, <1>2, <2>1, <2>2, <2>3, <2>4
  <2> QED
    BY <1>1, <2>1, <2>3, <2>4, <2>5
<1>5. S \in SUBSET Nat
  OBVIOUS
<1>6. S = Nat
  <2> HIDE DEF S
  <2> QED
    BY <1>3, <1>4, <1>5, SetInduction
<1> SUFFICES ASSUME NEW j \in 1 .. Len(batch) PROVE At(j)
  BY DEF Placed
<1>7. j - 1 \in Nat /\ (j - 1) + 1 = j /\ j <= Len(batch)
  BY <1>1
<1>8. j - 1 \in S
  BY <1>6, <1>7
<1> QED
  BY <1>7, <1>8

\* What a batch after the first n items leaves applied: again a prefix of the
\* partition, and all of it up to `through` when the batch had all of it.
Follows(m, n, through, batch, new) ==
    /\ Prefix(m, new) /\ Within(new, through)
    /\ Len(batch) > 0 => batch[Len(batch)].seq = Len(new) - 1
    /\ Len(batch) = 0 => Len(new) = n
    /\ AllWanted(m, n - 1, through, batch) => Drained(m, Len(new), through)

LEMMA BatchExtends ==
    ASSUME NEW m \in Manifest, NEW through \in Int,
           NEW state, Prefix(m, state), Within(state, through),
           NEW n, n = Len(state),
           NEW batch \in Seq(Item), OnlyWanted(m, n - 1, through, batch),
           Placed(m, n, batch),
           NEW new, new = state \o batch
    PROVE  Follows(m, n, through, batch, new)
<1>2. /\ state \in Seq(Item) /\ n \in Nat /\ n <= Len(Source[m])
      /\ \A k \in 1 .. n : state[k] = Source[m][k] /\ state[k].seq = k - 1
      /\ \A k \in 1 .. n : state[k].ts <= through
  BY DEF Prefix, Within
<1>3. PICK b \in Nat : b = Len(batch)
  OBVIOUS
<1>4. \A j \in 1 .. b : /\ n + j \in 1 .. Len(Source[m])
                        /\ batch[j] = Source[m][n + j] /\ batch[j].seq = n + j - 1
  BY <1>3 DEF Placed
<1>5. \A j \in 1 .. b : batch[j].ts <= through
  BY <1>3 DEF OnlyWanted
<1>6. /\ new \in Seq(Item) /\ Len(new) = n + b
      /\ \A k \in 1 .. n : new[k] = state[k]
      /\ \A k \in 1 .. n + b : k > n => new[k] = batch[k - n]
  BY <1>2, <1>3
<1>7. Len(Source[m]) \in Nat
  BY SourceTyped
<1>8. Len(new) <= Len(Source[m])
  <2>1. CASE b = 0
    BY <1>2, <1>6, <2>1
  <2>2. CASE b # 0
    <3>1. b \in 1 .. b
      BY <1>3, <2>2
    <3>2. n + b \in 1 .. Len(Source[m])
      BY <1>4, <3>1
    <3> QED
      BY <1>6, <1>7, <3>2
  <2> QED
    BY <2>1, <2>2
<1>9. ASSUME NEW k \in 1 .. n + b
      PROVE  /\ new[k] = Source[m][k] /\ new[k].seq = k - 1
             /\ new[k].ts <= through
  <2>1. CASE k <= n
    <3>1. k \in 1 .. n
      BY <1>2, <2>1
    <3> QED
      BY <1>2, <1>6, <3>1
  <2>2. CASE k > n
    <3>1. PICK j \in 1 .. b : j = k - n /\ n + j = k
      BY <1>2, <1>3, <2>2
    <3>2. new[k] = batch[j]
      BY <1>6, <2>2, <3>1
    <3>3. batch[j] = Source[m][k] /\ batch[j].seq = k - 1 /\ batch[j].ts <= through
      BY <1>4, <1>5, <3>1
    <3> QED
      BY <3>2, <3>3
  <2> QED
    BY <1>2, <1>3, <2>1, <2>2
<1>10. Prefix(m, new) /\ Within(new, through)
  BY <1>6, <1>8, <1>9 DEF Prefix, Within
<1>11. b > 0 => batch[b].seq = Len(new) - 1
  <2> SUFFICES ASSUME b > 0 PROVE batch[b].seq = n + b - 1
    BY <1>6
  <2>1. b \in 1 .. b
    BY <1>3
  <2> QED
    BY <1>4, <2>1
<1>12. ASSUME AllWanted(m, n - 1, through, batch),
              NEW k \in 1 .. Len(Source[m]), k > n + b
       PROVE  Source[m][k].ts > through
  <2>1. Source[m][k].seq \in Nat /\ Source[m][k].ts \in Int /\ k \in Nat
    BY SourceTyped
  <2> SUFFICES ASSUME Source[m][k].ts <= through PROVE FALSE
    BY <2>1
  <2>2. Source[m][k].seq >= k - 1
    BY SourceDense
  <2>3. Source[m][k].seq > n - 1
    BY <1>2, <1>3, <1>12, <2>1, <2>2
  <2>4. PICK j \in 1 .. b : batch[j] = Source[m][k]
    BY <1>3, <1>12, <2>3 DEF AllWanted
  <2>5. /\ n + j \in 1 .. Len(Source[m]) /\ n + j < k
        /\ Source[m][n + j] = Source[m][k]
    BY <1>2, <1>3, <1>4, <1>12, <2>1, <2>4
  <2>6. DOMAIN Source[m] = 1 .. Len(Source[m])
    BY SourceTyped
  <2>7. Source[m][n + j].seq < Source[m][k].seq
    BY <2>5, <2>6, SourceAssumption
  <2> QED
    BY <2>1, <2>5, <2>7
<1>13. AllWanted(m, n - 1, through, batch) => Drained(m, Len(new), through)
  BY <1>6, <1>12 DEF Drained
<1> QED
  BY <1>2, <1>3, <1>6, <1>10, <1>11, <1>13 DEF Follows

\* What next_after returns: wanted items, all of them when the batch is short.
LEMMA BatchRange ==
    ASSUME NEW m \in Manifest, NEW after \in Int, NEW through \in Int,
           NEW batch, batch = NextAfter(m, after, through)
    PROVE  /\ batch \in Seq(Item)
           /\ OnlyWanted(m, after, through, batch)
           /\ Exhausted(batch) => AllWanted(m, after, through, batch)
<1>1. PICK T : T = {i \in Range(Source[m]) : i.seq > after /\ i.ts <= through}
  OBVIOUS
<1>2. PICK wanted : wanted = SelectIn(Source[m], T)
  OBVIOUS
<1>3. \A i \in 1 .. Len(Source[m]) : Source[m][i] \in T <=>
         Source[m][i].seq > after /\ Source[m][i].ts <= through
  BY <1>1, SourceTyped DEF Range
<1>4. batch = SubSeq(wanted, 1, IF Len(wanted) < BatchSize THEN Len(wanted) ELSE BatchSize)
  BY <1>1, <1>2 DEF NextAfter
<1>5. /\ wanted \in Seq(Item)
      /\ OnlyWanted(m, after, through, wanted)
      /\ AllWanted(m, after, through, wanted)
  BY <1>2, <1>3, WantedRange
<1>6. Len(wanted) \in Nat /\ BatchSize \in Nat /\ BatchSize > 0
  BY <1>5, CoordinatorAssumption
<1>7. PICK n \in Nat : /\ n <= Len(wanted) /\ batch = SubSeq(wanted, 1, n)
                       /\ n < BatchSize => n = Len(wanted)
  BY <1>4, <1>6
<1>8. /\ batch \in Seq(Item) /\ Len(batch) = n
      /\ \A j \in 1 .. n : batch[j] = wanted[j] /\ j \in 1 .. Len(wanted)
  BY <1>5, <1>6, <1>7
<1>9. OnlyWanted(m, after, through, batch)
  <2> SUFFICES ASSUME NEW j \in 1 .. Len(batch)
               PROVE  \E k \in 1 .. Len(Source[m]) :
                         /\ batch[j] = Source[m][k]
                         /\ Source[m][k].seq > after /\ Source[m][k].ts <= through
    BY DEF OnlyWanted
  <2>1. batch[j] = wanted[j] /\ j \in 1 .. Len(wanted)
    BY <1>8
  <2> QED
    BY <1>5, <2>1 DEF OnlyWanted
<1>10. ASSUME Exhausted(batch) PROVE AllWanted(m, after, through, batch)
  <2>1. n = Len(wanted)
    BY <1>7, <1>8, <1>10 DEF Exhausted
  <2>2. \A j \in 1 .. Len(wanted) : j \in 1 .. Len(batch) /\ batch[j] = wanted[j]
    BY <1>8, <2>1
  <2> QED
    BY <1>5, <2>2 DEF AllWanted
<1> QED
  BY <1>8, <1>9, <1>10

LEMMA AppliedFields ==
    ASSUME NEW call \in Call, NEW batch \in Seq(Item), NEW moved,
           moved = Applied(call, batch)
    PROVE  /\ moved \in Call
           /\ moved.state = call.state \o batch
           /\ batch = <<>> => moved.after = call.after
           /\ batch # <<>> => moved.after = batch[Len(batch)].seq
           /\ moved.stage = call.stage /\ moved.session = call.session
           /\ moved.principal = call.principal /\ moved.version = call.version
           /\ moved.time = call.time /\ moved.target = call.target
           /\ moved.base = call.base /\ moved.error = call.error
<1>1. call.state \in Seq(Item)
  BY DEF Call, SimulatorState
<1>2. CASE batch = <<>>
  BY <1>1, <1>2 DEF Applied
<1>3. CASE batch # <<>>
  <2>1. Len(batch) \in 1 .. Len(batch) /\ batch[Len(batch)] \in Item
    BY <1>3
  <2>2. batch[Len(batch)].seq \in Int /\ batch[Len(batch)].ts \in Int
    BY <2>1 DEF Item
  <2>3. call.state \o batch \in Seq(Item)
    BY <1>1
  <2>4. moved = [call EXCEPT !.state = call.state \o batch,
                    !.after = batch[Len(batch)].seq, !.prior = batch[Len(batch)].ts]
    BY <1>3 DEF Applied
  <2> QED
    BY <1>3, <2>2, <2>3, <2>4 DEF Call, SimulatorState
<1> QED
  BY <1>2, <1>3

\* One turn of the loop of _run_until keeps what it applied a prefix of the
\* partition; a short batch leaves nothing behind.
LEMMA BatchStep ==
    ASSUME NEW m \in Manifest, NEW call \in Call, NEW through \in Int, NEW first,
           Replayed(m, call, through),
           NEW batch, batch = NextAfter(m, call.after, through),
           ValidBatch(batch, call, first, through),
           NEW moved, moved = Applied(call, batch)
    PROVE  /\ batch \in Seq(Item)
           /\ Replayed(m, moved, through)
           /\ Exhausted(batch) => Drained(m, Len(moved.state), through)
<1>1. PICK state, n : state = call.state /\ n = Len(state)
  OBVIOUS
<1>2. /\ Prefix(m, state) /\ Within(state, through) /\ call.after = n - 1
  BY <1>1 DEF Replayed
<1>3. n \in Nat /\ n <= Len(Source[m]) /\ \A k \in 1 .. n : Source[m][k].seq = k - 1
  BY <1>1, <1>2 DEF Prefix
<1>4. /\ batch \in Seq(Item)
      /\ OnlyWanted(m, n - 1, through, batch)
      /\ Exhausted(batch) => AllWanted(m, n - 1, through, batch)
  BY <1>2, <1>3, BatchRange
<1>5. /\ Len(batch) > 0 => batch[1].seq = n
      /\ \A j \in 1 .. Len(batch) : j > 1 => batch[j].seq = batch[j - 1].seq + 1
  <2>1. /\ DOMAIN batch = 1 .. Len(batch) /\ Len(batch) \in Nat
    BY <1>4
  <2>2. \A j \in 1 .. Len(batch) :
           batch[j].seq = (IF j = 1 THEN n - 1 ELSE batch[j - 1].seq) + 1
    BY <1>2, <2>1 DEF ValidBatch, ValidItem
  <2>3. Len(batch) > 0 => batch[1].seq = n
    BY <1>3, <2>1, <2>2
  <2>4. ASSUME NEW j \in 1 .. Len(batch), j > 1 PROVE batch[j].seq = batch[j - 1].seq + 1
    BY <2>1, <2>2, <2>4
  <2> QED
    BY <2>3, <2>4
<1>6. Placed(m, n, batch)
  BY <1>3, <1>4, <1>5, BatchPlaces
<1>7. /\ moved.state = state \o batch
      /\ batch = <<>> => moved.after = n - 1
      /\ batch # <<>> => moved.after = batch[Len(batch)].seq
  BY <1>1, <1>2, <1>4, AppliedFields, ZenonT(60)
<1>8. PICK new : new = state \o batch
  OBVIOUS
<1>9. Follows(m, n, through, batch, new)
  BY <1>1, <1>2, <1>4, <1>6, <1>8, BatchExtends
<1>10. Len(batch) \in Nat /\ (batch = <<>> <=> Len(batch) = 0)
  BY <1>4
<1>11. moved.after = Len(new) - 1
  BY <1>7, <1>9, <1>10 DEF Follows
<1> QED
  BY <1>4, <1>7, <1>8, <1>9, <1>11 DEF Replayed, Follows

\* A checkpoint that resumes holds what an uninterrupted replay applies.
LEMMA ResumesCanonical ==
    ASSUME NEW m \in Manifest, NEW c, Resumes(m, c)
    PROVE  Canonical(m, c.time) = c.simulator
<1>1. PICK T : T = {i \in Range(Source[m]) : i.ts <= c.time}
  OBVIOUS
<1>2. PICK r : r = c.simulator
  OBVIOUS
<1>3. Source[m] \in Seq(Item) /\ DOMAIN Source[m] = 1 .. Len(Source[m])
  BY SourceTyped
<1>4. /\ r \in Seq(Item) /\ Len(r) \in Nat /\ Len(r) <= Len(Source[m])
      /\ \A k \in 1 .. Len(r) : r[k] = Source[m][k]
  BY <1>2 DEF Resumes, Prefix
<1>5. \A k \in 1 .. Len(Source[m]) : Source[m][k] \in T <=> Source[m][k].ts <= c.time
  BY <1>1, <1>3 DEF Range
<1>6. \A k \in 1 .. Len(Source[m]) : Source[m][k] \in T <=> k <= Len(r)
  <2> SUFFICES ASSUME NEW k \in 1 .. Len(Source[m])
               PROVE  Source[m][k].ts <= c.time <=> k <= Len(r)
    BY <1>5
  <2>1. Source[m][k].ts \in Int /\ c.time \in Int /\ k \in Nat
    BY SourceTyped DEF Resumes, Checkpoint
  <2>2. CASE k <= Len(r)
    BY <1>2, <1>4, <2>1, <2>2 DEF Resumes, Within
  <2>3. CASE k > Len(r)
    BY <1>2, <2>1, <2>3 DEF Resumes, Drained
  <2> QED
    BY <1>4, <2>1, <2>2, <2>3
<1>7. SelectIn(Source[m], T) = r
  BY <1>3, <1>4, <1>6, SelectInPrefix
<1> QED
  BY <1>1, <1>2, <1>7 DEF Canonical

-----------------------------------------------------------------------------
(***************************************************************************)
(* The inductive invariant                                                 *)
(***************************************************************************)

\* v is a version session s had, and t the frontier it had there.
HadAt(s, v, t, rows, logs) ==
    /\ rows[s].status \notin Unpinned
    /\ v <= rows[s].version
    /\ 1 \in IdxAtVersion(logs[s], v)
    /\ t = FrontierAtVersion(logs[s], v)

\* v is a version session s had, and t a frontier it has had since: what two
\* reads, of the row and then of the events, tell of a session.
Had(s, v, t, rows, logs) ==
    /\ \E n \in v .. rows[s].version : HadAt(s, n, t, rows, logs)
    /\ t <= FrontierOf(logs[s])

ManifestOf(s, logs) == SetupOf(logs[s]).manifest

\* A stored checkpoint is exact for a frontier the session has had since the
\* version it is filed under.
SnapshotOK(r, rows, logs) ==
    /\ Had(r.session, r.version, r.checkpoint.time, rows, logs)
    /\ Resumes(ManifestOf(r.session, logs), r.checkpoint)

Active == Stage \ {"idle", "events", "failed"}
Moved == {"save_advanced", "insert_advanced", "advanced"}
Saving == {"save", "insert", "current"} \cup Moved
Finished == {"current", "advanced"}

\* What a call knows that has read the row and not yet the events.
RowOK(call, rows) ==
    /\ call.session \in SessionId /\ call.principal \in Principal
    /\ call.target \in Instants
    /\ rows[call.session].status \notin Unpinned
    /\ call.version <= rows[call.session].version

\* What a call that runs knows of its session, whatever happened since.
CallOK(call, rows, logs) ==
    /\ call.session \in SessionId /\ call.principal \in Principal
    /\ call.target \in Instants
    /\ Had(call.session, call.version, call.time, rows, logs)
    /\ call.time <= call.target
    /\ call.stage \in Moved => HadAt(call.session, call.version, call.time, rows, logs)

\* What a call has replayed at each of its stages.
ReplayOK(call, m) ==
    /\ call.stage = "recover" => Replayed(m, call, call.time)
    /\ call.stage = "run" => Replayed(m, call, call.target)
    /\ call.stage \in Saving => Resumes(m, call.base) /\ call.base.time = call.time
    /\ call.stage = "advance" => Resumes(m, call.base) /\ call.base.time = call.target

\* A call that has ended well has stored its checkpoint.
StoredOK(call, rows) ==
    call.stage \in Finished =>
        \E r \in rows : /\ r.session = call.session /\ r.version = call.version
                        /\ r.checkpoint = call.base

\* A call that blames the table was overtaken.
BlameOK(call, rows, logs) ==
    /\ call.error = "MISMATCH" =>
          /\ call.session \in SessionId /\ rows[call.session].status \notin Unpinned
          /\ call.version < rows[call.session].version
    /\ call.error = "CHECKPOINT_AHEAD" =>
          /\ call.session \in SessionId /\ rows[call.session].status \notin Unpinned
          /\ call.time < FrontierOf(logs[call.session])

WorkerOK(call, rows, logs) ==
    /\ call.stage # "failed" => call.error = "none"
    /\ BlameOK(call, rows, logs)
    /\ call.stage = "events" => RowOK(call, rows)
    /\ call.stage \in Active =>
          CallOK(call, rows, logs) /\ ReplayOK(call, ManifestOf(call.session, logs))

Typed ==
    /\ snapshots \in SUBSET Snapshot
    /\ workers \in [Worker -> Call]

CoordinatorInv ==
    /\ Inv
    /\ Typed
    /\ \A r \in snapshots : SnapshotOK(r, sessions, domain_events)
    /\ \A w \in Worker : WorkerOK(workers[w], sessions, domain_events)
    /\ \A w \in Worker : StoredOK(workers[w], snapshots)

-----------------------------------------------------------------------------
(***************************************************************************)
(* What other callers leave standing                                       *)
(***************************************************************************)

LEMMA HadAtKept ==
    ASSUME Inv, Inv', [Next]_vars, NEW s \in SessionId, NEW v \in Nat, NEW t,
           HadAt(s, v, t, sessions, domain_events)
    PROVE  /\ HadAt(s, v, t, sessions', domain_events')
           /\ ManifestOf(s, domain_events') = ManifestOf(s, domain_events)
<1>1. /\ sessions[s].status \notin Unpinned
      /\ v <= sessions[s].version
      /\ 1 \in IdxAtVersion(domain_events[s], v)
      /\ t = FrontierAtVersion(domain_events[s], v)
  BY DEF HadAt
<1>2. sessions[s].version \in Nat /\ domain_events[s] \in Seq(Event)
  BY ReadTyped
<1>3. /\ sessions'[s].status \notin Unpinned
      /\ SetupOf(domain_events'[s]) = SetupOf(domain_events[s])
      /\ Continues(sessions[s], sessions'[s], domain_events[s], domain_events'[s])
  BY <1>1, SetupKept
<1>4. /\ v <= sessions'[s].version
      /\ 1 \in IdxAtVersion(domain_events'[s], v)
      /\ FrontierAtVersion(domain_events'[s], v) = FrontierAtVersion(domain_events[s], v)
  BY <1>1, <1>2, <1>3, SettledFrontier
<1> QED
  BY <1>1, <1>3, <1>4 DEF HadAt, ManifestOf

\* A pinned session stays pinned, and neither its version nor its frontier
\* goes back.
LEMMA OnlyForward ==
    ASSUME Inv, Inv', [Next]_vars, NEW s \in SessionId,
           sessions[s].status \notin Unpinned
    PROVE  /\ sessions'[s].status \notin Unpinned
           /\ sessions[s].version \in Nat /\ sessions'[s].version \in Nat
           /\ sessions[s].version <= sessions'[s].version
           /\ FrontierOf(domain_events[s]) \in Int
           /\ FrontierOf(domain_events'[s]) \in Int
           /\ FrontierOf(domain_events[s]) <= FrontierOf(domain_events'[s])
<1>1. sessions'[s].status \notin Unpinned
  BY SetupKept
<1>2. sessions[s].version \in Nat /\ sessions'[s].version \in Nat
  BY ReadTyped DEF Inv, TypeOK, Row
<1>3. FrontierOf(domain_events[s]) \in Int /\ FrontierOf(domain_events'[s]) \in Int
  BY <1>1 DEF Inv, SessionOK, WindowOK
<1>4. PinIdx(domain_events[s]) # {}
  BY DEF Inv, SessionOK, PinOK
<1>5. CASE Next
  <2>1. AppendOnlyStep
    BY <1>5, NextExtends
  <2> QED
    BY <1>1, <1>2, <1>3, <1>4, <2>1 DEF AppendOnlyStep
<1>6. CASE UNCHANGED vars
  <2>1. sessions' = sessions /\ domain_events' = domain_events
    BY <1>6 DEF vars
  <2> QED
    BY <1>1, <1>2, <1>3, <2>1
<1> QED
  BY <1>5, <1>6

LEMMA HadKept ==
    ASSUME Inv, Inv', [Next]_vars, NEW s \in SessionId, NEW v \in Nat, NEW t \in Int,
           Had(s, v, t, sessions, domain_events)
    PROVE  /\ Had(s, v, t, sessions', domain_events')
           /\ ManifestOf(s, domain_events') = ManifestOf(s, domain_events)
<1>1. PICK n \in v .. sessions[s].version : HadAt(s, n, t, sessions, domain_events)
  BY DEF Had
<1>2. sessions[s].status \notin Unpinned
  BY <1>1 DEF HadAt
<1>3. /\ sessions[s].version \in Nat /\ sessions'[s].version \in Nat
      /\ sessions[s].version <= sessions'[s].version
      /\ FrontierOf(domain_events[s]) \in Int /\ FrontierOf(domain_events'[s]) \in Int
      /\ FrontierOf(domain_events[s]) <= FrontierOf(domain_events'[s])
  BY <1>2, OnlyForward
<1>4. n \in Nat /\ n \in v .. sessions'[s].version
  BY <1>1, <1>3
<1>5. /\ HadAt(s, n, t, sessions', domain_events')
      /\ ManifestOf(s, domain_events') = ManifestOf(s, domain_events)
  BY <1>1, <1>4, HadAtKept
<1>6. t <= FrontierOf(domain_events'[s])
  BY <1>3 DEF Had
<1> QED
  BY <1>4, <1>5, <1>6 DEF Had

\* What is known of a session from its present row and events.
LEMMA HadNow ==
    ASSUME Inv, NEW s \in SessionId, NEW v \in Nat, v <= sessions[s].version,
           sessions[s].status \notin Unpinned,
           NEW t, t = FrontierOf(domain_events[s])
    PROVE  Had(s, v, t, sessions, domain_events)
<1>1. sessions[s].version \in Nat /\ t \in Int
  BY PinnedFacts, ReadTyped DEF WindowOK
<1>2. HadAt(s, sessions[s].version, t, sessions, domain_events)
  BY <1>1, FrontierNow DEF HadAt
<1>3. sessions[s].version \in v .. sessions[s].version
  BY <1>1
<1> QED
  BY <1>1, <1>2, <1>3 DEF Had

LEMMA SnapshotKept ==
    ASSUME Inv, Inv', [Next]_vars, NEW r \in Snapshot,
           SnapshotOK(r, sessions, domain_events)
    PROVE  SnapshotOK(r, sessions', domain_events')
<1>1. r.session \in SessionId /\ r.version \in Nat /\ r.checkpoint.time \in Int
  BY DEF Snapshot, Checkpoint
<1> QED
  BY <1>1, HadKept DEF SnapshotOK

LEMMA BlameKept ==
    ASSUME Inv, Inv', [Next]_vars, NEW call \in Call,
           BlameOK(call, sessions, domain_events)
    PROVE  BlameOK(call, sessions', domain_events')
<1>1. call.version \in Nat /\ call.time \in Int
  BY DEF Call
<1>2. ASSUME call.error = "MISMATCH"
      PROVE  /\ call.session \in SessionId
             /\ sessions'[call.session].status \notin Unpinned
             /\ call.version < sessions'[call.session].version
  <2>1. /\ call.session \in SessionId /\ sessions[call.session].status \notin Unpinned
        /\ call.version < sessions[call.session].version
    BY <1>2 DEF BlameOK
  <2> QED
    BY <1>1, <2>1, OnlyForward
<1>3. ASSUME call.error = "CHECKPOINT_AHEAD"
      PROVE  /\ call.session \in SessionId
             /\ sessions'[call.session].status \notin Unpinned
             /\ call.time < FrontierOf(domain_events'[call.session])
  <2>1. /\ call.session \in SessionId /\ sessions[call.session].status \notin Unpinned
        /\ call.time < FrontierOf(domain_events[call.session])
    BY <1>3 DEF BlameOK
  <2> QED
    BY <1>1, <2>1, OnlyForward
<1> QED
  BY <1>2, <1>3 DEF BlameOK

LEMMA WorkerKept ==
    ASSUME Inv, Inv', [Next]_vars, NEW call \in Call,
           WorkerOK(call, sessions, domain_events)
    PROVE  WorkerOK(call, sessions', domain_events')
<1>1. call.version \in Nat /\ call.time \in Int
  BY DEF Call
<1>2. BlameOK(call, sessions', domain_events')
  BY BlameKept DEF WorkerOK
<1>3. ASSUME call.stage = "events" PROVE RowOK(call, sessions')
  <2>1. RowOK(call, sessions)
    BY <1>3 DEF WorkerOK
  <2>2. /\ call.session \in SessionId /\ sessions[call.session].status \notin Unpinned
        /\ call.version <= sessions[call.session].version
    BY <2>1 DEF RowOK
  <2>3. /\ sessions'[call.session].status \notin Unpinned
        /\ call.version <= sessions'[call.session].version
    BY <1>1, <2>2, OnlyForward
  <2> QED
    BY <2>1, <2>3 DEF RowOK
<1>4. ASSUME call.stage \in Active
      PROVE  /\ CallOK(call, sessions', domain_events')
             /\ ReplayOK(call, ManifestOf(call.session, domain_events'))
  <2>1. /\ CallOK(call, sessions, domain_events)
        /\ ReplayOK(call, ManifestOf(call.session, domain_events))
    BY <1>4 DEF WorkerOK
  <2>2. call.session \in SessionId
        /\ Had(call.session, call.version, call.time, sessions, domain_events)
    BY <2>1 DEF CallOK
  <2>3. /\ Had(call.session, call.version, call.time, sessions', domain_events')
        /\ ManifestOf(call.session, domain_events') = ManifestOf(call.session, domain_events)
    BY <1>1, <2>2, HadKept
  <2>4. call.stage \in Moved =>
           HadAt(call.session, call.version, call.time, sessions', domain_events')
    BY <1>1, <2>1, <2>2, HadAtKept DEF CallOK
  <2> QED
    BY <2>1, <2>3, <2>4 DEF CallOK
<1> QED
  BY <1>2, <1>3, <1>4 DEF WorkerOK

\* A pinned session has a setup of a known manifest.
LEMMA SetupTyped ==
    ASSUME Inv, NEW s \in SessionId, sessions[s].status \notin Unpinned
    PROVE  /\ SetupOf(domain_events[s]) \in Setup
           /\ ManifestOf(s, domain_events) \in Manifest
           /\ SetupOf(domain_events[s]).play_start \in Int
           /\ SetupOf(domain_events[s]).warmup \in Int
<1>1. SetupOf(domain_events[s]) = domain_events[s][1].payload.setup
  BY PinnedFacts
<1>2. SetupOf(domain_events[s]) \in Setup
  BY <1>1 DEF Inv, SessionOK, PinOK
<1> QED
  BY <1>2, SetupAssumption DEF ManifestOf

\* A step of one worker that changes only its own call.
LEMMA LocalStep ==
    ASSUME CoordinatorInv, NEW w \in Worker, NEW call \in Call, Local(w, call),
           WorkerOK(call, sessions, domain_events), StoredOK(call, snapshots)
    PROVE  CoordinatorInv'
<1>1. /\ workers' = [workers EXCEPT ![w] = call]
      /\ UNCHANGED vars /\ snapshots' = snapshots
  BY DEF Local
<1>2. Inv'
  BY <1>1, NextInv DEF CoordinatorInv
<1>3. Typed'
  BY <1>1 DEF CoordinatorInv, Typed
<1>4. sessions' = sessions /\ domain_events' = domain_events
  BY <1>1 DEF vars
<1>5. \A r \in snapshots' : SnapshotOK(r, sessions', domain_events')
  BY <1>1, <1>4 DEF CoordinatorInv
<1>6. ASSUME NEW x \in Worker
      PROVE  WorkerOK(workers'[x], sessions', domain_events') /\ StoredOK(workers'[x], snapshots')
  BY <1>1, <1>4 DEF CoordinatorInv, Typed
<1> QED
  BY <1>2, <1>3, <1>5, <1>6 DEF CoordinatorInv

LEMMA IdleOK ==
    /\ Idle \in Call
    /\ \A rows, logs : WorkerOK(Idle, rows, logs)
    /\ \A rows : StoredOK(Idle, rows)
  BY DEF Idle, Call, Stage, Error, SimulatorState, WorkerOK, BlameOK, StoredOK, Active, Finished

LEMMA FailStep ==
    ASSUME CoordinatorInv, NEW w \in Worker, NEW error \in Error, Fail(w, error),
           BlameOK([workers[w] EXCEPT !.stage = "failed", !.error = error],
                   sessions, domain_events)
    PROVE  CoordinatorInv'
<1>1. PICK call : call = [workers[w] EXCEPT !.stage = "failed", !.error = error]
  OBVIOUS
<1>2. workers[w] \in Call
  BY DEF CoordinatorInv, Typed
<1>3. call \in Call /\ call.stage = "failed" /\ call.error = error
  BY <1>1, <1>2 DEF Call, Stage
<1>4. WorkerOK(call, sessions, domain_events) /\ StoredOK(call, snapshots)
  BY <1>1, <1>3 DEF WorkerOK, StoredOK, Active, Finished
<1> QED
  BY <1>1, <1>3, <1>4, LocalStep DEF Fail

\* Any other error blames nothing.
LEMMA PlainFailStep ==
    ASSUME CoordinatorInv, NEW w \in Worker,
           NEW error \in Error \ {"MISMATCH", "CHECKPOINT_AHEAD"}, Fail(w, error)
    PROVE  CoordinatorInv'
<1>1. PICK call : call = [workers[w] EXCEPT !.stage = "failed", !.error = error]
  OBVIOUS
<1>2. workers[w] \in Call
  BY DEF CoordinatorInv, Typed
<1>3. call.error = error
  BY <1>1, <1>2 DEF Call
<1>4. BlameOK(call, sessions, domain_events)
  BY <1>3 DEF BlameOK
<1> QED
  BY <1>1, <1>4, FailStep

-----------------------------------------------------------------------------
(***************************************************************************)
(* The steps of a call                                                     *)
(***************************************************************************)

\* The fields a step leaves alone.
SameCall(call, new) ==
    /\ new.session = call.session /\ new.principal = call.principal
    /\ new.version = call.version /\ new.time = call.time
    /\ new.target = call.target /\ new.error = call.error

LEMMA SameCallOK ==
    ASSUME NEW call, NEW new, NEW rows, NEW logs, SameCall(call, new),
           new.stage \in Moved => call.stage \in Moved,
           CallOK(call, rows, logs)
    PROVE  CallOK(new, rows, logs)
  BY DEF SameCall, CallOK

\* A call without an error blames nothing.
LEMMA CleanOK ==
    ASSUME NEW call, NEW rows, NEW logs, call.error = "none", call.stage \in Active,
           CallOK(call, rows, logs), ReplayOK(call, ManifestOf(call.session, logs))
    PROVE  WorkerOK(call, rows, logs)
  BY DEF WorkerOK, BlameOK, Active

LEMMA ActiveFacts ==
    ASSUME CoordinatorInv, NEW w \in Worker, workers[w].stage \in Active
    PROVE  /\ workers[w] \in Call /\ workers[w].session \in SessionId
           /\ workers[w].error = "none"
           /\ CallOK(workers[w], sessions, domain_events)
           /\ ReplayOK(workers[w], ManifestOf(workers[w].session, domain_events))
           /\ ManifestOf(workers[w].session, domain_events) \in Manifest
           /\ SetupOf(domain_events[workers[w].session]).play_start \in Int
           /\ SetupOf(domain_events[workers[w].session]).warmup \in Int
           /\ workers[w].time \in Int /\ workers[w].target \in Int
           /\ workers[w].time <= workers[w].target
           /\ workers[w].version \in Nat
           /\ Had(workers[w].session, workers[w].version, workers[w].time,
                  sessions, domain_events)
<1>1. /\ workers[w] \in Call
      /\ CallOK(workers[w], sessions, domain_events)
      /\ ReplayOK(workers[w], ManifestOf(workers[w].session, domain_events))
      /\ workers[w].error = "none"
  BY DEF CoordinatorInv, Typed, WorkerOK, Active
<1>2. /\ workers[w].session \in SessionId /\ workers[w].time <= workers[w].target
      /\ Had(workers[w].session, workers[w].version, workers[w].time,
             sessions, domain_events)
  BY <1>1 DEF CallOK
<1>3. workers[w].time \in Int /\ workers[w].target \in Int /\ workers[w].version \in Nat
  BY <1>1 DEF Call
<1>4. sessions[workers[w].session].status \notin Unpinned
  BY <1>2 DEF Had, HadAt
<1> QED
  BY <1>1, <1>2, <1>3, <1>4, SetupTyped DEF CoordinatorInv

LEMMA ReadRowStep ==
    ASSUME CoordinatorInv, NEW w \in Worker, NEW s \in SessionId, NEW p \in Principal,
           NEW target \in Instants, ReadRow(w, s, p, sessions[s].version, target)
    PROVE  CoordinatorInv'
<1>1. PICK v : v = sessions[s].version
  OBVIOUS
<1>2. PICK call : call = [Idle EXCEPT !.stage = "events", !.session = s,
                            !.principal = p, !.version = v, !.target = target]
  OBVIOUS
<1>3. Locked(s, p, v, {"RUNNING"}) /\ Local(w, call)
  BY <1>1, <1>2 DEF ReadRow
<1>4. Inv
  BY DEF CoordinatorInv
<1>5. {"RUNNING"} \cap Unpinned = {}
  BY DEF Unpinned
<1>6. sessions[s].status \notin Unpinned /\ v \in Nat
  BY <1>1, <1>3, <1>4, <1>5, LockedFacts
<1>7. target \in Int
  BY InstantsInt
<1>8. /\ call \in Call /\ call.stage = "events" /\ call.session = s
      /\ call.principal = p /\ call.version = v
      /\ call.target = target /\ call.error = "none"
  <2>1. Idle \in Call /\ Idle.error = "none"
    BY IdleOK DEF Idle
  <2>2. "events" \in Stage
    BY DEF Stage
  <2> QED
    BY <1>2, <1>6, <1>7, <2>1, <2>2 DEF Call
<1>9. RowOK(call, sessions)
  BY <1>1, <1>6, <1>8 DEF RowOK
<1>10. WorkerOK(call, sessions, domain_events) /\ StoredOK(call, snapshots)
  BY <1>8, <1>9 DEF WorkerOK, BlameOK, StoredOK, Active, Finished
<1> QED
  BY <1>3, <1>8, <1>10, LocalStep

\* Whatever was committed since the row was read, the version of the row is one
\* the session had and the frontier of the events one it has had since.
LEMMA ReadEventsStep ==
    ASSUME CoordinatorInv, NEW w \in Worker, ReadEvents(w)
    PROVE  CoordinatorInv'
<1>1. PICK call, s : call = workers[w] /\ s = call.session
  OBVIOUS
<1>2. PICK frontier : frontier = FrontierOf(domain_events[s])
  OBVIOUS
<1>3. PICK new : new = [call EXCEPT !.stage = "load", !.time = frontier]
  OBVIOUS
<1>4. /\ call.stage = "events"
      /\ \/ frontier <= call.target /\ Local(w, new)
         \/ Fail(w, "TARGET")
  BY <1>1, <1>2, <1>3 DEF ReadEvents, TargetInRange
<1>5. /\ call \in Call /\ RowOK(call, sessions) /\ call.error = "none"
  BY <1>1, <1>4 DEF CoordinatorInv, Typed, WorkerOK
<1>6. /\ s \in SessionId /\ sessions[s].status \notin Unpinned
      /\ call.version \in Nat /\ call.version <= sessions[s].version
  BY <1>1, <1>5 DEF RowOK, Call
<1>7. frontier \in Int
  BY <1>2, <1>6, PinnedFacts DEF CoordinatorInv, WindowOK
<1>8. CASE Fail(w, "TARGET")
  BY <1>8, PlainFailStep DEF Error
<1>9. CASE frontier <= call.target /\ Local(w, new)
  <2>1. Had(s, call.version, frontier, sessions, domain_events)
    BY <1>2, <1>6, HadNow DEF CoordinatorInv
  <2>2. "load" \in Stage
    BY DEF Stage
  <2>3. /\ new \in Call /\ new.stage = "load" /\ new.session = s
        /\ new.principal = call.principal /\ new.version = call.version
        /\ new.time = frontier /\ new.target = call.target /\ new.error = "none"
    BY <1>1, <1>3, <1>5, <1>7, <2>2 DEF Call
  <2>4. CallOK(new, sessions, domain_events)
    BY <1>1, <1>5, <1>9, <2>1, <2>3 DEF CallOK, RowOK, Moved
  <2>5. /\ ReplayOK(new, ManifestOf(new.session, domain_events))
        /\ StoredOK(new, snapshots) /\ new.stage \in Active
    BY <2>3 DEF ReplayOK, StoredOK, Saving, Moved, Finished, Active, Stage
  <2>6. WorkerOK(new, sessions, domain_events)
    BY <2>3, <2>4, <2>5, CleanOK
  <2> QED
    BY <1>9, <2>3, <2>5, <2>6, LocalStep
<1> QED
  BY <1>4, <1>8, <1>9

LEMMA RestoredFields ==
    ASSUME NEW call \in Call, NEW stage \in Stage,
           NEW base \in Checkpoint \cup {NoCheckpoint},
           SetupOf(domain_events[call.session]).play_start \in Int,
           SetupOf(domain_events[call.session]).warmup \in Int,
           NEW new, new = Restored(call, stage, base)
    PROVE  /\ new \in Call /\ SameCall(call, new)
           /\ new.stage = stage /\ new.base = base
           /\ base = NoCheckpoint => new.state = <<>> /\ new.after = -1
           /\ base # NoCheckpoint => /\ new.state = base.simulator
                                     /\ new.after = base.source_event_seq
<1>1. CASE base = NoCheckpoint
  <2>1. PICK prior : prior = SetupOf(domain_events[call.session]).play_start
                               - SetupOf(domain_events[call.session]).warmup
    OBVIOUS
  <2>2. prior \in Int
    BY <2>1
  <2>3. new = [call EXCEPT !.stage = stage, !.base = base, !.state = <<>>,
                           !.after = -1, !.prior = prior]
    BY <1>1, <2>1 DEF Restored
  <2>4. << >> \in Seq(Item) /\ -1 \in Int
    OBVIOUS
  <2> QED
    BY <1>1, <2>2, <2>3, <2>4 DEF Call, SimulatorState, SameCall
<1>2. CASE base # NoCheckpoint
  <2>1. /\ base.simulator \in SimulatorState /\ base.source_event_seq \in Int
        /\ base.time \in Int
    BY <1>2 DEF Checkpoint
  <2>2. new = [call EXCEPT !.stage = stage, !.base = base,
                  !.state = base.simulator, !.after = base.source_event_seq,
                  !.prior = base.time]
    BY <1>2 DEF Restored
  <2> QED
    BY <1>2, <2>1, <2>2, ZenonT(60) DEF Call, SameCall
<1> QED
  BY <1>1, <1>2

\* From a checkpoint that resumes, or from the pristine state, the replay
\* starts with a prefix of the partition.
LEMMA RestoredReplays ==
    ASSUME NEW m \in Manifest, NEW through \in Int, NEW base, NEW new,
           base # NoCheckpoint => Resumes(m, base) /\ base.time <= through,
           base = NoCheckpoint => new.state = <<>> /\ new.after = -1,
           base # NoCheckpoint => /\ new.state = base.simulator
                                  /\ new.after = base.source_event_seq
    PROVE  Replayed(m, new, through)
<1>1. CASE base = NoCheckpoint
  <2>1. << >> \in Seq(Item) /\ Len(<< >>) = 0 /\ 0 <= Len(Source[m])
    BY SourceTyped
  <2>2. Prefix(m, << >>) /\ Within(<< >>, through)
    BY <2>1 DEF Prefix, Within
  <2> QED
    BY <1>1, <2>1, <2>2 DEF Replayed
<1>2. CASE base # NoCheckpoint
  <2>1. /\ Prefix(m, base.simulator) /\ Within(base.simulator, base.time)
        /\ base.source_event_seq = Len(base.simulator) - 1
        /\ base.time \in Int /\ base.time <= through
        /\ base.simulator \in Seq(Item)
    BY <1>2 DEF Resumes, Checkpoint, SimulatorState
  <2>2. Within(base.simulator, through)
    <3> SUFFICES ASSUME NEW k \in 1 .. Len(base.simulator)
                 PROVE  base.simulator[k].ts <= through
      BY DEF Within
    <3>1. base.simulator[k] \in Item
      BY <2>1
    <3>2. base.simulator[k].ts <= base.time /\ base.simulator[k].ts \in Int
      BY <2>1, <3>1 DEF Within, Item
    <3> QED
      BY <2>1, <3>2
  <2> QED
    BY <1>2, <2>1, <2>2 DEF Replayed
<1> QED
  BY <1>1, <1>2

\* load_latest finds nothing or a stored row.
LEMMA LatestStored ==
    ASSUME CoordinatorInv, NEW s \in SessionId, NEW latest, latest = LoadLatest(s)
    PROVE  \/ latest = NoCheckpoint
           \/ \E r \in snapshots : r.session = s /\ r.checkpoint = latest
<1> DEFINE rows == {r \in snapshots : r.session = s}
<1> SUFFICES ASSUME rows # {}
             PROVE  \E r \in snapshots : r.session = s /\ r.checkpoint = latest
  BY DEF LoadLatest
<1> DEFINE T == {r.version : r \in rows}
<1>1. PICK n \in Nat : n = sessions[s].version
  BY ReadTyped DEF CoordinatorInv
<1>2. ASSUME NEW r \in rows PROVE r.version \in 0 .. n
  BY <1>1 DEF CoordinatorInv, Typed, Snapshot, SnapshotOK, Had
<1>3. T \in SUBSET (0 .. n) /\ T # {}
  BY <1>2
<1>4. PICK r \in rows : \A v \in T : r.version >= v
  <2> HIDE DEF T
  <2>1. Max(T) \in T /\ \A v \in T : Max(T) >= v
    <3>1. PICK a \in Int, b \in Int : a = 0 /\ b = n
      OBVIOUS
    <3>2. T \in SUBSET (a .. b) /\ T # {}
      BY <1>3, <3>1
    <3> QED
      BY <3>2, MaxRange, Zenon
  <2> USE DEF T
  <2> QED
    BY <2>1
<1>5. r \in rows /\ \A q \in rows : q.version <= r.version
  BY <1>2, <1>4
<1>6. PICK x : x = CHOOSE c \in rows : \A q \in rows : q.version <= c.version
  OBVIOUS
<1>7. x \in rows
  BY <1>5, <1>6
<1>8. latest = x.checkpoint
  BY <1>6 DEF LoadLatest
<1> QED
  BY <1>7, <1>8

LEMMA LoadStep ==
    ASSUME CoordinatorInv, NEW w \in Worker, Load(w)
    PROVE  CoordinatorInv'
<1>1. PICK call : call = workers[w]
  OBVIOUS
<1>2. PICK latest : latest = LoadLatest(call.session)
  OBVIOUS
<1>3. PICK m : m = ManifestOf(call.session, domain_events)
  OBVIOUS
<1>4. /\ call.stage = "load"
      /\ \/ /\ latest # NoCheckpoint /\ latest.time > call.time
            /\ Fail(w, "CHECKPOINT_AHEAD")
         \/ /\ latest # NoCheckpoint /\ latest.time = call.time
            /\ Local(w, Restored(call, "save", latest))
         \/ /\ ~(latest # NoCheckpoint /\ latest.time >= call.time)
            /\ Local(w, Restored(call, "recover", latest))
  BY <1>1, <1>2 DEF Load
<1>5. call.stage \in Active
  BY <1>4 DEF Active, Stage
<1>6. /\ call \in Call /\ call.session \in SessionId /\ call.error = "none"
      /\ CallOK(call, sessions, domain_events) /\ m \in Manifest
      /\ SetupOf(domain_events[call.session]).play_start \in Int
      /\ SetupOf(domain_events[call.session]).warmup \in Int
      /\ call.time \in Int
  BY <1>1, <1>3, <1>5, ActiveFacts
<1>7. latest # NoCheckpoint => latest \in Checkpoint /\ Resumes(m, latest)
  BY <1>2, <1>3, <1>6, LatestStored DEF CoordinatorInv, SnapshotOK, Resumes
<1>8. ASSUME NEW stage \in {"save", "recover"}, NEW new, new = Restored(call, stage, latest),
             Local(w, new), ReplayOK(new, m)
      PROVE  CoordinatorInv'
  <2>1. stage \in Stage /\ stage \notin Moved /\ stage \notin Finished /\ stage \in Active
    BY DEF Stage, Moved, Finished, Active
  <2>2. /\ new \in Call /\ SameCall(call, new) /\ new.stage = stage
    BY <1>6, <1>7, <1>8, <2>1, RestoredFields
  <2>3. /\ CallOK(new, sessions, domain_events) /\ new.error = "none"
        /\ new.session = call.session
    BY <1>6, <2>1, <2>2, SameCallOK DEF SameCall
  <2>4. WorkerOK(new, sessions, domain_events) /\ StoredOK(new, snapshots)
    BY <1>3, <1>8, <2>1, <2>2, <2>3, CleanOK DEF StoredOK
  <2> QED
    BY <1>8, <2>2, <2>4, LocalStep
<1>9. ASSUME latest # NoCheckpoint, latest.time > call.time, Fail(w, "CHECKPOINT_AHEAD")
      PROVE  CoordinatorInv'
  <2>1. PICK r \in snapshots : r.session = call.session /\ r.checkpoint = latest
    BY <1>2, <1>6, <1>9, LatestStored
  <2>2. PICK failed : failed = [call EXCEPT !.stage = "failed", !.error = "CHECKPOINT_AHEAD"]
    OBVIOUS
  <2>3. /\ failed.session = call.session /\ failed.time = call.time
        /\ failed.error = "CHECKPOINT_AHEAD"
    BY <1>6, <2>2 DEF Call
  <2>4. /\ Had(call.session, r.version, latest.time, sessions, domain_events)
    BY <2>1 DEF CoordinatorInv, SnapshotOK
  <2>5. /\ sessions[call.session].status \notin Unpinned
        /\ latest.time <= FrontierOf(domain_events[call.session])
    BY <2>4 DEF Had, HadAt
  <2>6. FrontierOf(domain_events[call.session]) \in Int /\ latest.time \in Int
    BY <1>6, <1>7, <1>9, <2>5, PinnedFacts DEF CoordinatorInv, WindowOK, Checkpoint
  <2>7. BlameOK(failed, sessions, domain_events)
    BY <1>6, <1>9, <2>3, <2>5, <2>6 DEF BlameOK
  <2> QED
    BY <1>1, <1>9, <2>2, <2>7, FailStep DEF Error
<1>10. ASSUME NEW new, new = Restored(call, "save", latest),
              latest # NoCheckpoint, latest.time = call.time, Local(w, new)
       PROVE  CoordinatorInv'
  <2>1. /\ SameCall(call, new) /\ new.stage = "save" /\ new.base = latest
    BY <1>6, <1>7, <1>10, RestoredFields DEF Stage
  <2>2. ReplayOK(new, m)
    BY <1>7, <1>10, <2>1 DEF ReplayOK, SameCall, Saving, Moved
  <2> QED
    BY <1>8, <1>10, <2>2
<1>11. ASSUME NEW new, new = Restored(call, "recover", latest),
              ~(latest # NoCheckpoint /\ latest.time >= call.time), Local(w, new)
       PROVE  CoordinatorInv'
  <2>1. /\ SameCall(call, new) /\ new.stage = "recover"
        /\ latest = NoCheckpoint => new.state = <<>> /\ new.after = -1
        /\ latest # NoCheckpoint => /\ new.state = latest.simulator
                                    /\ new.after = latest.source_event_seq
    BY <1>6, <1>7, <1>11, RestoredFields DEF Stage
  <2>2. latest # NoCheckpoint => Resumes(m, latest) /\ latest.time <= call.time
    BY <1>6, <1>7, <1>11 DEF Checkpoint
  <2>3. Replayed(m, new, call.time)
    BY <1>6, <2>1, <2>2, RestoredReplays
  <2>4. ReplayOK(new, m)
    BY <2>1, <2>3 DEF ReplayOK, SameCall, Saving, Moved
  <2> QED
    BY <1>8, <1>11, <2>4
<1> QED
  BY <1>4, <1>9, <1>10, <1>11

\* The loop of _run_until: to the frontier, or on to the target.
LEMMA RunBatchStep ==
    ASSUME CoordinatorInv, NEW w \in Worker, NEW call, call = workers[w],
           NEW through, NEW next,
           \/ call.stage = "recover" /\ through = call.time /\ next = "save"
           \/ call.stage = "run" /\ through = call.target /\ next = "advance",
           RunBatch(w, through, next)
    PROVE  CoordinatorInv'
<1>1. PICK m : m = ManifestOf(call.session, domain_events)
  OBVIOUS
<1>2. PICK batch, moved, first :
         /\ batch = NextAfter(m, call.after, through)
         /\ moved = Applied(call, batch) /\ first = WarmupStart(w)
  OBVIOUS
<1>3. IF ValidBatch(batch, call, first, through)
      THEN Local(w, IF Exhausted(batch)
                    THEN [moved EXCEPT !.stage = next,
                            !.base = [time |-> through,
                                      source_event_seq |-> moved.after,
                                      simulator |-> moved.state]]
                    ELSE moved)
      ELSE Fail(w, "SOURCE")
  BY <1>1, <1>2 DEF RunBatch, SetupFor, ManifestOf
<1>4. /\ call.stage \in Active /\ next \in Active /\ next \in Stage
      /\ next \notin Finished \cup Moved /\ call.stage \notin Finished \cup Moved
  BY DEF Active, Stage, Finished, Moved
<1>5. /\ call \in Call /\ call.error = "none" /\ m \in Manifest
      /\ CallOK(call, sessions, domain_events) /\ ReplayOK(call, m)
      /\ call.time \in Int /\ call.target \in Int
  BY <1>1, <1>4, ActiveFacts
<1>6. through \in Int /\ Replayed(m, call, through)
  BY <1>5 DEF ReplayOK
<1>7. CASE ~ValidBatch(batch, call, first, through)
  BY <1>3, <1>7, PlainFailStep DEF Error
<1>8. CASE ValidBatch(batch, call, first, through)
  <2>1. /\ batch \in Seq(Item)
        /\ Replayed(m, moved, through)
        /\ Exhausted(batch) => Drained(m, Len(moved.state), through)
    BY <1>2, <1>5, <1>6, <1>8, BatchStep
  <2>2. /\ moved \in Call /\ SameCall(call, moved) /\ moved.stage = call.stage
    BY <1>2, <1>5, <2>1, AppliedFields DEF SameCall
  <2>3. ASSUME NEW new \in Call, SameCall(call, new), ReplayOK(new, m),
               new.stage \in Active, new.stage \notin Finished \cup Moved, Local(w, new)
        PROVE  CoordinatorInv'
    <3>1. /\ CallOK(new, sessions, domain_events) /\ new.error = "none"
          /\ new.session = call.session
      BY <1>5, <2>3, SameCallOK DEF SameCall
    <3>2. WorkerOK(new, sessions, domain_events) /\ StoredOK(new, snapshots)
      BY <1>1, <2>3, <3>1, CleanOK DEF StoredOK
    <3> QED
      BY <2>3, <3>2, LocalStep
  <2>4. CASE ~Exhausted(batch)
    <3>1. Local(w, moved)
      BY <1>3, <1>8, <2>4
    <3>2. /\ ReplayOK(moved, m) /\ moved.stage \in Active
          /\ moved.stage \notin Finished \cup Moved
      BY <1>4, <2>1, <2>2 DEF ReplayOK, SameCall, Saving, Moved
    <3> QED
      BY <2>2, <2>3, <3>1, <3>2
  <2>5. CASE Exhausted(batch)
    <3>1. PICK base : base = [time |-> through, source_event_seq |-> moved.after,
                              simulator |-> moved.state]
      OBVIOUS
    <3>2. /\ base.time = through /\ base.source_event_seq = moved.after
          /\ base.simulator = moved.state
      BY <3>1
    <3>3. moved.after \in Int /\ moved.state \in SimulatorState
      BY <2>2 DEF Call
    <3>4. base \in Checkpoint
      BY <1>6, <3>1, <3>3 DEF Checkpoint
    <3>5. Resumes(m, base)
      BY <2>1, <2>5, <3>2, <3>4 DEF Resumes, Replayed
    <3>6. PICK new : new = [moved EXCEPT !.stage = next, !.base = base]
      OBVIOUS
    <3>7. Local(w, new)
      BY <1>3, <1>8, <2>5, <3>1, <3>6
    <3>8. /\ new \in Call /\ SameCall(call, new) /\ new.stage = next /\ new.base = base
      BY <1>4, <2>2, <3>4, <3>6 DEF Call, SameCall
    <3>9. ReplayOK(new, m)
      BY <3>2, <3>5, <3>8 DEF ReplayOK, SameCall, Saving, Moved
    <3> QED
      BY <1>4, <2>3, <3>7, <3>8, <3>9
  <2> QED
    BY <2>4, <2>5
<1> QED
  BY <1>7, <1>8

\* A call that finds another checkpoint under its version was overtaken: the
\* latest version has one frontier, and a frontier one checkpoint.
LEMMA SavesSame ==
    ASSUME CoordinatorInv, NEW w \in Worker, workers[w].stage \in Saving,
           NEW r \in RowAt(workers[w].session, workers[w].version)
    PROVE  \/ r.checkpoint = workers[w].base
           \/ workers[w].version < sessions[workers[w].session].version
<1>1. PICK call, s : call = workers[w] /\ s = call.session
  OBVIOUS
<1>2. PICK m : m = ManifestOf(s, domain_events)
  OBVIOUS
<1>3. call.stage \in Active
  BY <1>1 DEF Saving, Moved, Active, Stage
<1>4. /\ Had(s, call.version, call.time, sessions, domain_events)
      /\ ReplayOK(call, m) /\ m \in Manifest
      /\ s \in SessionId /\ call.version \in Nat
  BY <1>1, <1>2, <1>3, ActiveFacts
<1>5. Resumes(m, call.base) /\ call.base.time = call.time
  BY <1>1, <1>4 DEF ReplayOK
<1>6. r \in snapshots /\ r.session = s /\ r.version = call.version
  BY <1>1 DEF RowAt
<1>7. /\ Had(s, call.version, r.checkpoint.time, sessions, domain_events)
      /\ Resumes(m, r.checkpoint)
  BY <1>2, <1>6 DEF CoordinatorInv, SnapshotOK
<1>8. PICK n \in call.version .. sessions[s].version :
         HadAt(s, n, call.time, sessions, domain_events)
  BY <1>4 DEF Had
<1>9. PICK k \in call.version .. sessions[s].version :
         HadAt(s, k, r.checkpoint.time, sessions, domain_events)
  BY <1>7 DEF Had
<1>10. sessions[s].version \in Nat
  BY <1>4, ReadTyped DEF CoordinatorInv
<1>11. CASE call.version < sessions[s].version
  BY <1>1, <1>11
<1>12. CASE ~(call.version < sessions[s].version)
  <2>1. n = k
    BY <1>4, <1>8, <1>9, <1>10, <1>12
  <2>2. r.checkpoint.time = call.base.time
    BY <1>5, <1>8, <1>9, <2>1 DEF HadAt
  <2> QED
    BY <1>1, <1>4, <1>5, <1>7, <2>2, UniqueResume
<1> QED
  BY <1>11, <1>12

\* Where a call that saves goes next: it stores its checkpoint before it ends.
NextOK(w, next) ==
    /\ next \in Call /\ SameCall(workers[w], next) /\ next.stage \in Active
    /\ next.stage \in Moved => workers[w].stage \in Moved
    /\ ReplayOK(next, ManifestOf(workers[w].session, domain_events))
    /\ next.stage \in Finished => next.base = workers[w].base

LEMMA SaveLookupStep ==
    ASSUME CoordinatorInv, NEW w \in Worker, NEW next, NextOK(w, next),
           NEW stage, NEW insert,
           \/ stage = "save" /\ insert = "insert"
           \/ stage = "save_advanced" /\ insert = "insert_advanced",
           SaveLookup(w, stage, insert, next)
    PROVE  CoordinatorInv'
<1>1. PICK call : call = workers[w]
  OBVIOUS
<1>2. PICK m : m = ManifestOf(call.session, domain_events)
  OBVIOUS
<1>3. call.stage = stage
  BY <1>1 DEF SaveLookup
<1>4. call.stage \in Saving /\ call.stage \in Active
  BY <1>3 DEF Saving, Moved, Active, Stage
<1>5. /\ call \in Call /\ call.error = "none"
      /\ call.session \in SessionId
      /\ Had(call.session, call.version, call.time, sessions, domain_events)
      /\ CallOK(call, sessions, domain_events) /\ ReplayOK(call, m)
  BY <1>1, <1>2, <1>4, ActiveFacts
<1>6. ASSUME NEW new \in Call, SameCall(call, new), ReplayOK(new, m),
             new.stage \in Active, new.stage \in Moved => call.stage \in Moved,
             StoredOK(new, snapshots), Local(w, new)
      PROVE  CoordinatorInv'
  <2>1. /\ CallOK(new, sessions, domain_events) /\ new.error = "none"
        /\ new.session = call.session
    BY <1>5, <1>6, SameCallOK DEF SameCall
  <2>2. WorkerOK(new, sessions, domain_events)
    BY <1>2, <1>6, <2>1, CleanOK
  <2> QED
    BY <1>6, <2>2, LocalStep
<1>7. ASSUME NEW new, new = [call EXCEPT !.stage = insert], Local(w, new)
      PROVE  CoordinatorInv'
  <2>1. /\ insert \in Stage /\ insert \in Saving /\ insert \notin Finished
        /\ insert \in Active /\ (insert \in Moved => call.stage \in Moved)
    BY <1>3 DEF Stage, Saving, Moved, Finished, Active
  <2>2. /\ new \in Call /\ SameCall(call, new) /\ new.stage = insert
        /\ new.base = call.base /\ new.time = call.time
    BY <1>5, <1>7, <2>1 DEF Call, SameCall
  <2>3. ReplayOK(new, m)
    BY <1>4, <1>5, <2>1, <2>2 DEF ReplayOK, Saving, Moved
  <2>4. StoredOK(new, snapshots)
    BY <2>1, <2>2 DEF StoredOK
  <2> QED
    BY <1>6, <1>7, <2>1, <2>2, <2>3, <2>4
<1>8. ASSUME NEW r \in RowAt(call.session, call.version), r.checkpoint = call.base,
             Local(w, next)
      PROVE  CoordinatorInv'
  <2>1. /\ next \in Call /\ SameCall(call, next) /\ ReplayOK(next, m)
        /\ next.stage \in Active /\ (next.stage \in Moved => call.stage \in Moved)
        /\ next.stage \in Finished => next.base = call.base
    BY <1>1, <1>2 DEF NextOK
  <2>2. StoredOK(next, snapshots)
    BY <1>8, <2>1 DEF StoredOK, RowAt, SameCall
  <2> QED
    BY <1>6, <1>8, <2>1, <2>2
<1>9. ASSUME NEW r \in RowAt(call.session, call.version), r.checkpoint # call.base,
             Fail(w, "MISMATCH")
      PROVE  CoordinatorInv'
  <2>1. call.version < sessions[call.session].version
    BY <1>1, <1>4, <1>9, SavesSame
  <2>2. PICK failed : failed = [call EXCEPT !.stage = "failed", !.error = "MISMATCH"]
    OBVIOUS
  <2>3. /\ failed.session = call.session /\ failed.version = call.version
        /\ failed.error = "MISMATCH"
    BY <1>5, <2>2 DEF Call
  <2>4. sessions[call.session].status \notin Unpinned
    BY <1>5 DEF Had, HadAt
  <2>5. BlameOK(failed, sessions, domain_events)
    BY <1>5, <2>1, <2>3, <2>4 DEF BlameOK
  <2> QED
    BY <1>1, <1>9, <2>2, <2>5, FailStep DEF Error
<1> QED
  BY <1>1, <1>7, <1>8, <1>9 DEF SaveLookup

LEMMA SaveInsertStep ==
    ASSUME CoordinatorInv, NEW w \in Worker, NEW next, NextOK(w, next),
           NEW insert \in {"insert", "insert_advanced"}, SaveInsert(w, insert, next)
    PROVE  CoordinatorInv'
<1>1. PICK call : call = workers[w]
  OBVIOUS
<1>2. PICK m : m = ManifestOf(call.session, domain_events)
  OBVIOUS
<1>3. PICK row : row = [session |-> call.session, version |-> call.version,
                        checkpoint |-> call.base]
  OBVIOUS
<1>4. /\ call.stage = insert
      /\ \/ /\ snapshots' = snapshots \cup {row}
            /\ workers' = [workers EXCEPT ![w] = next]
            /\ UNCHANGED vars
         \/ Fail(w, "INTEGRITY")
  BY <1>1, <1>3 DEF SaveInsert
<1>5. call.stage \in Saving /\ call.stage \in Active
  BY <1>4 DEF Saving, Moved, Active, Stage
<1>6. /\ call \in Call /\ call.error = "none" /\ call.session \in SessionId
      /\ call.version \in Nat
      /\ CallOK(call, sessions, domain_events) /\ ReplayOK(call, m)
      /\ Had(call.session, call.version, call.time, sessions, domain_events)
  BY <1>1, <1>2, <1>5, ActiveFacts
<1>7. Resumes(m, call.base) /\ call.base.time = call.time
  BY <1>5, <1>6 DEF ReplayOK
<1>8. CASE Fail(w, "INTEGRITY")
  BY <1>8, PlainFailStep DEF Error
<1>9. CASE /\ snapshots' = snapshots \cup {row}
           /\ workers' = [workers EXCEPT ![w] = next]
           /\ UNCHANGED vars
  <2>1. Inv'
    BY <1>9, NextInv DEF CoordinatorInv
  <2>2. sessions' = sessions /\ domain_events' = domain_events
    BY <1>9 DEF vars
  <2>3. /\ row.session = call.session /\ row.version = call.version
        /\ row.checkpoint = call.base
    BY <1>3
  <2>4. row \in Snapshot /\ SnapshotOK(row, sessions, domain_events)
    <3>1. call.base \in Checkpoint
      BY <1>7 DEF Resumes
    <3>2. row \in Snapshot
      BY <1>3, <1>6, <3>1 DEF Snapshot
    <3> QED
      BY <1>2, <1>6, <1>7, <2>3, <3>2 DEF SnapshotOK
  <2>5. /\ next \in Call /\ SameCall(call, next) /\ ReplayOK(next, m)
        /\ next.stage \in Active /\ (next.stage \in Moved => call.stage \in Moved)
        /\ next.stage \in Finished => next.base = call.base
    BY <1>1, <1>2 DEF NextOK
  <2>6. WorkerOK(next, sessions, domain_events)
    <3>1. /\ CallOK(next, sessions, domain_events) /\ next.error = "none"
          /\ next.session = call.session
      BY <1>6, <2>5, SameCallOK DEF SameCall
    <3> QED
      BY <1>2, <2>5, <3>1, CleanOK
  <2>7. StoredOK(next, snapshots')
    BY <1>9, <2>3, <2>5 DEF StoredOK, SameCall
  <2>8. Typed'
    BY <1>9, <2>2, <2>4, <2>5 DEF CoordinatorInv, Typed
  <2>9. \A r \in snapshots' : SnapshotOK(r, sessions', domain_events')
    BY <1>9, <2>2, <2>4 DEF CoordinatorInv
  <2>10. ASSUME NEW x \in Worker
         PROVE  /\ WorkerOK(workers'[x], sessions', domain_events')
                /\ StoredOK(workers'[x], snapshots')
    <3>1. CASE x = w
      BY <1>9, <2>2, <2>6, <2>7, <3>1 DEF CoordinatorInv, Typed
    <3>2. CASE x # w
      <4>1. workers'[x] = workers[x]
        BY <1>9, <3>2 DEF CoordinatorInv, Typed
      <4>2. StoredOK(workers[x], snapshots')
        BY <1>9 DEF CoordinatorInv, StoredOK
      <4> QED
        BY <2>2, <4>1, <4>2 DEF CoordinatorInv
    <3> QED
      BY <3>1, <3>2
  <2> QED
    BY <2>1, <2>8, <2>9, <2>10 DEF CoordinatorInv
<1> QED
  BY <1>4, <1>8, <1>9

LEMMA SaveFrontierStep ==
    ASSUME CoordinatorInv, NEW w \in Worker, SaveFrontier(w)
    PROVE  CoordinatorInv'
<1>1. PICK call : call = workers[w]
  OBVIOUS
<1>2. PICK m : m = ManifestOf(call.session, domain_events)
  OBVIOUS
<1>3. PICK next : next = AfterFrontierSave(call)
  OBVIOUS
<1>4. \/ SaveLookup(w, "save", "insert", next)
      \/ SaveInsert(w, "insert", next)
  BY <1>1, <1>3 DEF SaveFrontier
<1>5. call.stage \in {"save", "insert"}
  BY <1>1, <1>4 DEF SaveLookup, SaveInsert
<1>6. call.stage \in Active /\ call.stage \in Saving
  BY <1>5 DEF Active, Stage, Saving, Moved
<1>7. /\ call \in Call /\ m \in Manifest /\ ReplayOK(call, m)
      /\ SetupOf(domain_events[call.session]).play_start \in Int
      /\ SetupOf(domain_events[call.session]).warmup \in Int
      /\ call.time \in Int /\ call.target \in Int /\ call.time <= call.target
  BY <1>1, <1>2, <1>6, ActiveFacts
<1>8. Resumes(m, call.base) /\ call.base.time = call.time /\ call.base \in Checkpoint
  BY <1>6, <1>7 DEF ReplayOK, Resumes
<1>9. NextOK(w, next)
  <2>1. CASE call.target = call.time
    <3>1. next = [call EXCEPT !.stage = "current"]
      BY <1>3, <2>1 DEF AfterFrontierSave
    <3>2. /\ next \in Call /\ SameCall(call, next) /\ next.stage = "current"
          /\ next.base = call.base
      BY <1>7, <3>1 DEF Call, Stage, SameCall
    <3>3. ReplayOK(next, m)
      BY <1>8, <3>2 DEF ReplayOK, SameCall, Saving, Moved
    <3> QED
      BY <1>1, <1>2, <3>2, <3>3 DEF NextOK, Active, Stage, Moved
  <2>2. CASE call.target # call.time
    <3>1. next = Restored(call, "run", call.base)
      BY <1>3, <2>2 DEF AfterFrontierSave
    <3>2. PICK base : base = call.base
      OBVIOUS
    <3>3. "run" \in Stage /\ base \in Checkpoint \cup {NoCheckpoint}
      BY <1>8, <3>2 DEF Stage
    <3>4. /\ next \in Call /\ SameCall(call, next) /\ next.stage = "run"
          /\ base = NoCheckpoint => next.state = <<>> /\ next.after = -1
          /\ base # NoCheckpoint => /\ next.state = base.simulator
                                    /\ next.after = base.source_event_seq
      BY <1>7, <3>1, <3>2, <3>3, RestoredFields
    <3>5. Replayed(m, next, call.target)
      BY <1>7, <1>8, <3>2, <3>4, RestoredReplays
    <3>6. ReplayOK(next, m)
      BY <3>4, <3>5 DEF ReplayOK, SameCall, Saving, Moved
    <3> QED
      BY <1>1, <1>2, <3>4, <3>6 DEF NextOK, Active, Stage, Moved, Finished
  <2> QED
    BY <2>1, <2>2
<1> QED
  BY <1>4, <1>9, SaveLookupStep, SaveInsertStep

LEMMA SaveAdvancedStep ==
    ASSUME CoordinatorInv, NEW w \in Worker, SaveAdvanced(w)
    PROVE  CoordinatorInv'
<1>1. PICK call : call = workers[w]
  OBVIOUS
<1>2. PICK m : m = ManifestOf(call.session, domain_events)
  OBVIOUS
<1>3. PICK next : next = [call EXCEPT !.stage = "advanced"]
  OBVIOUS
<1>4. \/ SaveLookup(w, "save_advanced", "insert_advanced", next)
      \/ SaveInsert(w, "insert_advanced", next)
  BY <1>1, <1>3 DEF SaveAdvanced
<1>5. call.stage \in {"save_advanced", "insert_advanced"}
  BY <1>1, <1>4 DEF SaveLookup, SaveInsert
<1>6. call.stage \in Active /\ call.stage \in Saving /\ call.stage \in Moved
  BY <1>5 DEF Active, Stage, Saving, Moved
<1>7. call \in Call /\ ReplayOK(call, m)
  BY <1>1, <1>2, <1>6, ActiveFacts
<1>8. /\ next \in Call /\ SameCall(call, next) /\ next.stage = "advanced"
      /\ next.base = call.base
  BY <1>3, <1>7 DEF Call, Stage, SameCall
<1>9. ReplayOK(next, m)
  BY <1>6, <1>7, <1>8 DEF ReplayOK, SameCall, Saving, Moved
<1>10. NextOK(w, next)
  BY <1>1, <1>2, <1>6, <1>8, <1>9 DEF NextOK, Active, Stage
<1> QED
  BY <1>4, <1>10, SaveLookupStep, SaveInsertStep

\* The latest version of a session has the frontier of its whole log.
LEMMA LatestVersion ==
    ASSUME NEW row, NEW log, SessionOK(row, log), row.status \notin Unpinned
    PROVE  /\ 1 \in IdxAtVersion(log, row.version)
           /\ FrontierAtVersion(log, row.version) = FrontierOf(log)
<1>1. PinIdx(log) = {1} /\ \A i \in DOMAIN log : log[i].cause <= row.version
  BY DEF SessionOK, PinOK, CausesOK
<1>2. 1 \in FrontierIdx(log)
  BY <1>1 DEF PinIdx, FrontierIdx
<1>3. IdxAtVersion(log, row.version) = FrontierIdx(log)
  BY <1>1 DEF IdxAtVersion, FrontierIdx
<1> QED
  BY <1>2, <1>3 DEF FrontierAtVersion, FrontierOf

\* What lifecycle.advance leaves: one more version, whose frontier is the target.
LEMMA AdvancedHad ==
    ASSUME Inv, Inv', NEW s \in SessionId, NEW p \in Principal, NEW v, NEW t \in Int,
           Advance(s, p, v, t)
    PROVE  /\ HadAt(s, v + 1, t, sessions', domain_events')
           /\ Had(s, v + 1, t, sessions', domain_events')
<1>1. /\ Locked(s, p, v, {"RUNNING"})
      /\ AppendEvent(s, "SESSION_ADVANCED", t, [EmptyPayload EXCEPT !.time = t], v + 1)
      /\ AdvanceVersion(s, "RUNNING")
  BY DEF Advance
<1>2. {"RUNNING"} \cap Unpinned = {}
  BY DEF Unpinned
<1>3. /\ sessions[s] \in Row /\ domain_events[s] \in Seq(Event)
      /\ sessions[s].version = v /\ v \in Nat
  BY <1>1, <1>2, LockedFacts
<1>4. PICK e : e = NewEvent(s, "SESSION_ADVANCED", t, [EmptyPayload EXCEPT !.time = t], v + 1)
  OBVIOUS
<1>5. e.event_type = "SESSION_ADVANCED" /\ e.payload.time = t
  BY <1>4 DEF NewEvent, EmptyPayload
<1>6. domain_events'[s] = Append(domain_events[s], e)
  BY <1>1, <1>4 DEF AppendEvent, Inv, TypeOK
<1>7. e \in Event
  <2>1. domain_events'[s] \in Seq(Event)
    BY DEF Inv, TypeOK
  <2>2. Len(domain_events[s]) + 1 \in 1 .. Len(domain_events'[s])
        /\ domain_events'[s][Len(domain_events[s]) + 1] = e
    BY <1>3, <1>6
  <2> QED
    BY <2>1, <2>2
<1>8. FrontierOf(domain_events'[s]) = t
  BY <1>3, <1>5, <1>6, <1>7, AdvanceAppend
<1>9. sessions'[s].status = "RUNNING" /\ sessions'[s].version = v + 1
  BY <1>1, <1>3 DEF AdvanceVersion, Inv, TypeOK
<1>10. sessions'[s].status \notin Unpinned /\ v + 1 <= sessions'[s].version
  BY <1>3, <1>9 DEF Unpinned
<1>11. /\ 1 \in IdxAtVersion(domain_events'[s], sessions'[s].version)
       /\ FrontierAtVersion(domain_events'[s], sessions'[s].version)
             = FrontierOf(domain_events'[s])
  <2>1. SessionOK(sessions'[s], domain_events'[s])
    BY DEF Inv
  <2> QED
    BY <1>10, <2>1, LatestVersion
<1> QED
  BY <1>3, <1>8, <1>9, <1>10, <1>11 DEF Had, HadAt

\* A step of another caller: nothing the workers know changes.
LEMMA OthersStep ==
    ASSUME CoordinatorInv, [Next]_vars, UNCHANGED coordinatorVars
    PROVE  CoordinatorInv'
<1>1. Inv /\ Inv'
  BY NextInv DEF CoordinatorInv
<1>2. snapshots' = snapshots /\ workers' = workers
  BY DEF coordinatorVars
<1>3. Typed'
  BY <1>2 DEF CoordinatorInv, Typed
<1>4. \A r \in snapshots' : SnapshotOK(r, sessions', domain_events')
  BY <1>1, <1>2, SnapshotKept DEF CoordinatorInv, Typed
<1>5. \A w \in Worker : WorkerOK(workers'[w], sessions', domain_events')
  BY <1>1, <1>2, WorkerKept DEF CoordinatorInv, Typed
<1>6. \A w \in Worker : StoredOK(workers'[w], snapshots')
  BY <1>2 DEF CoordinatorInv
<1> QED
  BY <1>1, <1>3, <1>4, <1>5, <1>6 DEF CoordinatorInv

LEMMA AdvanceSessionStep ==
    ASSUME CoordinatorInv, NEW w \in Worker, AdvanceSession(w)
    PROVE  CoordinatorInv'
<1>1. PICK call : call = workers[w]
  OBVIOUS
<1>2. PICK m : m = ManifestOf(call.session, domain_events)
  OBVIOUS
<1>3. PICK new : new = AdvancedCall(call)
  OBVIOUS
<1>4. /\ call.stage = "advance"
      /\ Advance(call.session, call.principal, call.version, call.target)
      /\ workers' = [workers EXCEPT ![w] = new]
      /\ snapshots' = snapshots
  BY <1>1, <1>3 DEF AdvanceSession
<1>5. call.stage \in Active
  BY <1>4 DEF Active, Stage
<1>6. /\ call \in Call /\ call.session \in SessionId /\ call.error = "none"
      /\ CallOK(call, sessions, domain_events) /\ ReplayOK(call, m)
      /\ call.target \in Int /\ call.version \in Nat /\ call.time \in Int
      /\ Had(call.session, call.version, call.time, sessions, domain_events)
  BY <1>1, <1>2, <1>5, ActiveFacts
<1>7. call.principal \in Principal /\ call.target \in Instants
  BY <1>6 DEF CallOK
<1>8. Resumes(m, call.base) /\ call.base.time = call.target
  BY <1>4, <1>6 DEF ReplayOK
<1>9. sessions[call.session].version = call.version
  BY <1>4 DEF Advance, Locked
<1>10. Next
  BY <1>4, <1>6, <1>7, <1>9 DEF Next, LifecycleStep, OwnerStep
<1>11. Inv /\ Inv'
  BY <1>10, NextInv DEF CoordinatorInv
<1>12. /\ new \in Call /\ new.stage = "save_advanced" /\ new.session = call.session
       /\ new.principal = call.principal /\ new.version = call.version + 1
       /\ new.time = call.target /\ new.target = call.target
       /\ new.base = call.base /\ new.error = call.error
  <2>1. "save_advanced" \in Stage /\ call.version + 1 \in Nat
    BY <1>6 DEF Stage
  <2>2. new = [call EXCEPT !.stage = "save_advanced", !.version = call.version + 1,
                           !.time = call.target]
    BY <1>3 DEF AdvancedCall
  <2> QED
    BY <1>6, <2>1, <2>2 DEF Call
<1>13. /\ HadAt(call.session, call.version + 1, call.target, sessions', domain_events')
       /\ Had(call.session, call.version + 1, call.target, sessions', domain_events')
  BY <1>4, <1>6, <1>7, <1>11, AdvancedHad
<1>14. ManifestOf(call.session, domain_events') = m
  BY <1>2, <1>6, <1>10, <1>11, HadKept
<1>15. WorkerOK(new, sessions', domain_events')
  <2>1. CallOK(new, sessions', domain_events')
    BY <1>6, <1>7, <1>12, <1>13 DEF CallOK
  <2>2. ReplayOK(new, m)
    BY <1>8, <1>12 DEF ReplayOK, Saving, Moved
  <2>3. new.stage \in Active
    BY <1>12 DEF Active, Stage
  <2> QED
    BY <1>6, <1>12, <1>14, <2>1, <2>2, <2>3, CleanOK
<1>16. StoredOK(new, snapshots')
  BY <1>12 DEF StoredOK, Finished
<1>17. Typed'
  BY <1>4, <1>12 DEF CoordinatorInv, Typed
<1>18. \A r \in snapshots' : SnapshotOK(r, sessions', domain_events')
  BY <1>4, <1>10, <1>11, SnapshotKept DEF CoordinatorInv, Typed
<1>19. ASSUME NEW x \in Worker
       PROVE  /\ WorkerOK(workers'[x], sessions', domain_events')
              /\ StoredOK(workers'[x], snapshots')
  <2>1. CASE x = w
    BY <1>4, <1>15, <1>16, <2>1 DEF CoordinatorInv, Typed
  <2>2. CASE x # w
    <3>1. workers'[x] = workers[x] /\ workers[x] \in Call
      BY <1>4, <2>2 DEF CoordinatorInv, Typed
    <3>2. WorkerOK(workers[x], sessions', domain_events')
      BY <1>10, <1>11, <3>1, WorkerKept DEF CoordinatorInv
    <3> QED
      BY <1>4, <3>1, <3>2 DEF CoordinatorInv
  <2> QED
    BY <2>1, <2>2
<1> QED
  BY <1>11, <1>17, <1>18, <1>19 DEF CoordinatorInv

LEMMA WorkStep ==
    ASSUME CoordinatorInv, NEW w \in Worker, Work(w)
    PROVE  CoordinatorInv'
<1>1. CASE Load(w)
  BY <1>1, LoadStep
<1>2. CASE Recover(w)
  BY <1>2, RunBatchStep DEF Recover
<1>3. CASE SaveFrontier(w)
  BY <1>3, SaveFrontierStep
<1>4. CASE Run(w)
  BY <1>4, RunBatchStep DEF Run
<1>5. CASE AdvanceSession(w)
  BY <1>5, AdvanceSessionStep
<1>6. CASE AdvanceConflict(w)
  <2>1. Fail(w, "VERSION_CONFLICT")
    BY <1>6 DEF AdvanceConflict
  <2> QED
    BY <2>1, PlainFailStep DEF Error
<1>7. CASE SaveAdvanced(w)
  BY <1>7, SaveAdvancedStep
<1>8. CASE ReadEvents(w)
  BY <1>8, ReadEventsStep
<1> QED
  BY <1>1, <1>2, <1>3, <1>4, <1>5, <1>6, <1>7, <1>8 DEF Work

LEMMA InitCoordinator == CoordinatorInit => CoordinatorInv
<1> SUFFICES ASSUME CoordinatorInit PROVE CoordinatorInv
  OBVIOUS
<1>1. Inv
  BY PinnedInv DEF CoordinatorInit
<1>2. Typed
  BY IdleOK, CoordinatorAssumption DEF CoordinatorInit, Typed
<1>3. \A w \in Worker :
         WorkerOK(workers[w], sessions, domain_events) /\ StoredOK(workers[w], snapshots)
  BY IdleOK DEF CoordinatorInit
<1>4. \A r \in snapshots : SnapshotOK(r, sessions, domain_events)
  BY DEF CoordinatorInit
<1> QED
  BY <1>1, <1>2, <1>3, <1>4 DEF CoordinatorInv

LEMMA NextCoordinator == CoordinatorInv /\ [CoordinatorNext]_allVars => CoordinatorInv'
<1> SUFFICES ASSUME CoordinatorInv, [CoordinatorNext]_allVars PROVE CoordinatorInv'
  OBVIOUS
<1>1. CASE OtherStep /\ UNCHANGED coordinatorVars
  <2>1. Next
    BY <1>1 DEF OtherStep, Next, LifecycleStep
  <2> QED
    BY <1>1, <2>1, OthersStep
<1>2. ASSUME NEW w \in Worker, NEW s \in SessionId, NEW p \in Principal,
             NEW t \in Instants, ReadRow(w, s, p, sessions[s].version, t)
      PROVE  CoordinatorInv'
  BY <1>2, ReadRowStep
<1>3. ASSUME NEW w \in Worker, Work(w)
      PROVE  CoordinatorInv'
  BY <1>3, WorkStep
<1>4. ASSUME NEW w \in Worker, Return(w)
      PROVE  CoordinatorInv'
  BY <1>4, IdleOK, LocalStep DEF Return
<1>5. ASSUME NEW w \in Worker, Crash(w)
      PROVE  CoordinatorInv'
  BY <1>5, IdleOK, LocalStep DEF Crash
<1>6. CASE UNCHANGED allVars
  <2>1. UNCHANGED vars /\ UNCHANGED coordinatorVars
    BY <1>6 DEF allVars
  <2> QED
    BY <2>1, OthersStep
<1> QED
  BY <1>1, <1>2, <1>3, <1>4, <1>5, <1>6 DEF CoordinatorNext

\* Sessions, snapshots and calls agree in every reachable state, with every
\* session read in two parts: the row, and later its events.
THEOREM CoordinatorInvariance == CoordinatorSpec => []CoordinatorInv
  BY InitCoordinator, NextCoordinator, PTL DEF CoordinatorSpec

LEMMA HadSince ==
    ASSUME NEW s, NEW v, NEW t, Had(s, v, t, sessions, domain_events)
    PROVE  FrontierSince(s, v, t) /\ t <= FrontierOf(domain_events[s])
  BY DEF Had, HadAt, FrontierSince

\* Every row of the snapshots table is what an uninterrupted replay would have
\* written at a frontier the session has had since the version of the row, and
\* save and load_latest blame a stored row only in a call whose session has
\* moved on: any number of coordinators may crash, race and restart between the
\* statements and transactions of advance_to.
THEOREM CheckpointsAreSound == CoordinatorSpec => []CheckpointsSound
<1>1. CoordinatorInv => CheckpointsSound
  <2> SUFFICES ASSUME CoordinatorInv PROVE CheckpointsSound
    OBVIOUS
  <2>1. CoordinatorTypeOK
    BY DEF CoordinatorInv, Typed, CoordinatorTypeOK, Inv
  <2>2. BlameMeansMoved
    BY DEF CoordinatorInv, WorkerOK, BlameOK, BlameMeansMoved
  <2>3. ASSUME NEW r \in snapshots
        PROVE  LET log == domain_events[r.session]
                   c   == r.checkpoint
                   all == Canonical(SetupOf(log).manifest, c.time)
               IN  /\ FrontierSince(r.session, r.version, c.time)
                   /\ c.time <= FrontierOf(log)
                   /\ c.simulator = all
                   /\ \A k \in DOMAIN all : all[k].seq = k - 1
                   /\ c.source_event_seq = Len(all) - 1
    <3>1. PICK m, c : m = SetupOf(domain_events[r.session]).manifest /\ c = r.checkpoint
      OBVIOUS
    <3>2. r.session \in SessionId
      BY DEF CoordinatorInv, Typed, Snapshot
    <3>3. /\ Had(r.session, r.version, c.time, sessions, domain_events)
          /\ Resumes(m, c)
      BY <3>1 DEF CoordinatorInv, SnapshotOK, ManifestOf
    <3>4. sessions[r.session].status \notin Unpinned
      BY <3>3 DEF Had, HadAt
    <3>5. m \in Manifest
      BY <3>1, <3>2, <3>4, SetupTyped DEF CoordinatorInv, ManifestOf
    <3>6. Canonical(m, c.time) = c.simulator
      BY <3>3, <3>5, ResumesCanonical
    <3>7. /\ \A k \in DOMAIN c.simulator : c.simulator[k].seq = k - 1
          /\ c.source_event_seq = Len(c.simulator) - 1
      BY <3>3 DEF Resumes, Prefix
    <3>8. /\ FrontierSince(r.session, r.version, c.time)
          /\ c.time <= FrontierOf(domain_events[r.session])
      BY <3>3, HadSince
    <3> QED
      BY <3>1, <3>6, <3>7, <3>8
  <2>4. CheckpointsExact
    BY <2>3 DEF CheckpointsExact
  <2> QED
    BY <2>1, <2>2, <2>4 DEF CheckpointsSound
<1> QED
  BY <1>1, CoordinatorInvariance, PTL

\* When advance_to returns, the checkpoint it returns is in the table under the
\* version it returns. After an advance it is at the frontier of that version;
\* without one, at a frontier the session has had since.
THEOREM ResultsStored == CoordinatorSpec => []ResultsDurable
<1>1. CoordinatorInv => ResultsDurable
  <2> SUFFICES ASSUME CoordinatorInv, NEW w \in Worker,
                      workers[w].stage \in {"current", "advanced"}
               PROVE  LET call == workers[w]
                      IN  /\ \E r \in RowAt(call.session, call.version) :
                                r.checkpoint = call.base /\ call.base.time = call.time
                          /\ FrontierSince(call.session, call.version, call.time)
                          /\ call.stage = "advanced" =>
                                call.time = FrontierAtVersion(domain_events[call.session],
                                                              call.version)
    BY DEF ResultsDurable
  <2>1. /\ workers[w].stage \in Active /\ workers[w].stage \in Saving
        /\ workers[w].stage \in Finished
        /\ workers[w].stage = "advanced" => workers[w].stage \in Moved
    BY DEF Active, Stage, Saving, Moved, Finished
  <2>2. /\ Had(workers[w].session, workers[w].version, workers[w].time,
               sessions, domain_events)
        /\ CallOK(workers[w], sessions, domain_events)
        /\ ReplayOK(workers[w], ManifestOf(workers[w].session, domain_events))
    BY <2>1, ActiveFacts
  <2>3. workers[w].base.time = workers[w].time
    BY <2>1, <2>2 DEF ReplayOK
  <2>4. PICK r \in snapshots : /\ r.session = workers[w].session
                               /\ r.version = workers[w].version
                               /\ r.checkpoint = workers[w].base
    BY <2>1 DEF CoordinatorInv, StoredOK
  <2>5. FrontierSince(workers[w].session, workers[w].version, workers[w].time)
    BY <2>2, HadSince
  <2>6. workers[w].stage = "advanced" =>
           workers[w].time = FrontierAtVersion(domain_events[workers[w].session],
                                               workers[w].version)
    BY <2>1, <2>2 DEF CallOK, HadAt
  <2> QED
    BY <2>3, <2>4, <2>5, <2>6 DEF RowAt
<1> QED
  BY <1>1, CoordinatorInvariance, PTL
=============================================================================
