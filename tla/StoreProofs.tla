---------------------------- MODULE StoreProofs -----------------------------
(***************************************************************************)
(* Proofs about EventStore, for every number of sessions, writers, keys,   *)
(* payloads and batch sizes.                                               *)
(*                                                                         *)
(* append_command reads before it holds a lock, so what it checked may be  *)
(* stale when it writes. The invariant says what survives: the events of a *)
(* call that passed the check continue the stream at the place it saw, and *)
(* because the stream is append-only that place still has the hash it saw; *)
(* the unique constraint on (session_id, event_seq) then leaves only the   *)
(* end of the stream. The version compared by the UPDATE does the same for *)
(* the account of versions and for the answers already given to retries.   *)
(***************************************************************************)
EXTENDS EventStore, SessionsProofs, SequenceTheorems

-----------------------------------------------------------------------------
(***************************************************************************)
(* The invariant                                                           *)
(***************************************************************************)

StoreTyped ==
    /\ commands \in SUBSET Command
    /\ appends \in [Writer -> AppendCall \cup {NoCall}]

\* Every session the store sees was committed or forked.
NoneOpen == \A s \in SessionId : sessions[s].status # "SETUP"

\* A call in flight: its session is there, its version is within the bound,
\* and once it has passed the check its events continue a prefix of the log.
CallOK(call, row, log) ==
    /\ row.status \notin Unpinned
    /\ call.command.expected < MaxVersion
    /\ call.stage = "write" /\ call.count > 0 =>
          call.seq <= Len(log) /\ call.prior = HashAfter(log, call.seq)

CallsOK ==
    \A w \in Writer : appends[w] # NoCall =>
        CallOK(appends[w], sessions[appends[w].command.session],
               domain_events[appends[w].command.session])

\* LifecycleVersions and SeqsOf as functions of a log.
LifecycleCauses(log) ==
    {log[i].cause : i \in {j \in DOMAIN log : log[j].event_type # "TRADE"}}

TradeSeqs(log, v) ==
    {log[i].event_seq :
        i \in {j \in DOMAIN log : log[j].event_type = "TRADE" /\ log[j].cause = v}}

\* OneCausePerVersion of one session whose commands are table.
Accounted(version, log, table) ==
    LET made == {d.expected + 1 : d \in table}
    IN  /\ made \cap LifecycleCauses(log) = {}
        /\ made \cup LifecycleCauses(log) = 1 .. version
        /\ \A d, e \in table : d.expected = e.expected => d = e

OfSession(table, s) == {d \in table : d.session = s}

AllAccounted ==
    \A s \in SessionId :
        Accounted(sessions[s].version, domain_events[s], OfSession(commands, s))

\* RetryFindsOriginal of one call.
Answered(call, table, log) ==
    \E d \in table :
        /\ d.session = call.command.session
        /\ d.key = call.command.key
        /\ d.payload_hash = call.command.payload_hash
        /\ d.expected < call.version
        /\ call.seqs = TradeSeqs(log, d.expected + 1)

AllAnswered ==
    \A w \in Writer : appends[w] # NoCall /\ appends[w].stage = "replayed" =>
        Answered(appends[w], commands, domain_events[appends[w].command.session])

StoreInv ==
    /\ Inv
    /\ StoreTyped
    /\ NoneOpen
    /\ CallsOK
    /\ AllAccounted
    /\ KeysUnique
    /\ AllAnswered

-----------------------------------------------------------------------------
(***************************************************************************)
(* Batches                                                                 *)
(***************************************************************************)

LEMMA ConcatFacts ==
    ASSUME NEW log \in Seq(Event), NEW batch \in Seq(Event)
    PROVE  /\ log \o batch \in Seq(Event)
           /\ Len(log) \in Nat /\ Len(batch) \in Nat
           /\ Len(log \o batch) = Len(log) + Len(batch)
           /\ DOMAIN log = 1 .. Len(log)
           /\ DOMAIN (log \o batch) = 1 .. Len(log) + Len(batch)
           /\ \A i \in 1 .. Len(log) : (log \o batch)[i] = log[i]
           /\ \A i \in Len(log) + 1 .. Len(log) + Len(batch) :
                 /\ i - Len(log) \in 1 .. Len(batch)
                 /\ (log \o batch)[i] = batch[i - Len(log)]
<1>1. /\ log \o batch \in Seq(Event)
      /\ Len(log \o batch) = Len(log) + Len(batch)
      /\ \A i \in 1 .. Len(log) + Len(batch) : (log \o batch)[i] =
            IF i <= Len(log) THEN log[i] ELSE batch[i - Len(log)]
  BY ConcatProperties
<1>2. Len(log) \in Nat /\ Len(batch) \in Nat
  OBVIOUS
<1>3. DOMAIN (log \o batch) = 1 .. Len(log \o batch) /\ DOMAIN log = 1 .. Len(log)
  BY <1>1, LenProperties
<1> QED
  BY <1>1, <1>2, <1>3

\* The events of one command: the next sequence numbers, chained to the log
\* and to each other, all caused by the version the command makes.
FitsBatch(version, log, batch) ==
    \A k \in 1 .. Len(batch) :
        /\ batch[k].event_type = "TRADE"
        /\ batch[k].cause = version + 1
        /\ batch[k].event_seq = Len(log) + k - 1
        /\ batch[k].prior_hash = IF k = 1 THEN LastHash(log)
                                          ELSE batch[k - 1].current_hash

\* Trades move neither the pin nor the frontier.
LEMMA NeutralBatch ==
    ASSUME NEW log \in Seq(Event), NEW batch \in Seq(Event), HasFrontier(log),
           \A k \in 1 .. Len(batch) : batch[k].event_type = "TRADE"
    PROVE  LET new == log \o batch
           IN  /\ PinIdx(new) = PinIdx(log)
               /\ HasFrontier(new)
               /\ FrontierOf(new) = FrontierOf(log)
<1> DEFINE new == log \o batch
<1>1. /\ DOMAIN log = 1 .. Len(log) /\ DOMAIN new = 1 .. Len(log) + Len(batch)
      /\ Len(log) \in Nat /\ Len(batch) \in Nat
      /\ \A i \in 1 .. Len(log) : new[i] = log[i]
      /\ \A i \in Len(log) + 1 .. Len(log) + Len(batch) : new[i].event_type = "TRADE"
  BY ConcatFacts
<1> HIDE DEF new
<1>2. PinIdx(new) = PinIdx(log) /\ FrontierIdx(new) = FrontierIdx(log)
  BY <1>1 DEF PinIdx, FrontierIdx, PinTypes
<1>3. PICK m \in FrontierIdx(log) : \A j \in FrontierIdx(log) : m >= j
  BY DEF HasFrontier
<1>4. FrontierIdx(log) \in SUBSET Int /\ m \in 1 .. Len(log)
  BY <1>1 DEF FrontierIdx
<1>5. Max(FrontierIdx(log)) = m
  BY <1>3, <1>4, MaxIs
<1>6. FrontierOf(new) = FrontierOf(log)
  BY <1>1, <1>2, <1>4, <1>5 DEF FrontierOf
<1>7. HasFrontier(new)
  BY <1>2 DEF HasFrontier
<1> QED
  BY <1>2, <1>6, <1>7 DEF new

\* Appending the batch of a command keeps a pinned session well formed.
LEMMA BatchOK ==
    ASSUME NEW row \in Row, NEW row2 \in Row,
           NEW log \in Seq(Event), NEW batch \in Seq(Event),
           SessionOK(row, log), row.status \notin Unpinned,
           row2.status = row.status, row2.ruleset_id = row.ruleset_id,
           row2.version = row.version + 1, FitsBatch(row.version, log, batch)
    PROVE  SessionOK(row2, log \o batch) /\ (log \o batch)[1] = log[1]
<1> DEFINE new == log \o batch
<1>1. /\ PinOK(row, log) /\ ChainOK(log) /\ CausesOK(row.version, log)
      /\ WindowOK(row.status, log[1].payload.setup, FrontierOf(log))
  BY DEF SessionOK
<1>2. Len(log) > 0 /\ PinIdx(log) = {1} /\ HasFrontier(log)
  BY <1>1 DEF PinOK
<1>3. /\ PinIdx(new) = {1} /\ HasFrontier(new) /\ FrontierOf(new) = FrontierOf(log)
  BY <1>2, NeutralBatch DEF FitsBatch
<1>4. /\ DOMAIN log = 1 .. Len(log) /\ DOMAIN new = 1 .. Len(log) + Len(batch)
      /\ Len(log) \in Nat /\ Len(batch) \in Nat
      /\ Len(new) = Len(log) + Len(batch)
      /\ \A i \in 1 .. Len(log) : new[i] = log[i]
      /\ \A i \in Len(log) + 1 .. Len(log) + Len(batch) :
            i - Len(log) \in 1 .. Len(batch) /\ new[i] = batch[i - Len(log)]
  BY ConcatFacts
<1> HIDE DEF new
<1>5. new[1] = log[1] /\ Len(new) > 0
  BY <1>2, <1>4
<1>6. PinOK(row2, new)
  BY <1>1, <1>3, <1>5 DEF PinOK
<1>7. ChainOK(new)
  <2> SUFFICES ASSUME NEW i \in 1 .. Len(log) + Len(batch)
               PROVE  /\ new[i].event_seq = i - 1
                      /\ new[i].prior_hash =
                            IF i = 1 THEN ZERO_HASH ELSE new[i - 1].current_hash
    BY <1>4 DEF ChainOK
  <2>1. CASE i <= Len(log)
    <3>1. new[i] = log[i] /\ (i # 1 => new[i - 1] = log[i - 1]) /\ i \in 1 .. Len(log)
      BY <2>1, <1>4
    <3> QED
      BY <1>1, <1>4, <3>1 DEF ChainOK
  <2>2. CASE i > Len(log)
    <3> DEFINE k == i - Len(log)
    <3>1. k \in 1 .. Len(batch) /\ new[i] = batch[k] /\ i # 1
      BY <2>2, <1>2, <1>4
    <3>2. /\ batch[k].event_seq = Len(log) + k - 1
          /\ batch[k].prior_hash = IF k = 1 THEN LastHash(log)
                                            ELSE batch[k - 1].current_hash
      BY <3>1 DEF FitsBatch
    <3>3. batch[k].event_seq = i - 1
      BY <3>2, <1>4
    <3>4. CASE k = 1
      <4>1. i - 1 = Len(log) /\ new[i - 1] = log[Len(log)]
        BY <3>4, <1>2, <1>4
      <4>2. LastHash(log) = log[Len(log)].current_hash
        BY <1>2, LogTyped
      <4> QED
        BY <3>1, <3>2, <3>3, <3>4, <4>1, <4>2
    <3>5. CASE k # 1
      <4>1. /\ i - 1 \in Len(log) + 1 .. Len(log) + Len(batch)
            /\ (i - 1) - Len(log) = k - 1
        BY <3>1, <3>5, <1>4
      <4>2. new[i - 1] = batch[k - 1]
        BY <4>1, <1>4
      <4> QED
        BY <3>1, <3>2, <3>3, <3>5, <4>2
    <3> QED
      BY <3>4, <3>5
  <2> QED
    BY <2>1, <2>2, <1>4
<1>8. CausesOK(row2.version, new)
  <2>1. row.version \in Nat
    BY BoundAssumption DEF Row
  <2>2. \A i \in 1 .. Len(log) : log[i].cause \in Nat
    <3>1. \A i \in 1 .. Len(log) : log[i] \in Event
      OBVIOUS
    <3> QED
      BY <3>1 DEF Event
  <2> SUFFICES ASSUME NEW i \in 1 .. Len(log) + Len(batch)
               PROVE  1 <= new[i].cause /\ new[i].cause <= row.version + 1
    BY <1>4 DEF CausesOK
  <2>3. CASE i <= Len(log)
    <3>1. new[i] = log[i] /\ 1 <= log[i].cause /\ log[i].cause <= row.version
          /\ log[i].cause \in Nat
      BY <1>1, <1>4, <2>2, <2>3 DEF CausesOK
    <3> QED
      BY <2>1, <3>1
  <2>4. CASE i > Len(log)
    <3>1. i - Len(log) \in 1 .. Len(batch) /\ new[i] = batch[i - Len(log)]
      BY <1>4, <2>4
    <3>2. new[i].cause = row.version + 1
      BY <3>1 DEF FitsBatch
    <3> QED
      BY <2>1, <3>2
  <2> QED
    BY <2>3, <2>4, <1>4
<1>9. WindowOK(row2.status, new[1].payload.setup, FrontierOf(new))
  BY <1>1, <1>3, <1>5
<1> QED
  BY <1>5, <1>6, <1>7, <1>8, <1>9 DEF SessionOK, new

-----------------------------------------------------------------------------
(***************************************************************************)
(* One session in a step of the store                                      *)
(***************************************************************************)

\* The log only grows, by events of the next version.
Grows(version, log, log2) ==
    /\ Len(log) <= Len(log2)
    /\ \A i \in 1 .. Len(log) : log2[i] = log[i]
    /\ \A i \in Len(log) + 1 .. Len(log2) : log2[i].cause = version + 1

\* Nothing, a lifecycle event, or a command with its batch.
Moves(row, row2, log, log2, mine, mine2) ==
    \/ row2.version = row.version /\ log2 = log /\ mine2 = mine
    \/ /\ row2.version = row.version + 1
       /\ mine2 = mine
       /\ \E e \in Event : /\ log2 = Append(log, e)
                           /\ e.cause = row.version + 1
                           /\ e.event_type # "TRADE"
    \/ /\ row2.version = row.version + 1
       /\ \E d \in Command : d.expected = row.version /\ mine2 = mine \cup {d}
       /\ \E batch \in Seq(Event) : /\ log2 = log \o batch
                                    /\ FitsBatch(row.version, log, batch)

MovesStep ==
    \A s \in SessionId :
        Moves(sessions[s], sessions'[s], domain_events[s], domain_events'[s],
              OfSession(commands, s), OfSession(commands', s))

LEMMA MovesGrows ==
    ASSUME NEW row, NEW row2, NEW log \in Seq(Event), NEW log2, NEW mine, NEW mine2,
           Moves(row, row2, log, log2, mine, mine2)
    PROVE  Grows(row.version, log, log2) /\ log2 \in Seq(Event)
<1>1. CASE log2 = log
  BY <1>1 DEF Grows
<1>2. ASSUME NEW e \in Event, log2 = Append(log, e), e.cause = row.version + 1
      PROVE  Grows(row.version, log, log2) /\ log2 \in Seq(Event)
  <2>1. /\ Len(log2) = Len(log) + 1 /\ Len(log) \in Nat /\ log2[Len(log) + 1] = e
        /\ \A i \in 1 .. Len(log) : log2[i] = log[i]
        /\ log2 \in Seq(Event)
    BY <1>2, AppendFacts
  <2>2. \A i \in Len(log) + 1 .. Len(log2) : i = Len(log) + 1
    BY <2>1
  <2> QED
    BY <1>2, <2>1, <2>2 DEF Grows
<1>3. ASSUME NEW batch \in Seq(Event), log2 = log \o batch,
             FitsBatch(row.version, log, batch)
      PROVE  Grows(row.version, log, log2) /\ log2 \in Seq(Event)
  <2>1. /\ Len(log2) = Len(log) + Len(batch) /\ Len(log) \in Nat /\ Len(batch) \in Nat
        /\ \A i \in 1 .. Len(log) : log2[i] = log[i]
        /\ \A i \in Len(log) + 1 .. Len(log) + Len(batch) :
              i - Len(log) \in 1 .. Len(batch) /\ log2[i] = batch[i - Len(log)]
        /\ log2 \in Seq(Event)
    BY <1>3, ConcatFacts
  <2>2. \A i \in Len(log) + 1 .. Len(log2) : log2[i].cause = row.version + 1
    BY <1>3, <2>1 DEF FitsBatch
  <2> QED
    BY <2>1, <2>2 DEF Grows
<1> QED
  BY <1>1, <1>2, <1>3 DEF Moves

\* The events of an old version stay what they are.
LEMMA SeqsKept ==
    ASSUME NEW log \in Seq(Event), NEW log2 \in Seq(Event), NEW version \in Nat,
           NEW v \in Nat, v <= version, Grows(version, log, log2)
    PROVE  TradeSeqs(log2, v) = TradeSeqs(log, v)
<1>1. /\ DOMAIN log = 1 .. Len(log) /\ DOMAIN log2 = 1 .. Len(log2)
      /\ Len(log) \in Nat /\ Len(log2) \in Nat
  OBVIOUS
<1>2. ASSUME NEW i \in DOMAIN log2, log2[i].cause = v
      PROVE  i \in DOMAIN log
  <2>1. ~(i \in Len(log) + 1 .. Len(log2))
    BY <1>2 DEF Grows
  <2> QED
    BY <1>1, <2>1
<1>3. \A i \in DOMAIN log : i \in DOMAIN log2 /\ log2[i] = log[i]
  BY <1>1 DEF Grows
<1> QED
  BY <1>2, <1>3 DEF TradeSeqs

\* What a call relied on when it passed the check still holds.
LEMMA CallKept ==
    ASSUME NEW call \in AppendCall, NEW row, NEW row2,
           NEW log \in Seq(Event), NEW log2 \in Seq(Event), NEW version,
           CallOK(call, row, log), row2.status \notin Unpinned,
           Grows(version, log, log2)
    PROVE  CallOK(call, row2, log2)
<1>1. Len(log) \in Nat /\ Len(log2) \in Nat /\ call.seq \in Nat
  BY DEF AppendCall
<1>2. ASSUME call.stage = "write", call.count > 0
      PROVE  call.seq <= Len(log2) /\ call.prior = HashAfter(log2, call.seq)
  <2>1. call.seq <= Len(log) /\ call.prior = HashAfter(log, call.seq)
    BY <1>2 DEF CallOK
  <2>2. call.seq # 0 => log2[call.seq] = log[call.seq]
    BY <1>1, <2>1 DEF Grows
  <2> QED
    BY <1>1, <2>1, <2>2 DEF HashAfter, Grows
<1> QED
  BY <1>2 DEF CallOK

\* The versions that commands made are versions the session had.
LEMMA MadeBounded ==
    ASSUME NEW version, NEW log, NEW table, Accounted(version, log, table), NEW d \in table
    PROVE  d.expected + 1 \in 1 .. version
  BY DEF Accounted

LEMMA AnswerKept ==
    ASSUME NEW call \in AppendCall, NEW table \in SUBSET Command, NEW table2,
           table \subseteq table2,
           NEW log \in Seq(Event), NEW log2 \in Seq(Event), NEW version \in Nat,
           Accounted(version, log, OfSession(table, call.command.session)),
           Grows(version, log, log2), Answered(call, table, log)
    PROVE  Answered(call, table2, log2)
<1>1. PICK d \in table :
         /\ d.session = call.command.session
         /\ d.key = call.command.key
         /\ d.payload_hash = call.command.payload_hash
         /\ d.expected < call.version
         /\ call.seqs = TradeSeqs(log, d.expected + 1)
  BY DEF Answered
<1>2. d \in OfSession(table, call.command.session)
  BY <1>1 DEF OfSession
<1>3. d.expected + 1 \in 1 .. version
  BY <1>2, MadeBounded
<1>4. TradeSeqs(log2, d.expected + 1) = TradeSeqs(log, d.expected + 1)
  BY <1>3, SeqsKept
<1> QED
  BY <1>1, <1>4 DEF Answered

-----------------------------------------------------------------------------
(***************************************************************************)
(* The account of versions                                                 *)
(***************************************************************************)

LEMMA CausesAppend ==
    ASSUME NEW log \in Seq(Event), NEW e \in Event, e.event_type # "TRADE"
    PROVE  LifecycleCauses(Append(log, e)) = LifecycleCauses(log) \cup {e.cause}
<1> DEFINE new == Append(log, e)
<1>1. /\ DOMAIN new = 1 .. Len(log) + 1 /\ DOMAIN log = 1 .. Len(log) /\ Len(log) \in Nat
      /\ new[Len(log) + 1] = e /\ \A i \in 1 .. Len(log) : new[i] = log[i]
  BY AppendFacts
<1> HIDE DEF new
<1>2. DOMAIN new = DOMAIN log \cup {Len(log) + 1}
  BY <1>1
<1>3. \A c : c \in LifecycleCauses(new) <=>
                \E i \in DOMAIN new : new[i].event_type # "TRADE" /\ c = new[i].cause
  BY DEF LifecycleCauses
<1>4. \A c : c \in LifecycleCauses(log) <=>
                \E i \in DOMAIN log : log[i].event_type # "TRADE" /\ c = log[i].cause
  BY DEF LifecycleCauses
<1>5. \A i \in DOMAIN log : new[i] = log[i]
  BY <1>1
<1>6. LifecycleCauses(new) \subseteq LifecycleCauses(log) \cup {e.cause}
  BY <1>1, <1>2, <1>3, <1>4, <1>5
<1>7. LifecycleCauses(log) \subseteq LifecycleCauses(new)
  BY <1>2, <1>3, <1>4, <1>5
<1>8. e.cause \in LifecycleCauses(new)
  BY <1>1, <1>2, <1>3
<1> QED
  BY <1>6, <1>7, <1>8 DEF new

LEMMA CausesBatch ==
    ASSUME NEW log \in Seq(Event), NEW batch \in Seq(Event), NEW version,
           FitsBatch(version, log, batch)
    PROVE  LifecycleCauses(log \o batch) = LifecycleCauses(log)
<1> DEFINE new == log \o batch
<1>1. /\ DOMAIN log = 1 .. Len(log) /\ DOMAIN new = 1 .. Len(log) + Len(batch)
      /\ Len(log) \in Nat /\ Len(batch) \in Nat
      /\ \A i \in 1 .. Len(log) : new[i] = log[i]
      /\ \A i \in Len(log) + 1 .. Len(log) + Len(batch) :
            i - Len(log) \in 1 .. Len(batch) /\ new[i] = batch[i - Len(log)]
  BY ConcatFacts
<1> HIDE DEF new
<1>2. \A i \in Len(log) + 1 .. Len(log) + Len(batch) : new[i].event_type = "TRADE"
  BY <1>1 DEF FitsBatch
<1>3. {j \in DOMAIN new : new[j].event_type # "TRADE"}
         = {j \in DOMAIN log : log[j].event_type # "TRADE"}
  BY <1>1, <1>2
<1>4. \A j \in DOMAIN log : new[j] = log[j]
  BY <1>1
<1> QED
  BY <1>3, <1>4 DEF LifecycleCauses, new

\* The next version has exactly one maker.
LEMMA MovesAccounted ==
    ASSUME NEW row \in Row, NEW row2, NEW log \in Seq(Event), NEW log2,
           NEW mine \in SUBSET Command, NEW mine2,
           Moves(row, row2, log, log2, mine, mine2),
           Accounted(row.version, log, mine)
    PROVE  Accounted(row2.version, log2, mine2)
<1> DEFINE made  == {d.expected + 1 : d \in mine}
           made2 == {d.expected + 1 : d \in mine2}
           v     == row.version
<1>1. v \in Nat
  BY BoundAssumption DEF Row
<1>2. /\ made \cap LifecycleCauses(log) = {}
      /\ made \cup LifecycleCauses(log) = 1 .. v
      /\ \A d, e \in mine : d.expected = e.expected => d = e
  BY DEF Accounted
<1>3. 1 .. v + 1 = (1 .. v) \cup {v + 1} /\ v + 1 \notin 1 .. v
  BY <1>1
<1>4. CASE row2.version = v /\ log2 = log /\ mine2 = mine
  BY <1>4
<1>5. ASSUME row2.version = v + 1, mine2 = mine, NEW e \in Event,
             log2 = Append(log, e), e.cause = v + 1, e.event_type # "TRADE"
      PROVE  Accounted(row2.version, log2, mine2)
  <2>1. LifecycleCauses(log2) = LifecycleCauses(log) \cup {v + 1}
    BY <1>5, CausesAppend
  <2>2. /\ made \cap LifecycleCauses(log2) = {}
        /\ made \cup LifecycleCauses(log2) = 1 .. v + 1
    <3> HIDE DEF made, v
    <3> QED
      BY <1>2, <1>3, <2>1
  <2> QED
    BY <1>2, <1>5, <2>2 DEF Accounted
<1>6. ASSUME row2.version = v + 1, NEW d \in Command, d.expected = v,
             mine2 = mine \cup {d}, NEW batch \in Seq(Event),
             log2 = log \o batch, FitsBatch(v, log, batch)
      PROVE  Accounted(row2.version, log2, mine2)
  <2>1. LifecycleCauses(log2) = LifecycleCauses(log)
    BY <1>6, CausesBatch
  <2>2. made2 = made \cup {v + 1}
    BY <1>6
  <2>3. /\ made2 \cap LifecycleCauses(log2) = {}
        /\ made2 \cup LifecycleCauses(log2) = 1 .. v + 1
    <3> HIDE DEF made, made2, v
    <3> QED
      BY <1>2, <1>3, <2>1, <2>2
  <2>4. \A e \in mine : e.expected # v
    <3> SUFFICES ASSUME NEW e \in mine, e.expected = v PROVE FALSE
      OBVIOUS
    <3>1. v + 1 \in made
      OBVIOUS
    <3> HIDE DEF made
    <3> QED
      BY <1>2, <1>3, <3>1
  <2>5. \A e, f \in mine2 : e.expected = f.expected => e = f
    BY <1>2, <1>6, <2>4
  <2> QED
    BY <1>6, <2>3, <2>5 DEF Accounted
<1> QED
  BY <1>4, <1>5, <1>6 DEF Moves

LEMMA OfSessionTyped ==
    ASSUME NEW table \in SUBSET Command, NEW s
    PROVE  OfSession(table, s) \in SUBSET Command
  BY DEF OfSession

LEMMA StepAccounted ==
    ASSUME Inv, StoreTyped, AllAccounted, MovesStep
    PROVE  AllAccounted'
<1> SUFFICES ASSUME NEW s \in SessionId
             PROVE  Accounted(sessions'[s].version, domain_events'[s],
                              OfSession(commands', s))
  BY DEF AllAccounted
<1>1. sessions[s] \in Row /\ domain_events[s] \in Seq(Event)
  BY ReadTyped
<1>2. OfSession(commands, s) \in SUBSET Command
  BY OfSessionTyped DEF StoreTyped
<1>3. Moves(sessions[s], sessions'[s], domain_events[s], domain_events'[s],
            OfSession(commands, s), OfSession(commands', s))
  BY DEF MovesStep
<1>4. Accounted(sessions[s].version, domain_events[s], OfSession(commands, s))
  BY DEF AllAccounted
<1> QED
  BY <1>1, <1>2, <1>3, <1>4, MovesAccounted

\* What holds of a call that a step does not touch holds after it.
LEMMA OthersKept ==
    ASSUME Inv, StoreTyped, AllAccounted, MovesStep, commands \subseteq commands',
           \A s \in SessionId : sessions[s].status \notin Unpinned =>
                                   sessions'[s].status \notin Unpinned,
           NEW call \in AppendCall,
           CallOK(call, sessions[call.command.session],
                  domain_events[call.command.session])
    PROVE  /\ CallOK(call, sessions'[call.command.session],
                     domain_events'[call.command.session])
           /\ Answered(call, commands, domain_events[call.command.session]) =>
                 Answered(call, commands', domain_events'[call.command.session])
<1> DEFINE s == call.command.session
<1>1. s \in SessionId
  BY DEF AppendCall, Command
<1> HIDE DEF s
<1>2. /\ sessions[s] \in Row /\ domain_events[s] \in Seq(Event)
      /\ sessions[s].version \in Nat
  BY <1>1, ReadTyped
<1>3. Moves(sessions[s], sessions'[s], domain_events[s], domain_events'[s],
            OfSession(commands, s), OfSession(commands', s))
  BY <1>1 DEF MovesStep
<1>4. Grows(sessions[s].version, domain_events[s], domain_events'[s])
      /\ domain_events'[s] \in Seq(Event)
  BY <1>2, <1>3, MovesGrows
<1>5. CallOK(call, sessions[s], domain_events[s]) /\ sessions[s].status \notin Unpinned
  BY DEF CallOK, s
<1>6. CallOK(call, sessions'[s], domain_events'[s])
  BY <1>1, <1>2, <1>4, <1>5, CallKept
<1>7. ASSUME Answered(call, commands, domain_events[s])
      PROVE  Answered(call, commands', domain_events'[s])
  <2>1. Accounted(sessions[s].version, domain_events[s],
                  OfSession(commands, call.command.session))
    BY <1>1 DEF AllAccounted, s
  <2>2. commands \in SUBSET Command
    BY DEF StoreTyped
  <2> QED
    BY <1>2, <1>4, <1>7, <2>1, <2>2, AnswerKept
<1> QED
  BY <1>6, <1>7 DEF s

-----------------------------------------------------------------------------
(***************************************************************************)
(* Steps                                                                   *)
(***************************************************************************)

\* A step that only moves the call of one writer.
LEMMA QuietStep ==
    ASSUME StoreInv, UNCHANGED <<vars, commands>>, NEW w \in Writer,
           NEW call \in AppendCall \cup {NoCall},
           appends' = [appends EXCEPT ![w] = call],
           call # NoCall =>
               CallOK(call, sessions[call.command.session],
                      domain_events[call.command.session]),
           call # NoCall /\ call.stage = "replayed" =>
               Answered(call, commands, domain_events[call.command.session])
    PROVE  StoreInv'
<1>1. Inv'
  BY NextInv DEF StoreInv
<1>2. UNCHANGED <<sessions, domain_events, commands>>
  BY DEF vars
<1>3. StoreTyped'
  BY <1>2 DEF StoreInv, StoreTyped
<1>4. NoneOpen' /\ AllAccounted' /\ KeysUnique'
  BY <1>2 DEF StoreInv, NoneOpen, AllAccounted, KeysUnique
<1>5. ASSUME NEW x \in Writer
      PROVE  appends'[x] = IF x = w THEN call ELSE appends[x]
  BY DEF StoreInv, StoreTyped
<1>6. CallsOK'
  BY <1>2, <1>5 DEF StoreInv, CallsOK
<1>7. AllAnswered'
  BY <1>2, <1>5 DEF StoreInv, AllAnswered
<1> QED
  BY <1>1, <1>3, <1>4, <1>6, <1>7 DEF StoreInv

\* The call of a writer in flight.
LEMMA InFlight ==
    ASSUME StoreInv, NEW w \in Writer, appends[w] # NoCall
    PROVE  LET call == appends[w]
               s    == call.command.session
           IN  /\ call \in AppendCall /\ call.command \in Command
               /\ s \in SessionId /\ call.command.expected \in Nat
               /\ call.seq \in Nat /\ call.count \in Nat
               /\ CallOK(call, sessions[s], domain_events[s])
               /\ sessions[s].status \notin Unpinned
               /\ sessions[s] \in Row /\ domain_events[s] \in Seq(Event)
               /\ sessions[s].version \in Nat
<1>1. appends[w] \in AppendCall
  BY DEF StoreInv, StoreTyped
<1>2. /\ appends[w].command \in Command /\ appends[w].seq \in Nat
      /\ appends[w].count \in Nat
  BY <1>1, StoreAssumption DEF AppendCall
<1>3. appends[w].command.session \in SessionId /\ appends[w].command.expected \in Nat
  BY <1>2 DEF Command
<1>4. CallOK(appends[w], sessions[appends[w].command.session],
             domain_events[appends[w].command.session])
  BY DEF StoreInv, CallsOK
<1>5. sessions[appends[w].command.session].status \notin Unpinned
  BY <1>4 DEF CallOK
<1> QED
  BY <1>1, <1>2, <1>3, <1>4, <1>5, ReadTyped DEF StoreInv

\* The end of a pinned log is where NextSeq and LastHash put it.
LEMMA LogEnd ==
    ASSUME Inv, NEW s \in SessionId, sessions[s].status \notin Unpinned
    PROVE  LET log == domain_events[s]
           IN  /\ Len(log) > 0 /\ Len(log) \in Nat
               /\ log[Len(log)].event_seq = Len(log) - 1
               /\ NextSeq(log) = Len(log)
               /\ LastHash(log) = HashAfter(log, Len(log))
<1> DEFINE log == domain_events[s]
<1>1. log \in Seq(Event) /\ PinOK(sessions[s], log) /\ ChainOK(log)
  BY ReadTyped DEF Inv, SessionOK
<1>2. Len(log) > 0 /\ Len(log) \in Nat /\ DOMAIN log = 1 .. Len(log)
  BY <1>1 DEF PinOK
<1>3. log[Len(log)].event_seq = Len(log) - 1
  BY <1>1, <1>2 DEF ChainOK
<1>4. /\ NextSeq(log) = log[Len(log)].event_seq + 1
      /\ LastHash(log) = log[Len(log)].current_hash
  BY <1>1, <1>2, LogTyped
<1> QED
  BY <1>2, <1>3, <1>4 DEF HashAfter

LEMMA MoveStep ==
    ASSUME StoreInv, NEW w \in Writer, appends[w] # NoCall,
           NEW stage \in {"check", "write", "failed"}, Move(w, stage),
           stage = "write" => ChainFits(appends[w])
    PROVE  StoreInv'
<1> DEFINE old  == appends[w]
           call == [old EXCEPT !.stage = stage]
           s    == old.command.session
<1>1. /\ old \in AppendCall /\ s \in SessionId
      /\ CallOK(old, sessions[s], domain_events[s])
      /\ sessions[s].status \notin Unpinned /\ domain_events[s] \in Seq(Event)
  BY InFlight
<1>2. /\ call \in AppendCall /\ call.stage = stage /\ call.command = old.command
      /\ call.seq = old.seq /\ call.prior = old.prior /\ call.count = old.count
  BY <1>1 DEF AppendCall
<1>3. appends' = [appends EXCEPT ![w] = call] /\ UNCHANGED <<vars, commands>>
  BY DEF Move
<1> HIDE DEF call
<1>4. ASSUME stage = "write", call.count > 0
      PROVE  /\ call.seq <= Len(domain_events[s])
             /\ call.prior = HashAfter(domain_events[s], call.seq)
  <2>1. /\ old.seq = NextSeq(domain_events[s])
        /\ old.prior = LastHash(domain_events[s])
    BY <1>2, <1>4 DEF ChainFits
  <2>2. /\ NextSeq(domain_events[s]) = Len(domain_events[s])
        /\ LastHash(domain_events[s]) = HashAfter(domain_events[s], Len(domain_events[s]))
        /\ Len(domain_events[s]) \in Nat
    BY <1>1, LogEnd DEF StoreInv
  <2> QED
    BY <1>2, <2>1, <2>2
<1>5. CallOK(call, sessions[s], domain_events[s])
  BY <1>1, <1>2, <1>4 DEF CallOK
<1>6. call.stage # "replayed"
  BY <1>2
<1> QED
  BY <1>2, <1>3, <1>5, <1>6, QuietStep

LEMMA ReturnStep ==
    ASSUME StoreInv, NEW w \in Writer, Return(w)
    PROVE  StoreInv'
  BY QuietStep DEF Return

LEMMA CheckStep ==
    ASSUME StoreInv, NEW w \in Writer, appends[w] # NoCall, Check(w)
    PROVE  StoreInv'
  BY MoveStep DEF Check

\* A retry finds the row of its key, which is the only one.
LEMMA LookupStep ==
    ASSUME StoreInv, NEW w \in Writer, appends[w] # NoCall, Lookup(w)
    PROVE  StoreInv'
<1> DEFINE old == appends[w]
           s   == old.command.session
<1>1. CASE Move(w, "check")
  BY <1>1, MoveStep
<1>2. CASE Move(w, "failed")
  BY <1>2, MoveStep
<1>3. ASSUME NEW d \in Stored(old.command),
             d.payload_hash = old.command.payload_hash,
             appends' = [appends EXCEPT ![w].stage = "replayed",
                            ![w].version = sessions[d.session].version,
                            ![w].seqs = SeqsOf(d)],
             UNCHANGED <<vars, commands>>
      PROVE  StoreInv'
  <2>1. /\ old \in AppendCall /\ s \in SessionId
        /\ CallOK(old, sessions[s], domain_events[s])
        /\ sessions[s].version \in Nat /\ domain_events[s] \in Seq(Event)
    BY InFlight
  <2>2. d \in commands /\ d.session = s /\ d.key = old.command.key /\ d \in Command
    BY <1>3 DEF Stored, StoreInv, StoreTyped
  <2>3. SeqsOf(d) = TradeSeqs(domain_events[s], d.expected + 1)
    BY <2>2 DEF SeqsOf, TradeSeqs
  <2>4. SeqsOf(d) \in SUBSET Nat
    <3>1. \A i \in DOMAIN domain_events[s] : domain_events[s][i] \in Event
      BY <2>1
    <3> QED
      BY <2>3, <3>1 DEF TradeSeqs, Event
  <2>5. d.expected < sessions[s].version
    <3>1. d \in OfSession(commands, s)
      BY <2>2 DEF OfSession
    <3>2. Accounted(sessions[s].version, domain_events[s], OfSession(commands, s))
      BY <2>1 DEF StoreInv, AllAccounted
    <3>3. d.expected + 1 \in 1 .. sessions[s].version
      BY <3>1, <3>2, MadeBounded
    <3>4. d.expected \in Nat
      BY <2>2 DEF Command
    <3> QED
      BY <2>1, <3>3, <3>4
  <2> DEFINE seqs == SeqsOf(d)
             call == [old EXCEPT !.stage = "replayed", !.version = sessions[s].version,
                                 !.seqs = seqs]
  <2>6. appends' = [appends EXCEPT ![w] = call]
    BY <1>3, <2>2
  <2> HIDE DEF seqs
  <2>7. /\ call \in AppendCall /\ call.stage = "replayed" /\ call.command = old.command
        /\ call.version = sessions[s].version /\ call.seqs = seqs
    BY <2>1, <2>4 DEF AppendCall, seqs
  <2> HIDE DEF call
  <2>8. CallOK(call, sessions[s], domain_events[s])
    BY <2>1, <2>7 DEF CallOK
  <2>9. Answered(call, commands, domain_events[s])
    BY <1>3, <2>2, <2>3, <2>5, <2>7 DEF Answered, seqs
  <2> QED
    BY <1>3, <2>6, <2>7, <2>8, <2>9, QuietStep
<1> QED
  BY <1>1, <1>2, <1>3 DEF Lookup

LEMMA CallStep ==
    ASSUME StoreInv, NEW w \in Writer, NEW s \in SessionId, NEW key \in Key,
           NEW hash \in PayloadHash, NEW count \in 0 .. MaxEvents,
           NEW expected \in sessions[s].version .. sessions[s].version + WriterLead,
           NEW seq \in SeenLengths(s, count), NEW seen \in SeenLengths(s, count),
           AppendCommand(w, s, key, hash, expected, seq, seen, count)
    PROVE  StoreInv'
<1> DEFINE log  == domain_events[s]
           cmd  == [session |-> s, key |-> key, payload_hash |-> hash,
                    expected |-> expected]
           prior == HashAfter(log, seen)
           call == [stage |-> "lookup", seq |-> seq, prior |-> prior,
                    command |-> cmd, count |-> count, version |-> 0, seqs |-> {}]
<1>1. /\ sessions[s] \in Row /\ log \in Seq(Event) /\ sessions[s].version \in Nat
      /\ Len(log) \in Nat
  BY ReadTyped DEF StoreInv
<1>2. sessions[s].status \notin Unpinned
  BY DEF StoreInv, NoneOpen, Unpinned, AppendCommand, Exists
<1>3. seq \in Nat /\ seen \in Nat /\ seen <= Len(log)
  BY <1>1 DEF SeenLengths
<1>4. expected \in Nat /\ expected < MaxVersion
  BY <1>1, StoreAssumption DEF AppendCommand
<1>5. prior \in Hash
  <2>1. CASE seen = 0
    BY <2>1 DEF HashAfter, Hash, ZERO_HASH
  <2>2. CASE seen # 0
    <3>1. log[seen] \in Event
      BY <1>1, <1>3, <2>2
    <3> QED
      BY <2>2, <3>1 DEF HashAfter, Event
  <2> QED
    BY <2>1, <2>2
<1>6. appends' = [appends EXCEPT ![w] = call] /\ UNCHANGED <<vars, commands>>
  BY DEF AppendCommand
<1>7. cmd \in Command /\ cmd.session = s /\ cmd.expected = expected
  BY <1>4 DEF Command
<1> HIDE DEF prior, cmd
<1>8. /\ call \in AppendCall /\ call.stage = "lookup" /\ call.command = cmd
  BY <1>3, <1>5, <1>7 DEF AppendCall
<1> HIDE DEF call
<1>9. CallOK(call, sessions[s], domain_events[s])
  BY <1>2, <1>4, <1>7, <1>8 DEF CallOK
<1> QED
  BY <1>6, <1>7, <1>8, <1>9, QuietStep

\* The batch a call writes after the constraints held.
LEMMA BatchFits ==
    ASSUME StoreInv, NEW w \in Writer, appends[w] # NoCall,
           appends[w].stage = "write",
           VersionMatches(appends[w]), ConstraintsHold(appends[w])
    PROVE  LET call  == appends[w]
               s     == call.command.session
               batch == [k \in 1 .. call.count |-> TradeEvent(call, k)]
           IN  /\ batch \in Seq(Event)
               /\ FitsBatch(sessions[s].version, domain_events[s], batch)
<1> DEFINE call  == appends[w]
           s     == call.command.session
           log   == domain_events[s]
           v     == call.command.expected
           batch == [k \in 1 .. call.count |-> TradeEvent(call, k)]
<1>1. /\ call \in AppendCall /\ s \in SessionId /\ v \in Nat
      /\ call.seq \in Nat /\ call.count \in Nat /\ call.prior \in Hash
      /\ CallOK(call, sessions[s], log) /\ sessions[s].status \notin Unpinned
      /\ log \in Seq(Event)
  BY InFlight DEF AppendCall
<1>2. v = sessions[s].version
  BY DEF VersionMatches
<1>3. FrontierOf(log) \in Int
  BY <1>1, PinnedFacts DEF StoreInv, WindowOK
<1>4. call.count > 0 => call.seq = Len(log) /\ call.prior = LastHash(log)
  <2> SUFFICES ASSUME call.count > 0
               PROVE  call.seq = Len(log) /\ call.prior = LastHash(log)
    OBVIOUS
  <2>1. /\ Len(log) > 0 /\ Len(log) \in Nat /\ log[Len(log)].event_seq = Len(log) - 1
        /\ LastHash(log) = HashAfter(log, Len(log))
    BY <1>1, LogEnd DEF StoreInv
  <2>2. Len(log) \in DOMAIN log
    BY <1>1, <2>1
  <2>3. log[Len(log)].event_seq < call.seq
    BY <2>2 DEF ConstraintsHold
  <2>4. call.seq <= Len(log) /\ call.prior = HashAfter(log, call.seq)
    BY <1>1 DEF CallOK
  <2> QED
    BY <1>1, <2>1, <2>3, <2>4
<1>5. ASSUME NEW k \in 1 .. call.count
      PROVE  TradeEvent(call, k) \in Event
  <2>1. call.seq + k - 1 \in Nat /\ v + 1 \in Nat /\ k \in Nat
    BY <1>1
  <2>2. k # 1 => k - 1 \in Nat
    BY <1>1
  <2>3. <<v + 1, k>> \in Hash
    BY <2>1 DEF Hash
  <2>4. (IF k = 1 THEN call.prior ELSE <<v + 1, k - 1>>) \in Hash
    BY <1>1, <2>1, <2>2 DEF Hash
  <2>5. "TRADE" \in EventType /\ EmptyPayload \in Payload
    BY PayloadsTyped DEF EventType
  <2> QED
    BY <1>3, <2>1, <2>3, <2>4, <2>5 DEF TradeEvent, Event
<1>6. batch \in [1 .. call.count -> Event]
  BY <1>5
<1>7. batch \in Seq(Event) /\ Len(batch) = call.count
  <2>1. batch \in Seq(Event)
    <3> HIDE DEF batch, call
    <3> QED
      BY <1>1, <1>6, SeqDef
  <2>2. DOMAIN batch = 1 .. call.count
    OBVIOUS
  <2>3. DOMAIN batch = 1 .. Len(batch) /\ Len(batch) \in Nat
    BY <2>1, LenProperties
  <2> HIDE DEF batch, call
  <2> QED
    BY <1>1, <2>1, <2>2, <2>3
<1>8. ASSUME NEW k \in 1 .. call.count
      PROVE  /\ batch[k].event_type = "TRADE"
             /\ batch[k].cause = v + 1
             /\ batch[k].event_seq = call.seq + k - 1
             /\ batch[k].prior_hash = IF k = 1 THEN call.prior ELSE <<v + 1, k - 1>>
             /\ batch[k].current_hash = <<v + 1, k>>
  <2>1. batch[k] = TradeEvent(call, k)
    OBVIOUS
  <2> HIDE DEF batch
  <2> QED
    BY <2>1 DEF TradeEvent
<1>9. FitsBatch(v, log, batch)
  <2> HIDE DEF batch
  <2> SUFFICES ASSUME NEW k \in 1 .. call.count
               PROVE  /\ batch[k].event_type = "TRADE"
                      /\ batch[k].cause = v + 1
                      /\ batch[k].event_seq = Len(log) + k - 1
                      /\ batch[k].prior_hash = IF k = 1 THEN LastHash(log)
                                                        ELSE batch[k - 1].current_hash
    BY <1>7 DEF FitsBatch
  <2>1. call.count > 0
    BY <1>1
  <2>2. call.seq = Len(log) /\ call.prior = LastHash(log)
    BY <1>4, <2>1
  <2>3. k # 1 => k - 1 \in 1 .. call.count
    BY <1>1
  <2>4. k # 1 => batch[k - 1].current_hash = <<v + 1, k - 1>>
    BY <1>8, <2>3
  <2> QED
    BY <1>8, <2>2, <2>4
<1> QED
  BY <1>2, <1>7, <1>9

\* The UPDATE and the INSERTs of append_command.
LEMMA WriteStep ==
    ASSUME StoreInv, NEW w \in Writer, appends[w] # NoCall, Write(w)
    PROVE  StoreInv'
<1> DEFINE old   == appends[w]
           cmd   == old.command
           s     == cmd.session
           v     == cmd.expected
           log   == domain_events[s]
           batch == [k \in 1 .. old.count |-> TradeEvent(old, k)]
           row   == [sessions[s] EXCEPT !.version = v + 1]
           seqs  == {old.seq + k - 1 : k \in 1 .. old.count}
           call  == [old EXCEPT !.stage = "appended", !.version = v + 1, !.seqs = seqs]
<1>1. CASE Move(w, "failed")
  BY <1>1, MoveStep
<1>2. CASE /\ VersionMatches(old) /\ ConstraintsHold(old)
           /\ sessions' = [sessions EXCEPT ![s].version = v + 1]
           /\ commands' = commands \cup {cmd}
           /\ domain_events' = [domain_events EXCEPT ![s] = @ \o batch]
           /\ appends' = [appends EXCEPT ![w].stage = "appended",
                  ![w].version = v + 1, ![w].seqs = seqs]
           /\ UNCHANGED <<rulesets, registered, revoked, commits>>
  <2>1. /\ old \in AppendCall /\ cmd \in Command /\ s \in SessionId /\ v \in Nat
        /\ old.seq \in Nat /\ old.count \in Nat
        /\ CallOK(old, sessions[s], log) /\ sessions[s].status \notin Unpinned
        /\ sessions[s] \in Row /\ log \in Seq(Event) /\ sessions[s].version \in Nat
    BY InFlight
  <2>2. v = sessions[s].version /\ v < MaxVersion /\ Stored(cmd) = {}
    BY <1>2, <2>1 DEF VersionMatches, ConstraintsHold, CallOK
  <2>3. batch \in Seq(Event) /\ FitsBatch(sessions[s].version, log, batch)
    BY <1>2, BatchFits DEF Write
  <2>4. /\ sessions' = [sessions EXCEPT ![s] = row]
        /\ domain_events' = [domain_events EXCEPT ![s] = log \o batch]
        /\ appends' = [appends EXCEPT ![w] = call]
    BY <1>2
  <2>5. /\ row \in Row /\ row.version = sessions[s].version + 1
        /\ row.status = sessions[s].status /\ row.ruleset_id = sessions[s].ruleset_id
    <3>1. v + 1 \in 0 .. MaxVersion
      BY <2>1, <2>2, BoundAssumption
    <3> QED
      BY <2>1, <2>2, <3>1 DEF Row
  <2>6. seqs \in SUBSET Nat
    <3>1. \A k \in 1 .. old.count : old.seq + k - 1 \in Nat
      BY <2>1
    <3> QED
      BY <3>1
  <2> HIDE DEF batch, row, seqs
  <2>7. call \in AppendCall /\ call.stage = "appended" /\ call.command = cmd
    <3>1. v + 1 \in Nat
      BY <2>1
    <3>2. PICK n \in Nat : n = v + 1
      BY <3>1
    <3>3. call = [old EXCEPT !.stage = "appended", !.version = n, !.seqs = seqs]
      BY <3>2
    <3> HIDE DEF call
    <3> QED
      BY <2>1, <2>6, <3>3 DEF AppendCall
  <2> HIDE DEF call
  <2>8. SessionOK(row, log \o batch) /\ (log \o batch)[1] = log[1]
        /\ log \o batch \in Seq(Event)
    <3>1. SessionOK(sessions[s], log)
      BY <2>1 DEF StoreInv, Inv
    <3>2. log \o batch \in Seq(Event)
      BY <2>1, <2>3, ConcatFacts
    <3> HIDE DEF log, v
    <3>3. SessionOK(row, log \o batch) /\ (log \o batch)[1] = log[1]
      BY <2>1, <2>3, <2>5, <3>1, BatchOK
    <3> QED
      BY <3>2, <3>3
  <2>9. Inv'
    <3>1. RulesetOK(rulesets, row, log \o batch)
      BY <2>1, <2>5, <2>8 DEF StoreInv, Inv, RulesetOK
    <3>2. /\ rulesets' \in [RulesetId -> RulesetHash \cup {NoRuleset}]
          /\ commits' \in SUBSET CommitCall /\ CommitsOK(commits', rulesets')
          /\ \A x \in SessionId : RulesetOK(rulesets', sessions[x], domain_events[x])
          /\ RulesetOK(rulesets', row, log \o batch)
          /\ UNCHANGED <<registered, revoked>> /\ Inv
      BY <1>2, <3>1 DEF StoreInv, Inv, TypeOK
    <3> QED
      BY <2>1, <2>4, <2>5, <2>8, <3>2, OneSession
  <2>10. StoreTyped'
    <3>1. commands' \in SUBSET Command
      BY <1>2, <2>1 DEF StoreInv, StoreTyped
    <3>2. appends' \in [Writer -> AppendCall \cup {NoCall}]
      BY <2>4, <2>7 DEF StoreInv, StoreTyped
    <3> QED
      BY <3>1, <3>2 DEF StoreTyped
  <2>11. ASSUME NEW x \in SessionId
         PROVE  /\ sessions'[x] = IF x = s THEN row ELSE sessions[x]
                /\ domain_events'[x] = IF x = s THEN log \o batch ELSE domain_events[x]
    BY <2>1, <2>4 DEF StoreInv, Inv, TypeOK
  <2>12. MovesStep
    <3> SUFFICES ASSUME NEW x \in SessionId
                 PROVE  Moves(sessions[x], sessions'[x], domain_events[x],
                              domain_events'[x], OfSession(commands, x),
                              OfSession(commands', x))
      BY DEF MovesStep
    <3>1. CASE x = s
      <4>1. OfSession(commands', x) = OfSession(commands, x) \cup {cmd}
        BY <1>2, <3>1 DEF OfSession
      <4>2. sessions'[x] = row /\ domain_events'[x] = log \o batch
        BY <2>11, <3>1
      <4> QED
        BY <2>1, <2>2, <2>3, <2>5, <3>1, <4>1, <4>2 DEF Moves
    <3>2. CASE x # s
      <4>1. OfSession(commands', x) = OfSession(commands, x)
        BY <1>2, <3>2 DEF OfSession
      <4>2. sessions'[x] = sessions[x] /\ domain_events'[x] = domain_events[x]
        BY <2>11, <3>2
      <4> QED
        BY <4>1, <4>2 DEF Moves
    <3> QED
      BY <3>1, <3>2
  <2>13. AllAccounted'
    BY <2>12, StepAccounted DEF StoreInv
  <2>14. /\ NoneOpen'
         /\ \A x \in SessionId : sessions[x].status \notin Unpinned =>
                                     sessions'[x].status \notin Unpinned
    BY <2>5, <2>11 DEF StoreInv, NoneOpen
  <2>15. KeysUnique'
    BY <1>2, <2>2 DEF StoreInv, KeysUnique, Stored
  <2>16. ASSUME NEW x \in Writer, appends'[x] # NoCall
         PROVE  /\ CallOK(appends'[x], sessions'[appends'[x].command.session],
                          domain_events'[appends'[x].command.session])
                /\ appends'[x].stage = "replayed" =>
                      Answered(appends'[x], commands',
                               domain_events'[appends'[x].command.session])
    <3>1. CASE x = w
      <4>1. appends'[x] = call
        BY <2>4, <3>1 DEF StoreInv, StoreTyped
      <4>2. sessions'[s].status \notin Unpinned
        BY <2>1, <2>14
      <4> QED
        BY <2>1, <2>7, <4>1, <4>2 DEF CallOK
    <3>2. CASE x # w
      <4>1. appends'[x] = appends[x]
        BY <2>4, <3>2 DEF StoreInv, StoreTyped
      <4>2. /\ appends[x] \in AppendCall
            /\ CallOK(appends[x], sessions[appends[x].command.session],
                      domain_events[appends[x].command.session])
        BY <2>16, <4>1, InFlight
      <4>3. appends[x].stage = "replayed" =>
               Answered(appends[x], commands, domain_events[appends[x].command.session])
        BY <2>16, <4>1 DEF StoreInv, AllAnswered
      <4>4. commands \subseteq commands'
        BY <1>2
      <4> QED
        BY <2>12, <2>14, <4>1, <4>2, <4>3, <4>4, OthersKept DEF StoreInv
    <3> QED
      BY <3>1, <3>2
  <2> QED
    BY <2>9, <2>10, <2>13, <2>14, <2>15, <2>16 DEF StoreInv, CallsOK, AllAnswered
<1> QED
  BY <1>1, <1>2 DEF Write

\* No owner's call leaves a session in setup.
LEMMA OwnerOpens ==
    ASSUME Inv, NoneOpen, NEW s \in SessionId, NEW p \in Principal, OwnerStep(s, p)
    PROVE  NoneOpen'
<1>1. ASSUME NEW x \in SessionId, NEW row, row.status # "SETUP",
             sessions' = [sessions EXCEPT ![x] = row]
      PROVE  NoneOpen'
  BY <1>1 DEF NoneOpen, Inv, TypeOK
<1>2. ASSUME NEW target, target # "SETUP", AdvanceVersion(s, target)
      PROVE  NoneOpen'
  <2> DEFINE row == [sessions[s] EXCEPT !.status = target, !.version = @ + 1]
  <2>1. row.status = target
    BY DEF Inv, TypeOK, Row
  <2>2. sessions' = [sessions EXCEPT ![s] = row]
    BY <1>2 DEF AdvanceVersion
  <2> HIDE DEF row
  <2> QED
    BY <1>1, <1>2, <2>1, <2>2
<1>3. ASSUME NEW child \in SessionId, Fork(s, p, sessions[s].version, child)
      PROVE  NoneOpen'
  <2> DEFINE row == [principal |-> p, status |-> ForkStatus(s), version |-> 1,
                     ruleset_id |-> SetupOf(domain_events[s]).ruleset_id]
  <2>1. row.status # "SETUP"
    BY DEF ForkStatus
  <2>2. sessions' = [sessions EXCEPT ![child] = row]
    BY <1>3 DEF Fork
  <2> HIDE DEF row
  <2> QED
    BY <1>1, <2>1, <2>2
<1> QED
  BY <1>2, <1>3 DEF OwnerStep, Start, Pause, StatusTransition, Advance, Complete

\* A lifecycle transaction commits between the reads of append_command.
LEMMA LifecycleBetween ==
    ASSUME StoreInv, NEW s \in SessionId, NEW p \in Principal, OwnerStep(s, p),
           UNCHANGED storeVars
    PROVE  StoreInv'
<1>1. Inv /\ Inv' /\ KeepsStep /\ SpendsStep /\ NoneOpen'
  BY OwnerInv, OwnerKeeps, OwnerSpends, OwnerOpens DEF StoreInv
<1>2. commands' = commands /\ appends' = appends
  BY DEF storeVars
<1>3. MovesStep
  BY <1>1, <1>2 DEF SpendsStep, Spends, MovesStep, Moves
<1>4. \A x \in SessionId : sessions[x].status \notin Unpinned =>
                              sessions'[x].status \notin Unpinned
  BY <1>1 DEF KeepsStep, Keeps
<1>5. AllAccounted'
  BY <1>3, StepAccounted DEF StoreInv
<1>6. StoreTyped' /\ KeysUnique'
  BY <1>2 DEF StoreInv, StoreTyped, KeysUnique
<1>7. ASSUME NEW x \in Writer, appends[x] # NoCall
      PROVE  /\ CallOK(appends[x], sessions'[appends[x].command.session],
                       domain_events'[appends[x].command.session])
             /\ appends[x].stage = "replayed" =>
                   Answered(appends[x], commands',
                            domain_events'[appends[x].command.session])
  <2>1. /\ appends[x] \in AppendCall
        /\ CallOK(appends[x], sessions[appends[x].command.session],
                  domain_events[appends[x].command.session])
    BY <1>7, InFlight
  <2>2. appends[x].stage = "replayed" =>
           Answered(appends[x], commands, domain_events[appends[x].command.session])
    BY <1>7 DEF StoreInv, AllAnswered
  <2>3. commands \subseteq commands'
    BY <1>2
  <2> QED
    BY <1>3, <1>4, <2>1, <2>2, <2>3, OthersKept DEF StoreInv
<1> QED
  BY <1>1, <1>2, <1>5, <1>6, <1>7 DEF StoreInv, CallsOK, AllAnswered

LEMMA StoreStep == StoreInv /\ [StoreNext]_allVars => StoreInv'
<1> SUFFICES ASSUME StoreInv, [StoreNext]_allVars PROVE StoreInv'
  OBVIOUS
<1>1. ASSUME NEW s \in SessionId, NEW p \in Principal, OwnerStep(s, p), UNCHANGED storeVars
      PROVE  StoreInv'
  BY <1>1, LifecycleBetween
<1>2. ASSUME NEW w \in Writer, WriterStep(w)
      PROVE  StoreInv'
  BY <1>2, CallStep, LookupStep, CheckStep, WriteStep, ReturnStep DEF WriterStep
<1>3. CASE UNCHANGED allVars
  <2>1. UNCHANGED vars /\ commands' = commands /\ appends' = appends
    BY <1>3 DEF allVars, storeVars
  <2>2. sessions' = sessions /\ domain_events' = domain_events /\ Inv'
    BY <2>1, NextInv DEF vars, StoreInv
  <2> QED
    BY <2>1, <2>2 DEF StoreInv, StoreTyped, NoneOpen, CallsOK, AllAccounted,
       KeysUnique, AllAnswered
<1> QED
  BY <1>1, <1>2, <1>3 DEF StoreNext

LEMMA StoreStart == StoreInit => StoreInv
<1> SUFFICES ASSUME NEW s \in SessionId, NEW p \in Principal, NEW u \in Setup,
                    PinnedInit(s, p, u), commands = {},
                    appends = [w \in Writer |-> NoCall]
             PROVE  StoreInv
  BY DEF StoreInit
<1>1. Inv
  BY PinnedInv
<1>2. StoreTyped /\ KeysUnique /\ CallsOK /\ AllAnswered
  BY DEF StoreTyped, KeysUnique, CallsOK, AllAnswered
<1>3. NoneOpen
  BY DEF NoneOpen, PinnedInit, NoRow
<1>4. ASSUME NEW x \in SessionId
      PROVE  Accounted(sessions[x].version, domain_events[x], OfSession(commands, x))
  <2>1. OfSession(commands, x) = {}
    BY DEF OfSession
  <2>2. LifecycleCauses(domain_events[x]) = 1 .. sessions[x].version
    <3>1. CASE x = s
      <4> DEFINE e == [event_seq |-> 0, event_type |-> "SESSION_COMMITTED",
                       logical_ts |-> u.play_start, cause |-> 1,
                       payload |-> CommitPayload(u, {u.manifest}),
                       prior_hash |-> ZERO_HASH, current_hash |-> <<1, 0>>]
      <4>1. domain_events[x] = << e >> /\ sessions[x].version = 1
        BY <3>1 DEF PinnedInit
      <4>2. e.cause = 1 /\ e.event_type = "SESSION_COMMITTED"
        OBVIOUS
      <4> HIDE DEF e
      <4>3. DOMAIN << e >> = {1} /\ << e >>[1] = e
        OBVIOUS
      <4>4. LifecycleCauses(<< e >>) = {1}
        BY <4>2, <4>3 DEF LifecycleCauses
      <4>5. 1 .. 1 = {1}
        OBVIOUS
      <4> QED
        BY <4>1, <4>4, <4>5
    <3>2. CASE x # s
      <4>1. domain_events[x] = <<>> /\ sessions[x].version = 0
        BY <3>2 DEF PinnedInit, NoRow
      <4>2. LifecycleCauses(<<>>) = {}
        BY DEF LifecycleCauses
      <4>3. 1 .. 0 = {}
        OBVIOUS
      <4> QED
        BY <4>1, <4>2, <4>3
    <3> QED
      BY <3>1, <3>2
  <2> QED
    BY <2>1, <2>2 DEF Accounted
<1> QED
  BY <1>1, <1>2, <1>3, <1>4 DEF StoreInv, AllAccounted

-----------------------------------------------------------------------------
(***************************************************************************)
(* Theorems                                                                *)
(***************************************************************************)

\* The inductive invariant of the store: calls between their reads and their
\* write included.
THEOREM StoreInvariance == StoreSpec => []StoreInv
  BY StoreStart, StoreStep, PTL DEF StoreSpec

\* append_command, which locks nothing before its UPDATE, leaves one hash chain
\* per session and exactly one cause, a lifecycle event or a stored command,
\* for each of its versions.
THEOREM AppendsSound == StoreSpec => []StoreSound
<1>1. StoreInv => StoreSound
  <2> SUFFICES ASSUME StoreInv PROVE StoreSound
    OBVIOUS
  <2>1. StoreTypeOK
    BY DEF StoreInv, StoreTyped, StoreTypeOK, Inv
  <2>2. HashChain
    <3> SUFFICES ASSUME NEW s \in SessionId PROVE ChainOK(domain_events[s])
      BY DEF HashChain, ChainOK
    <3>1. CASE sessions[s].status \in Unpinned
      <4>1. domain_events[s] = <<>>
        BY <3>1, ReadTyped DEF StoreInv
      <4> QED
        BY <4>1 DEF ChainOK
    <3>2. CASE sessions[s].status \notin Unpinned
      BY <3>2 DEF StoreInv, Inv, SessionOK
    <3> QED
      BY <3>1, <3>2
  <2>3. OneCausePerVersion
    <3> SUFFICES ASSUME NEW s \in SessionId
                 PROVE  LET made == {d.expected + 1 : d \in {e \in commands : e.session = s}}
                        IN  /\ made \cap LifecycleVersions(s) = {}
                            /\ made \cup LifecycleVersions(s) = 1 .. sessions[s].version
                            /\ \A d, e \in commands :
                                  d.session = s /\ e.session = s
                                  /\ d.expected = e.expected => d = e
      BY DEF OneCausePerVersion
    <3>1. Accounted(sessions[s].version, domain_events[s], OfSession(commands, s))
      BY DEF StoreInv, AllAccounted
    <3>2. LifecycleVersions(s) = LifecycleCauses(domain_events[s])
      BY DEF LifecycleVersions, LifecycleCauses
    <3> QED
      BY <3>1, <3>2 DEF Accounted, OfSession
  <2> QED
    BY <2>1, <2>2, <2>3 DEF StoreSound
<1> QED
  BY <1>1, StoreInvariance, PTL

\* An idempotency key names one command although two writers may pass the
\* lookup before either has written, and every retry is answered with that
\* command's own events and a version it had already reached.
THEOREM KeysAnswered == StoreSpec => []KeysIdempotent
<1>1. StoreInv => KeysIdempotent
  <2> SUFFICES ASSUME StoreInv PROVE KeysIdempotent
    OBVIOUS
  <2>1. RetryFindsOriginal
    <3> SUFFICES ASSUME NEW w \in Writer, appends[w] # NoCall,
                        appends[w].stage = "replayed"
                 PROVE  \E d \in Stored(appends[w].command) :
                           /\ d.payload_hash = appends[w].command.payload_hash
                           /\ d.expected < appends[w].version
                           /\ appends[w].seqs = SeqsOf(d)
      BY DEF RetryFindsOriginal
    <3>1. Answered(appends[w], commands, domain_events[appends[w].command.session])
      BY DEF StoreInv, AllAnswered
    <3>2. PICK d \in commands :
             /\ d.session = appends[w].command.session
             /\ d.key = appends[w].command.key
             /\ d.payload_hash = appends[w].command.payload_hash
             /\ d.expected < appends[w].version
             /\ appends[w].seqs = TradeSeqs(domain_events[d.session], d.expected + 1)
      BY <3>1 DEF Answered
    <3>3. SeqsOf(d) = TradeSeqs(domain_events[d.session], d.expected + 1)
      BY DEF SeqsOf, TradeSeqs
    <3>4. d \in Stored(appends[w].command)
      BY <3>2 DEF Stored
    <3> QED
      BY <3>2, <3>3, <3>4
  <2> QED
    BY <2>1 DEF KeysIdempotent, StoreInv
<1> QED
  BY <1>1, StoreInvariance, PTL

=============================================================================
