--------------------------- MODULE SessionsProofs ---------------------------
(***************************************************************************)
(* Proofs about Sessions, for every number of sessions, principals,        *)
(* manifests, setups and versions.                                         *)
(*                                                                         *)
(* Neither the type invariant nor any of the safety properties is          *)
(* inductive: a lifecycle event is stamped with the frontier a reader      *)
(* folds out of the whole log, so even its type depends on the log having  *)
(* a pin event and a last frontier event. SessionOK states that shape of   *)
(* one session's row and log, Inv is the inductive invariant.              *)
(***************************************************************************)
EXTENDS Sessions, Selection, WellFoundedInduction, TLAPS

\* The sessions whose log is still empty.
Unpinned == {"NONE", "SETUP"}

\* The log has a latest event that set the frontier.
HasFrontier(log) ==
    \E i \in FrontierIdx(log) : \A j \in FrontierIdx(log) : i >= j

ChainOK(log) ==
    \A i \in DOMAIN log :
        /\ log[i].event_seq = i - 1
        /\ log[i].prior_hash = IF i = 1 THEN ZERO_HASH ELSE log[i - 1].current_hash

CausesOK(version, log) ==
    \A i \in DOMAIN log :
        /\ 1 <= log[i].cause
        /\ log[i].cause <= version

WindowOK(status, setup, frontier) ==
    /\ frontier \in Int
    /\ setup.play_start <= frontier
    /\ frontier <= setup.play_end
    /\ status = "COMMITTED" => frontier = setup.play_start
    /\ status = "COMPLETED" => frontier = setup.play_end

\* The log of a pinned session opens with its only pin event.
PinOK(row, log) ==
    /\ Len(log) > 0
    /\ PinIdx(log) = {1}
    /\ log[1].payload.setup \in Setup
    /\ row.ruleset_id = log[1].payload.setup.ruleset_id
    /\ HasFrontier(log)

SessionOK(row, log) ==
    IF row.status \in Unpinned
    THEN log = <<>> /\ row.version = 0
    ELSE /\ PinOK(row, log)
         /\ ChainOK(log)
         /\ CausesOK(row.version, log)
         /\ WindowOK(row.status, log[1].payload.setup, FrontierOf(log))

RulesetOK(rules, row, log) ==
    row.status \notin Unpinned =>
        rules[log[1].payload.setup.ruleset_id] = log[1].payload.setup.ruleset_hash

\* A commit() looks for its ruleset after it hashed the eligible set, and a row
\* it found, with the content it has, is there for good.
CommitsOK(calls, rules) ==
    \A c \in calls :
        /\ c.ruleset # "UNREAD" => c.hashed
        /\ c.ruleset = "BOUND" => rules[c.setup.ruleset_id] = c.setup.ruleset_hash

\* The inductive invariant.
Inv ==
    /\ TypeOK
    /\ CommitsOK(commits, rulesets)
    /\ \A s \in SessionId : SessionOK(sessions[s], domain_events[s])
    /\ \A s \in SessionId : RulesetOK(rulesets, sessions[s], domain_events[s])

-----------------------------------------------------------------------------
(***************************************************************************)
(* Logs                                                                    *)
(***************************************************************************)

LEMMA AppendFacts ==
    ASSUME NEW log \in Seq(Event), NEW e \in Event
    PROVE  /\ Append(log, e) \in Seq(Event)
           /\ Len(Append(log, e)) = Len(log) + 1
           /\ DOMAIN Append(log, e) = 1 .. Len(log) + 1
           /\ DOMAIN log = 1 .. Len(log)
           /\ Len(log) \in Nat
           /\ Append(log, e)[Len(log) + 1] = e
           /\ \A i \in 1 .. Len(log) : Append(log, e)[i] = log[i]
  OBVIOUS

\* A log whose only pin event is the first one is pinned to that event's setup.
LEMMA PinnedSetup ==
    ASSUME NEW log, PinIdx(log) = {1}
    PROVE  /\ (CHOOSE i \in PinIdx(log) : TRUE) = 1
           /\ SetupOf(log) = log[1].payload.setup
  BY DEF SetupOf

\* Max of a set of integers that has a largest element is that element.
LEMMA MaxIs ==
    ASSUME NEW S \in SUBSET Int, NEW m \in S, \A j \in S : m >= j
    PROVE  Max(S) = m
<1>1. /\ Max(S) \in S
      /\ \A j \in S : Max(S) >= j
  BY DEF Max
<1>2. m >= Max(S) /\ Max(S) >= m /\ m \in Int /\ Max(S) \in Int
  BY <1>1
<1> QED
  BY <1>2

\* An event that is neither a pin nor an advance leaves pin and frontier alone.
LEMMA NeutralAppend ==
    ASSUME NEW log \in Seq(Event), NEW e \in Event, HasFrontier(log),
           e.event_type \notin PinTypes \cup {"SESSION_ADVANCED"}
    PROVE  LET new == Append(log, e)
           IN  /\ PinIdx(new) = PinIdx(log)
               /\ HasFrontier(new)
               /\ FrontierOf(new) = FrontierOf(log)
<1> DEFINE new == Append(log, e)
<1>1. PinIdx(new) = PinIdx(log)
  BY AppendFacts DEF PinIdx
<1>2. FrontierIdx(new) = FrontierIdx(log)
  BY AppendFacts DEF FrontierIdx
<1>3. PICK m \in FrontierIdx(log) : \A j \in FrontierIdx(log) : m >= j
  BY DEF HasFrontier
<1>4. FrontierIdx(log) \in SUBSET Int /\ m \in 1 .. Len(log)
  BY AppendFacts DEF FrontierIdx
<1>5. Max(FrontierIdx(log)) = m
  BY <1>3, <1>4, MaxIs
<1>6. new[m] = log[m]
  BY <1>4, AppendFacts
<1>7. FrontierOf(new) = FrontierOf(log)
  BY <1>2, <1>5, <1>6 DEF FrontierOf
<1>8. HasFrontier(new)
  BY <1>2 DEF HasFrontier
<1> QED
  BY <1>1, <1>7, <1>8

\* An advance leaves the pin alone and becomes the frontier.
LEMMA AdvanceAppend ==
    ASSUME NEW log \in Seq(Event), NEW e \in Event,
           e.event_type = "SESSION_ADVANCED"
    PROVE  LET new == Append(log, e)
           IN  /\ PinIdx(new) = PinIdx(log)
               /\ HasFrontier(new)
               /\ FrontierOf(new) = e.payload.time
<1> DEFINE new == Append(log, e)
           last == Len(log) + 1
<1>1. PinIdx(new) = PinIdx(log)
  BY AppendFacts DEF PinIdx, PinTypes
<1>2. last \in FrontierIdx(new) /\ \A j \in FrontierIdx(new) : last >= j
  BY AppendFacts DEF FrontierIdx
<1>3. FrontierIdx(new) \in SUBSET Int
  BY AppendFacts DEF FrontierIdx
<1>4. Max(FrontierIdx(new)) = last
  BY <1>2, <1>3, MaxIs
<1>5. new[last] = e
  BY AppendFacts
<1>6. FrontierOf(new) = e.payload.time
  BY <1>4, <1>5 DEF FrontierOf, FrontierAfter
<1>7. HasFrontier(new)
  BY <1>2 DEF HasFrontier
<1> QED
  BY <1>1, <1>6, <1>7

\* The first event of a log, a commit or a fork, is its pin and its frontier.
LEMMA PinAppend ==
    ASSUME NEW e \in Event, e.event_type \in PinTypes
    PROVE  LET new == Append(<<>>, e)
           IN  /\ new \in Seq(Event)
               /\ Len(new) = 1
               /\ DOMAIN new = {1}
               /\ new[1] = e
               /\ PinIdx(new) = {1}
               /\ HasFrontier(new)
               /\ FrontierOf(new) = FrontierAfter(e)
<1> DEFINE new == Append(<<>>, e)
<1>1. /\ new \in Seq(Event)
      /\ Len(new) = 1
      /\ DOMAIN new = {1}
      /\ new[1] = e
  OBVIOUS
<1>2. PinIdx(new) = {1} /\ FrontierIdx(new) = {1}
  BY <1>1 DEF PinIdx, FrontierIdx
<1>3. Max(FrontierIdx(new)) = 1
  BY <1>2, MaxIs
<1>4. FrontierOf(new) = FrontierAfter(e)
  BY <1>1, <1>3 DEF FrontierOf
<1>5. HasFrontier(new)
  BY <1>2 DEF HasFrontier
<1> QED
  BY <1>1, <1>2, <1>4, <1>5

-----------------------------------------------------------------------------
(***************************************************************************)
(* One session                                                             *)
(***************************************************************************)

\* What a reader reads of a typed log is typed.
LEMMA LogTyped ==
    ASSUME NEW log \in Seq(Event)
    PROVE  /\ NextSeq(log) \in Nat
           /\ LastHash(log) \in Hash
           /\ Len(log) > 0 => /\ log[1] \in Event
                             /\ NextSeq(log) = log[Len(log)].event_seq + 1
                             /\ LastHash(log) = log[Len(log)].current_hash
<1>1. CASE log = <<>>
  BY <1>1 DEF NextSeq, LastHash, Hash, ZERO_HASH
<1>2. CASE log # <<>>
  <2>1. Len(log) > 0 /\ log[1] \in Event /\ log[Len(log)] \in Event
    BY <1>2
  <2> QED
    BY <1>2, <2>1 DEF NextSeq, LastHash, Event
<1> QED
  BY <1>1, <1>2

\* _append_event writes a well-formed row.
LEMMA NewEventTyped ==
    ASSUME TypeOK, NEW s \in SessionId, NEW type \in EventType, NEW ts \in Int,
           NEW payload \in Payload, NEW cause \in Nat
    PROVE  NewEvent(s, type, ts, payload, cause) \in Event
<1>1. domain_events[s] \in Seq(Event)
  BY DEF TypeOK
<1>2. NextSeq(domain_events[s]) \in Nat /\ LastHash(domain_events[s]) \in Hash
  BY <1>1, LogTyped
<1>3. <<cause, 0>> \in Hash
  BY DEF Hash
<1> QED
  BY <1>2, <1>3 DEF NewEvent, Event

\* Appending the next event of a pinned session keeps its log well formed.
LEMMA ExtendOK ==
    ASSUME NEW row \in Row, NEW row2 \in Row,
           NEW log \in Seq(Event), NEW e \in Event,
           SessionOK(row, log),
           row.status \notin Unpinned, row2.status \notin Unpinned,
           row2.version = row.version + 1, row2.ruleset_id = row.ruleset_id,
           e.event_type \notin PinTypes, e.event_seq = NextSeq(log),
           e.prior_hash = LastHash(log), e.cause = row.version + 1,
           WindowOK(row2.status, log[1].payload.setup,
                    IF e.event_type = "SESSION_ADVANCED" THEN e.payload.time
                                                         ELSE FrontierOf(log))
    PROVE  SessionOK(row2, Append(log, e))
<1> DEFINE new == Append(log, e)
<1>1. /\ PinOK(row, log)
      /\ ChainOK(log)
      /\ CausesOK(row.version, log)
  BY DEF SessionOK
<1>2. Len(log) > 0 /\ PinIdx(log) = {1} /\ HasFrontier(log)
  BY <1>1 DEF PinOK
<1>3. /\ new[1] = log[1]
      /\ Len(new) > 0
  BY <1>2, AppendFacts
<1>4. /\ PinIdx(new) = {1}
      /\ HasFrontier(new)
      /\ FrontierOf(new) = IF e.event_type = "SESSION_ADVANCED"
                           THEN e.payload.time ELSE FrontierOf(log)
  <2>1. CASE e.event_type = "SESSION_ADVANCED"
    BY <1>2, <2>1, AdvanceAppend
  <2>2. CASE e.event_type # "SESSION_ADVANCED"
    BY <1>2, <2>2, NeutralAppend
  <2> QED
    BY <2>1, <2>2
<1>5. PinOK(row2, new)
  BY <1>1, <1>3, <1>4 DEF PinOK
<1>6. ChainOK(new)
  <2> SUFFICES ASSUME NEW i \in 1 .. Len(log) + 1
               PROVE  /\ new[i].event_seq = i - 1
                      /\ new[i].prior_hash =
                            IF i = 1 THEN ZERO_HASH ELSE new[i - 1].current_hash
    BY AppendFacts DEF ChainOK
  <2>1. CASE i = Len(log) + 1
    <3>1. new[i] = e /\ new[i - 1] = log[Len(log)] /\ i # 1
      BY <2>1, <1>2, AppendFacts
    <3>2. log[Len(log)].event_seq = Len(log) - 1
      BY <1>1, <1>2, AppendFacts DEF ChainOK
    <3> QED
      BY <2>1, <3>1, <3>2, <1>2, LogTyped, AppendFacts
  <2>2. CASE i # Len(log) + 1
    <3>1. i \in 1 .. Len(log) /\ new[i] = log[i]
      BY <2>2, AppendFacts
    <3>2. i # 1 => new[i - 1] = log[i - 1]
      BY <3>1, AppendFacts
    <3> QED
      BY <1>1, <3>1, <3>2, AppendFacts DEF ChainOK
  <2> QED
    BY <2>1, <2>2
<1>7. CausesOK(row2.version, new)
  <2>1. row.version \in Nat
    BY BoundAssumption DEF Row
  <2>2. \A i \in 1 .. Len(log) : log[i].cause \in Nat
    <3>1. \A i \in 1 .. Len(log) : log[i] \in Event
      OBVIOUS
    <3> QED
      BY <3>1 DEF Event
  <2>3. \A i \in 1 .. Len(log) : 1 <= log[i].cause /\ log[i].cause <= row.version
    BY <1>1, AppendFacts DEF CausesOK
  <2> SUFFICES ASSUME NEW i \in 1 .. Len(log) + 1
               PROVE  1 <= new[i].cause /\ new[i].cause <= row.version + 1
    BY AppendFacts DEF CausesOK
  <2>4. CASE i = Len(log) + 1
    <3>1. new[i].cause = row.version + 1
      BY <2>4, AppendFacts
    <3> QED
      BY <2>1, <3>1
  <2>5. CASE i # Len(log) + 1
    <3>1. i \in 1 .. Len(log) /\ new[i] = log[i]
      BY <2>5, AppendFacts
    <3> QED
      BY <2>1, <2>2, <2>3, <3>1
  <2> QED
    BY <2>4, <2>5
<1>8. WindowOK(row2.status, new[1].payload.setup, FrontierOf(new))
  BY <1>3, <1>4
<1> QED
  BY <1>5, <1>6, <1>7, <1>8 DEF SessionOK

\* The first event of a session, a commit or a fork, makes a well-formed log.
LEMMA PinnedOK ==
    ASSUME NEW row \in Row, NEW e \in Event,
           row.status \notin Unpinned, row.version = 1,
           e.event_type \in PinTypes, e.event_seq = 0, e.prior_hash = ZERO_HASH,
           e.cause = 1, e.payload.setup \in Setup,
           row.ruleset_id = e.payload.setup.ruleset_id,
           WindowOK(row.status, e.payload.setup, FrontierAfter(e))
    PROVE  SessionOK(row, Append(<<>>, e))
<1> DEFINE new == Append(<<>>, e)
<1>1. /\ Len(new) = 1 /\ DOMAIN new = {1} /\ new[1] = e
      /\ PinIdx(new) = {1} /\ HasFrontier(new)
      /\ FrontierOf(new) = FrontierAfter(e)
  BY PinAppend
<1>2. PinOK(row, new)
  BY <1>1 DEF PinOK
<1>3. ChainOK(new)
  BY <1>1 DEF ChainOK
<1>4. CausesOK(row.version, new)
  BY <1>1 DEF CausesOK
<1> QED
  BY <1>1, <1>2, <1>3, <1>4 DEF SessionOK

-----------------------------------------------------------------------------
(***************************************************************************)
(* Steps                                                                   *)
(***************************************************************************)

\* A step that gives session s a new row and log and leaves the others alone
\* preserves the invariant if the new row and log fit together.
LEMMA OneSession ==
    ASSUME Inv, NEW s \in SessionId, NEW row \in Row, NEW log \in Seq(Event),
           sessions' = [sessions EXCEPT ![s] = row],
           domain_events' = [domain_events EXCEPT ![s] = log],
           rulesets' \in [RulesetId -> RulesetHash \cup {NoRuleset}],
           \A x \in SessionId : RulesetOK(rulesets', sessions[x], domain_events[x]),
           UNCHANGED <<registered, revoked>>, commits' \in SUBSET CommitCall,
           CommitsOK(commits', rulesets'),
           SessionOK(row, log), RulesetOK(rulesets', row, log)
    PROVE  Inv'
<1>1. TypeOK'
  BY DEF Inv, TypeOK
<1>2. ASSUME NEW x \in SessionId
      PROVE  /\ SessionOK(sessions'[x], domain_events'[x])
             /\ RulesetOK(rulesets', sessions'[x], domain_events'[x])
  <2>1. CASE x = s
    <3>1. sessions'[x] = row /\ domain_events'[x] = log
      BY <2>1 DEF Inv, TypeOK
    <3> QED
      BY <3>1
  <2>2. CASE x # s
    <3>1. sessions'[x] = sessions[x] /\ domain_events'[x] = domain_events[x]
      BY <2>2 DEF Inv, TypeOK
    <3> QED
      BY <3>1 DEF Inv
  <2> QED
    BY <2>1, <2>2
<1> QED
  BY <1>1, <1>2 DEF Inv

\* A step that touches neither rows, logs nor rulesets.
LEMMA OtherTables ==
    ASSUME Inv, UNCHANGED <<sessions, domain_events, rulesets>>, TypeOK',
           CommitsOK(commits', rulesets)
    PROVE  Inv'
  BY DEF Inv

LEMMA PayloadsTyped ==
    /\ EmptyPayload \in Payload
    /\ \A t \in Int : [EmptyPayload EXCEPT !.time = t] \in Payload
    /\ \A u \in Setup, m \in SUBSET Manifest : CommitPayload(u, m) \in Payload
<1>1. EmptyPayload \in Payload
  BY DEF EmptyPayload, Payload
<1>2. ASSUME NEW t \in Int
      PROVE  [EmptyPayload EXCEPT !.time = t] \in Payload
  BY DEF EmptyPayload, Payload
<1>3. ASSUME NEW u \in Setup, NEW m \in SUBSET Manifest
      PROVE  CommitPayload(u, m) \in Payload
  BY DEF CommitPayload, Payload
<1> QED
  BY <1>1, <1>2, <1>3

\* What a call that got past _locked_row, _require_version, materialization and
\* _require_status knows of its session.
LEMMA LockedFacts ==
    ASSUME Inv, NEW s \in SessionId, NEW p \in Principal, NEW expected,
           NEW allowed, allowed \cap Unpinned = {},
           Locked(s, p, expected, allowed)
    PROVE  /\ sessions[s] \in Row
           /\ domain_events[s] \in Seq(Event)
           /\ sessions[s].status \notin Unpinned
           /\ sessions[s].status \in allowed
           /\ sessions[s].version = expected
           /\ expected \in Nat
           /\ PinOK(sessions[s], domain_events[s])
           /\ SetupOf(domain_events[s]) = domain_events[s][1].payload.setup
           /\ SetupOf(domain_events[s]) \in Setup
           /\ WindowOK(sessions[s].status, SetupOf(domain_events[s]),
                       FrontierOf(domain_events[s]))
           /\ RulesetOK(rulesets, sessions[s], domain_events[s])
<1>1. sessions[s] \in Row /\ domain_events[s] \in Seq(Event)
  BY DEF Inv, TypeOK
<1>2. /\ sessions[s].status \notin Unpinned
      /\ sessions[s].status \in allowed
      /\ sessions[s].version = expected
  BY DEF Locked
<1>3. expected \in Nat
  BY <1>1, <1>2, BoundAssumption DEF Row
<1>4. /\ PinOK(sessions[s], domain_events[s])
      /\ WindowOK(sessions[s].status, domain_events[s][1].payload.setup,
                  FrontierOf(domain_events[s]))
  BY <1>2 DEF Inv, SessionOK
<1>5. SetupOf(domain_events[s]) = domain_events[s][1].payload.setup
  BY <1>4, PinnedSetup DEF PinOK
<1>6. SetupOf(domain_events[s]) \in Setup
  BY <1>4, <1>5 DEF PinOK
<1>7. RulesetOK(rulesets, sessions[s], domain_events[s])
  BY DEF Inv
<1> QED
  BY <1>1, <1>2, <1>3, <1>4, <1>5, <1>6, <1>7

\* Every lifecycle transition: one event, one version.
LEMMA TransitionStep ==
    ASSUME Inv, NEW s \in SessionId, NEW p \in Principal, NEW expected,
           NEW allowed, allowed \cap Unpinned = {},
           NEW target \in Status, target \notin Unpinned,
           NEW type \in EventType, type \notin PinTypes,
           NEW ts \in Int, NEW payload \in Payload,
           HasNextVersion(expected), Locked(s, p, expected, allowed),
           WindowOK(target, SetupOf(domain_events[s]),
                    IF type = "SESSION_ADVANCED" THEN payload.time
                                                 ELSE FrontierOf(domain_events[s])),
           AppendEvent(s, type, ts, payload, expected + 1),
           AdvanceVersion(s, target),
           UNCHANGED <<rulesets, registered, revoked, commits>>
    PROVE  Inv'
<1> DEFINE old == sessions[s]
           log == domain_events[s]
           row == [old EXCEPT !.status = target, !.version = @ + 1]
           e   == NewEvent(s, type, ts, payload, expected + 1)
<1>1. /\ old \in Row /\ log \in Seq(Event) /\ old.status \notin Unpinned
      /\ old.version = expected /\ expected \in Nat
      /\ PinOK(old, log)
      /\ SetupOf(log) = log[1].payload.setup
      /\ RulesetOK(rulesets, old, log)
  BY LockedFacts
<1>2. /\ row \in Row /\ row.status = target /\ row.version = old.version + 1
      /\ row.ruleset_id = old.ruleset_id
  <2>1. /\ target \in Status \cup {"NONE"}
        /\ old.version + 1 \in 0 .. MaxVersion
    BY <1>1, BoundAssumption DEF HasNextVersion
  <2> QED
    BY <1>1, <2>1 DEF Row
<1>3. e \in Event
  BY <1>1, NewEventTyped DEF Inv
<1>4. /\ e.event_type = type /\ e.event_seq = NextSeq(log) /\ e.payload = payload
      /\ e.prior_hash = LastHash(log) /\ e.cause = old.version + 1
  BY <1>1 DEF NewEvent
<1>5. SessionOK(old, log)
  BY DEF Inv
<1>6. SessionOK(row, Append(log, e))
  BY <1>1, <1>2, <1>3, <1>4, <1>5, ExtendOK
<1>7. Append(log, e) \in Seq(Event) /\ Append(log, e)[1] = log[1]
  BY <1>1, <1>3, AppendFacts DEF PinOK
<1>8. RulesetOK(rulesets, row, Append(log, e))
  BY <1>1, <1>7 DEF RulesetOK
<1>9. /\ sessions' = [sessions EXCEPT ![s] = row]
      /\ domain_events' = [domain_events EXCEPT ![s] = Append(log, e)]
  BY DEF AppendEvent, AdvanceVersion
<1>10. /\ rulesets' \in [RulesetId -> RulesetHash \cup {NoRuleset}]
       /\ commits' \in SUBSET CommitCall /\ CommitsOK(commits', rulesets')
       /\ \A x \in SessionId : RulesetOK(rulesets', sessions[x], domain_events[x])
       /\ RulesetOK(rulesets', row, Append(log, e))
  BY <1>8 DEF Inv, TypeOK
<1> QED
  BY <1>2, <1>6, <1>7, <1>9, <1>10, OneSession

LEMMA StartStep ==
    ASSUME Inv, NEW s \in SessionId, NEW p \in Principal, NEW expected,
           Start(s, p, expected)
    PROVE  Inv'
<1> DEFINE allowed == {"COMMITTED", "PAUSED"}
<1>1. /\ HasNextVersion(expected) /\ Locked(s, p, expected, allowed)
      /\ AppendEvent(s, "SESSION_STARTED", FrontierOf(domain_events[s]),
                     EmptyPayload, expected + 1)
      /\ AdvanceVersion(s, "RUNNING")
      /\ UNCHANGED <<rulesets, registered, revoked, commits>>
  BY DEF Start, StatusTransition
<1>2. allowed \cap Unpinned = {}
  BY DEF Unpinned
<1>3. WindowOK(sessions[s].status, SetupOf(domain_events[s]),
               FrontierOf(domain_events[s]))
  BY <1>1, <1>2, LockedFacts
<1>4. /\ FrontierOf(domain_events[s]) \in Int
      /\ WindowOK("RUNNING", SetupOf(domain_events[s]), FrontierOf(domain_events[s]))
  BY <1>3 DEF WindowOK
<1>5. /\ "RUNNING" \in Status /\ "RUNNING" \notin Unpinned
      /\ "SESSION_STARTED" \in EventType /\ "SESSION_STARTED" \notin PinTypes
      /\ "SESSION_STARTED" # "SESSION_ADVANCED"
  BY DEF Status, Unpinned, EventType, PinTypes
<1> QED
  BY <1>1, <1>2, <1>4, <1>5, PayloadsTyped, TransitionStep

LEMMA PauseStep ==
    ASSUME Inv, NEW s \in SessionId, NEW p \in Principal, NEW expected,
           Pause(s, p, expected)
    PROVE  Inv'
<1> DEFINE allowed == {"RUNNING"}
<1>1. /\ HasNextVersion(expected) /\ Locked(s, p, expected, allowed)
      /\ AppendEvent(s, "SESSION_PAUSED", FrontierOf(domain_events[s]),
                     EmptyPayload, expected + 1)
      /\ AdvanceVersion(s, "PAUSED")
      /\ UNCHANGED <<rulesets, registered, revoked, commits>>
  BY DEF Pause, StatusTransition
<1>2. allowed \cap Unpinned = {}
  BY DEF Unpinned
<1>3. WindowOK(sessions[s].status, SetupOf(domain_events[s]),
               FrontierOf(domain_events[s]))
  BY <1>1, <1>2, LockedFacts
<1>4. /\ FrontierOf(domain_events[s]) \in Int
      /\ WindowOK("PAUSED", SetupOf(domain_events[s]), FrontierOf(domain_events[s]))
  BY <1>3 DEF WindowOK
<1>5. /\ "PAUSED" \in Status /\ "PAUSED" \notin Unpinned
      /\ "SESSION_PAUSED" \in EventType /\ "SESSION_PAUSED" \notin PinTypes
      /\ "SESSION_PAUSED" # "SESSION_ADVANCED"
  BY DEF Status, Unpinned, EventType, PinTypes
<1> QED
  BY <1>1, <1>2, <1>4, <1>5, PayloadsTyped, TransitionStep

LEMMA CompleteStep ==
    ASSUME Inv, NEW s \in SessionId, NEW p \in Principal, NEW expected,
           Complete(s, p, expected)
    PROVE  Inv'
<1> DEFINE allowed == {"RUNNING", "PAUSED"}
<1>1. /\ HasNextVersion(expected) /\ Locked(s, p, expected, allowed) /\ AtEnd(s)
      /\ AppendEvent(s, "SESSION_COMPLETED", FrontierOf(domain_events[s]),
                     EmptyPayload, expected + 1)
      /\ AdvanceVersion(s, "COMPLETED")
      /\ UNCHANGED <<rulesets, registered, revoked, commits>>
  BY DEF Complete
<1>2. allowed \cap Unpinned = {}
  BY DEF Unpinned
<1>3. WindowOK(sessions[s].status, SetupOf(domain_events[s]),
               FrontierOf(domain_events[s]))
  BY <1>1, <1>2, LockedFacts
<1>4. /\ FrontierOf(domain_events[s]) \in Int
      /\ WindowOK("COMPLETED", SetupOf(domain_events[s]), FrontierOf(domain_events[s]))
  BY <1>1, <1>3 DEF WindowOK, AtEnd
<1>5. /\ "COMPLETED" \in Status /\ "COMPLETED" \notin Unpinned
      /\ "SESSION_COMPLETED" \in EventType /\ "SESSION_COMPLETED" \notin PinTypes
      /\ "SESSION_COMPLETED" # "SESSION_ADVANCED"
  BY DEF Status, Unpinned, EventType, PinTypes
<1> QED
  BY <1>1, <1>2, <1>4, <1>5, PayloadsTyped, TransitionStep

LEMMA AdvanceStep ==
    ASSUME Inv, NEW s \in SessionId, NEW p \in Principal, NEW expected,
           NEW t \in Int, Advance(s, p, expected, t)
    PROVE  Inv'
<1> DEFINE allowed == {"RUNNING"}
           payload == [EmptyPayload EXCEPT !.time = t]
<1>1. /\ HasNextVersion(expected) /\ Locked(s, p, expected, allowed)
      /\ AdvanceInRange(s, t)
      /\ AppendEvent(s, "SESSION_ADVANCED", t, payload, expected + 1)
      /\ AdvanceVersion(s, "RUNNING")
      /\ UNCHANGED <<rulesets, registered, revoked, commits>>
  BY DEF Advance
<1>2. allowed \cap Unpinned = {}
  BY DEF Unpinned
<1>3. /\ WindowOK(sessions[s].status, SetupOf(domain_events[s]),
                  FrontierOf(domain_events[s]))
      /\ SetupOf(domain_events[s]) \in Setup
  BY <1>1, <1>2, LockedFacts
<1>4. payload.time = t /\ payload \in Payload
  BY PayloadsTyped DEF EmptyPayload
<1>5. WindowOK("RUNNING", SetupOf(domain_events[s]), t)
  BY <1>1, <1>3, SetupAssumption DEF WindowOK, AdvanceInRange
<1>6. /\ "RUNNING" \in Status /\ "RUNNING" \notin Unpinned
      /\ "SESSION_ADVANCED" \in EventType /\ "SESSION_ADVANCED" \notin PinTypes
  BY DEF Status, Unpinned, EventType, PinTypes
<1> QED
  BY <1>1, <1>2, <1>4, <1>5, <1>6, TransitionStep

LEMMA CreateStep ==
    ASSUME Inv, NEW s \in SessionId, NEW p \in Principal, CreateSession(s, p)
    PROVE  Inv'
<1> DEFINE row == [principal |-> p, status |-> "SETUP", version |-> 0,
                   ruleset_id |-> NoRuleset]
<1>1. sessions[s].status = "NONE" /\ domain_events[s] = <<>>
  BY DEF CreateSession, Exists, Inv, SessionOK, Unpinned
<1>2. row \in Row /\ row.status = "SETUP" /\ row.version = 0
  BY BoundAssumption DEF Row, Status
<1>3. SessionOK(row, domain_events[s]) /\ RulesetOK(rulesets, row, domain_events[s])
  BY <1>1, <1>2 DEF SessionOK, RulesetOK, Unpinned
<1>4. /\ sessions' = [sessions EXCEPT ![s] = row]
      /\ domain_events' = [domain_events EXCEPT ![s] = domain_events[s]]
      /\ domain_events[s] \in Seq(Event)
  BY DEF CreateSession, Inv, TypeOK
<1>5. /\ rulesets' = rulesets /\ UNCHANGED <<registered, revoked>>
      /\ rulesets' \in [RulesetId -> RulesetHash \cup {NoRuleset}]
      /\ commits' \in SUBSET CommitCall /\ CommitsOK(commits', rulesets')
      /\ \A x \in SessionId : RulesetOK(rulesets', sessions[x], domain_events[x])
  BY DEF CreateSession, Inv, TypeOK
<1> QED
  BY <1>2, <1>3, <1>4, <1>5, OneSession

LEMMA CommitWriteStep ==
    ASSUME Inv, NEW c \in commits, CommitWrite(c)
    PROVE  Inv'
<1> DEFINE s   == c.session
           u   == c.setup
           old == sessions[s]
           row == [old EXCEPT !.status = "COMMITTED", !.version = c.expected + 1,
                              !.ruleset_id = u.ruleset_id]
           e   == NewEvent(s, "SESSION_COMMITTED", u.play_start,
                           CommitPayload(u, c.eligibility), c.expected + 1)
<1>1. /\ s \in SessionId /\ u \in Setup /\ c.eligibility \in SUBSET Manifest
      /\ c.expected \in 0 .. MaxVersion - 1
  BY DEF Inv, TypeOK, CommitCall
<1>2. /\ u.ruleset_id \in RulesetId /\ u.ruleset_hash \in RulesetHash
      /\ u.play_start \in Int /\ u.play_end \in Int /\ u.play_start < u.play_end
  BY <1>1, SetupAssumption
<1>3. /\ old \in Row /\ old.status = "SETUP" /\ old.version = c.expected
      /\ RulesetHolds(c)
  BY <1>1 DEF CommitWrite, Committable, Inv, TypeOK
<1>4. domain_events[s] = <<>> /\ c.expected = 0
  BY <1>1, <1>3 DEF Inv, SessionOK, Unpinned
<1>5. /\ row \in Row /\ row.status = "COMMITTED" /\ row.version = 1
      /\ row.ruleset_id = u.ruleset_id
  <2>1. /\ "COMMITTED" \in Status \cup {"NONE"}
        /\ c.expected + 1 \in 0 .. MaxVersion /\ c.expected + 1 = 1
        /\ u.ruleset_id \in RulesetId \cup {NoRuleset}
    BY <1>2, <1>4, BoundAssumption DEF Status
  <2> QED
    BY <1>3, <2>1 DEF Row
<1>6. e \in Event
  <2>1. CommitPayload(u, c.eligibility) \in Payload
    BY <1>1, PayloadsTyped
  <2>2. "SESSION_COMMITTED" \in EventType /\ c.expected + 1 \in Nat
    BY <1>4 DEF EventType, PinTypes
  <2> QED
    BY <1>1, <1>2, <2>1, <2>2, NewEventTyped DEF Inv
<1>7. /\ e.event_type = "SESSION_COMMITTED" /\ e.event_seq = 0
      /\ e.prior_hash = ZERO_HASH /\ e.cause = 1 /\ e.payload.setup = u
  BY <1>4 DEF NewEvent, NextSeq, LastHash, CommitPayload
<1>8. WindowOK("COMMITTED", u, FrontierAfter(e))
  BY <1>2, <1>7 DEF WindowOK, FrontierAfter
<1>9. SessionOK(row, Append(<<>>, e))
  <2>1. e.event_type \in PinTypes /\ "COMMITTED" \notin Unpinned
    BY <1>7 DEF PinTypes, Unpinned
  <2> QED
    BY <1>1, <1>5, <1>6, <1>7, <1>8, <2>1, PinnedOK
<1>16. c.ruleset \in {"ABSENT", "BOUND"}
  BY DEF CommitWrite, Inv, TypeOK, CommitCall
<1>17. c.ruleset = "ABSENT" => rulesets[u.ruleset_id] = NoRuleset
  BY <1>3 DEF RulesetHolds, Insertable
<1>10. /\ rulesets' \in [RulesetId -> RulesetHash \cup {NoRuleset}]
       /\ rulesets'[u.ruleset_id] = u.ruleset_hash
  <2>1. CASE c.ruleset = "BOUND"
    BY <2>1 DEF CommitWrite, Inv, TypeOK, CommitsOK
  <2>2. CASE c.ruleset = "ABSENT"
    BY <1>2, <2>2 DEF CommitWrite, Inv, TypeOK
  <2> QED
    BY <1>16, <2>1, <2>2
<1>18. ASSUME NEW r \in RulesetId, rulesets[r] \in RulesetHash
       PROVE  rulesets'[r] = rulesets[r]
  <2>1. CASE c.ruleset = "BOUND"
    BY <2>1 DEF CommitWrite
  <2>2. CASE c.ruleset = "ABSENT"
    <3>1. r # u.ruleset_id
      BY <1>17, <1>18, <2>2, NullAssumption
    <3> QED
      BY <1>2, <2>2, <3>1 DEF CommitWrite, Inv, TypeOK
  <2> QED
    BY <1>16, <2>1, <2>2
<1>11. Append(<<>>, e) \in Seq(Event) /\ Append(<<>>, e)[1] = e
  BY <1>6
<1>12. RulesetOK(rulesets', row, Append(<<>>, e))
  BY <1>7, <1>10, <1>11 DEF RulesetOK
<1>13. ASSUME NEW x \in SessionId
       PROVE  RulesetOK(rulesets', sessions[x], domain_events[x])
  <2> DEFINE v == domain_events[x][1].payload.setup
  <2> SUFFICES ASSUME sessions[x].status \notin Unpinned
               PROVE  rulesets'[v.ruleset_id] = v.ruleset_hash
    BY DEF RulesetOK
  <2>1. v \in Setup /\ rulesets[v.ruleset_id] = v.ruleset_hash
    BY DEF Inv, SessionOK, PinOK, RulesetOK
  <2>2. v.ruleset_id \in RulesetId /\ v.ruleset_hash \in RulesetHash
    BY <2>1, SetupAssumption
  <2> QED
    BY <1>18, <2>1, <2>2
<1>14. /\ sessions' = [sessions EXCEPT ![s] = row]
       /\ domain_events' = [domain_events EXCEPT ![s] = Append(<<>>, e)]
  BY <1>4 DEF CommitWrite, AppendEvent
<1>15. UNCHANGED <<registered, revoked>> /\ commits' \in SUBSET CommitCall
  BY DEF CommitWrite, catalogVars, Inv, TypeOK
<1>19. CommitsOK(commits', rulesets')
  <2> SUFFICES ASSUME NEW d \in commits
               PROVE  /\ d.ruleset # "UNREAD" => d.hashed
                      /\ d.ruleset = "BOUND" =>
                            rulesets'[d.setup.ruleset_id] = d.setup.ruleset_hash
    BY DEF CommitsOK, CommitWrite
  <2>1. /\ d.ruleset # "UNREAD" => d.hashed
        /\ d.ruleset = "BOUND" => rulesets[d.setup.ruleset_id] = d.setup.ruleset_hash
    BY DEF Inv, CommitsOK
  <2>2. d.setup \in Setup
    BY DEF Inv, TypeOK, CommitCall
  <2>3. d.setup.ruleset_id \in RulesetId /\ d.setup.ruleset_hash \in RulesetHash
    BY <2>2, SetupAssumption
  <2> QED
    BY <1>18, <2>1, <2>3
<1> QED
  BY <1>1, <1>5, <1>9, <1>10, <1>11, <1>12, <1>13, <1>14, <1>15, <1>19, OneSession

LEMMA ForkStep ==
    ASSUME Inv, NEW s \in SessionId, NEW p \in Principal, NEW expected,
           NEW child \in SessionId, Fork(s, p, expected, child)
    PROVE  Inv'
<1> DEFINE allowed == {"COMMITTED", "RUNNING", "PAUSED"}
           log == domain_events[s]
           u   == SetupOf(log)
           row == [principal |-> p, status |-> ForkStatus(s), version |-> 1,
                   ruleset_id |-> u.ruleset_id]
           e   == NewEvent(child, "SESSION_FORKED", FrontierOf(log),
                           ForkPayload(s, expected), 1)
<1>1. Locked(s, p, expected, allowed) /\ allowed \cap Unpinned = {}
  BY DEF Fork, Unpinned
<1>2. /\ log \in Seq(Event) /\ expected \in Nat
      /\ PinOK(sessions[s], log)
      /\ u = log[1].payload.setup /\ u \in Setup
      /\ WindowOK(sessions[s].status, u, FrontierOf(log))
      /\ RulesetOK(rulesets, sessions[s], log)
      /\ sessions[s].status \notin Unpinned
  BY <1>1, LockedFacts
<1>3. domain_events[child] = <<>>
  BY DEF Fork, Exists, Inv, SessionOK, Unpinned
<1>4. ForkStatus(s) \in {"COMMITTED", "PAUSED"}
  BY DEF ForkStatus
<1>5. row \in Row
  <2>1. u.ruleset_id \in RulesetId /\ 1 \in 0 .. MaxVersion
    BY <1>2, SetupAssumption, BoundAssumption
  <2>2. ForkStatus(s) \in Status
    BY <1>4 DEF Status
  <2> QED
    BY <2>1, <2>2 DEF Row
<1>6. ForkPayload(s, expected) \in Payload
  <2>1. (CHOOSE i \in PinIdx(log) : TRUE) = 1
    BY <1>2, PinnedSetup DEF PinOK
  <2>2. log[1].payload.eligibility \in SUBSET Manifest
    BY <1>2, LogTyped DEF PinOK, Event, Payload
  <2>3. FrontierOf(log) \in Int
    BY <1>2 DEF WindowOK
  <2> QED
    BY <1>2, <2>1, <2>2, <2>3 DEF ForkPayload, Payload
<1>7. e \in Event
  <2>1. "SESSION_FORKED" \in EventType /\ FrontierOf(log) \in Int /\ 1 \in Nat
    BY <1>2 DEF EventType, PinTypes, WindowOK
  <2> QED
    BY <1>6, <2>1, NewEventTyped DEF Inv
<1>8. /\ e.event_type = "SESSION_FORKED" /\ e.event_seq = 0
      /\ e.prior_hash = ZERO_HASH /\ e.cause = 1 /\ e.payload.setup = u
      /\ e.payload.time = FrontierOf(log)
  BY <1>3 DEF NewEvent, NextSeq, LastHash, ForkPayload
<1>9. WindowOK(ForkStatus(s), u, FrontierAfter(e))
  BY <1>2, <1>8 DEF WindowOK, FrontierAfter, ForkStatus
<1>10. SessionOK(row, Append(<<>>, e))
  <2>1. e.event_type \in PinTypes /\ row.status \notin Unpinned
    BY <1>4, <1>8 DEF PinTypes, Unpinned
  <2> QED
    BY <1>2, <1>5, <1>7, <1>8, <1>9, <2>1, PinnedOK
<1>11. Append(<<>>, e) \in Seq(Event) /\ Append(<<>>, e)[1] = e
  BY <1>7
<1>12. RulesetOK(rulesets, row, Append(<<>>, e))
  BY <1>2, <1>8, <1>11 DEF RulesetOK
<1>13. /\ sessions' = [sessions EXCEPT ![child] = row]
       /\ domain_events' = [domain_events EXCEPT ![child] = Append(<<>>, e)]
  BY <1>3 DEF Fork, AppendEvent
<1>14. /\ rulesets' = rulesets /\ UNCHANGED <<registered, revoked>>
       /\ rulesets' \in [RulesetId -> RulesetHash \cup {NoRuleset}]
       /\ commits' \in SUBSET CommitCall /\ CommitsOK(commits', rulesets')
       /\ \A x \in SessionId : RulesetOK(rulesets', sessions[x], domain_events[x])
  BY DEF Fork, Inv, TypeOK
<1> QED
  BY <1>5, <1>10, <1>11, <1>12, <1>13, <1>14, OneSession

\* A command spends a version and appends nothing: the causes stay below it.
LEMMA AcceptStep ==
    ASSUME Inv, NEW s \in SessionId, NEW p \in Principal, NEW expected,
           AcceptCommand(s, p, expected)
    PROVE  Inv'
<1> DEFINE old == sessions[s]
           log == domain_events[s]
           row == [old EXCEPT !.version = expected + 1]
<1>1. /\ old \in Row /\ log \in Seq(Event) /\ old.status = "RUNNING"
      /\ old.version = expected /\ expected + 1 <= MaxVersion
      /\ SessionOK(old, log) /\ RulesetOK(rulesets, old, log)
  BY DEF AcceptCommand, Inv, TypeOK
<1>2. expected \in Nat /\ expected + 1 \in 0 .. MaxVersion
  BY <1>1, BoundAssumption DEF Row
<1>3. /\ row \in Row /\ row.status = old.status /\ row.version = expected + 1
      /\ row.ruleset_id = old.ruleset_id
  BY <1>1, <1>2 DEF Row
<1>4. old.status \notin Unpinned
  BY <1>1 DEF Unpinned
<1>5. /\ PinOK(old, log) /\ ChainOK(log) /\ CausesOK(expected, log)
      /\ WindowOK(old.status, log[1].payload.setup, FrontierOf(log))
  BY <1>1, <1>4 DEF SessionOK
<1>6. CausesOK(expected + 1, log)
  <2>1. \A i \in DOMAIN log : log[i].cause \in Nat
    <3>1. \A i \in DOMAIN log : log[i] \in Event
      BY <1>1
    <3> QED
      BY <3>1 DEF Event
  <2> QED
    BY <1>2, <1>5, <2>1 DEF CausesOK
<1>7. SessionOK(row, log)
  BY <1>3, <1>4, <1>5, <1>6 DEF SessionOK, PinOK
<1>8. RulesetOK(rulesets, row, log)
  BY <1>1, <1>3 DEF RulesetOK
<1>9. /\ sessions' = [sessions EXCEPT ![s] = row]
      /\ domain_events' = [domain_events EXCEPT ![s] = log]
  BY DEF AcceptCommand, Inv, TypeOK
<1>10. /\ rulesets' = rulesets /\ UNCHANGED <<registered, revoked>>
       /\ rulesets' \in [RulesetId -> RulesetHash \cup {NoRuleset}]
       /\ commits' \in SUBSET CommitCall /\ CommitsOK(commits', rulesets')
       /\ \A x \in SessionId : RulesetOK(rulesets', sessions[x], domain_events[x])
  BY DEF AcceptCommand, Inv, TypeOK
<1> QED
  BY <1>1, <1>3, <1>7, <1>8, <1>9, <1>10, OneSession

LEMMA CatalogInv ==
    ASSUME Inv, CatalogStep
    PROVE  Inv'
<1>1. PICK m \in Manifest : Register(m) \/ Revoke(m)
  BY DEF CatalogStep
<1>2. UNCHANGED <<sessions, domain_events, rulesets>>
  BY <1>1 DEF Register, Revoke
<1>3. TypeOK'
  BY <1>1 DEF Register, Revoke, Inv, TypeOK
<1>4. CommitsOK(commits', rulesets)
  BY <1>1 DEF Register, Revoke, Inv
<1> QED
  BY <1>2, <1>3, <1>4, OtherTables

LEMMA CommitInv ==
    ASSUME Inv, CommitStep
    PROVE  Inv'
<1>1. ASSUME NEW s \in SessionId, NEW p \in Principal, NEW u \in Setup,
             CommitCheck(s, p, sessions[s].version, u)
      PROVE  Inv'
  <2> DEFINE expected == sessions[s].version
             call == [session |-> s, principal |-> p, expected |-> expected,
                      setup |-> u, hashed |-> FALSE, eligibility |-> {},
                      ruleset |-> "UNREAD"]
  <2>1. sessions[s].version \in 0 .. MaxVersion
    BY DEF Inv, TypeOK, Row
  <2>2. expected \in 0 .. MaxVersion - 1
    BY <1>1, <2>1, BoundAssumption DEF CommitCheck, HasNextVersion
  <2>3. call \in CommitCall
    BY <2>2 DEF CommitCall
  <2>4. commits' = commits \cup {call}
    BY <1>1 DEF CommitCheck
  <2>5. UNCHANGED <<sessions, domain_events, rulesets, registered, revoked>>
    BY <1>1 DEF CommitCheck
  <2>6. TypeOK'
    BY <2>3, <2>4, <2>5 DEF Inv, TypeOK
  <2>7. CommitsOK(commits', rulesets)
    <3>1. call.ruleset = "UNREAD"
      OBVIOUS
    <3> HIDE DEF call
    <3> QED
      BY <2>4, <3>1 DEF Inv, CommitsOK
  <2> QED
    BY <2>5, <2>6, <2>7, OtherTables
<1>2. ASSUME NEW c \in commits, NEW call \in CommitCall,
             commits' = (commits \ {c}) \cup {call},
             UNCHANGED <<sessions, domain_events, rulesets, registered, revoked>>,
             CommitsOK({call}, rulesets)
      PROVE  Inv'
  <2>1. TypeOK'
    BY <1>2 DEF Inv, TypeOK
  <2>2. CommitsOK(commits', rulesets)
    BY <1>2 DEF Inv, CommitsOK
  <2> QED
    BY <1>2, <2>1, <2>2, OtherTables
<1>3. ASSUME NEW c \in commits, CommitHash(c)
      PROVE  Inv'
  <2> DEFINE call == [c EXCEPT !.hashed = TRUE, !.eligibility = Eligible(c.setup)]
  <2>1. c \in CommitCall
    BY DEF Inv, TypeOK
  <2>2. Eligible(c.setup) \in SUBSET Manifest
    BY DEF Eligible, Inv, TypeOK
  <2>3. /\ call \in CommitCall /\ call.hashed = TRUE
        /\ call.ruleset = c.ruleset /\ call.setup = c.setup
    BY <2>1, <2>2 DEF CommitCall
  <2>4. /\ commits' = (commits \ {c}) \cup {call}
        /\ UNCHANGED <<sessions, domain_events, rulesets, registered, revoked>>
    BY <1>3 DEF CommitHash
  <2> HIDE DEF call
  <2>5. CommitsOK({call}, rulesets)
    BY <2>3 DEF Inv, CommitsOK
  <2> QED
    BY <1>2, <2>3, <2>4, <2>5
<1>4. ASSUME NEW c \in commits, RulesetLookup(c)
      PROVE  Inv'
  <2> DEFINE found == IF rulesets[c.setup.ruleset_id] = NoRuleset THEN "ABSENT" ELSE "BOUND"
             call == [c EXCEPT !.ruleset = found]
  <2>1. c \in CommitCall
    BY DEF Inv, TypeOK
  <2>2. found = "BOUND" => rulesets[c.setup.ruleset_id] = c.setup.ruleset_hash
    <3>1. RulesetAdmissible(c.setup)
      BY <1>4 DEF RulesetLookup, Committable, RulesetHolds
    <3> QED
      BY <3>1 DEF RulesetAdmissible, Insertable
  <2>3. c.hashed
    BY <1>4 DEF RulesetLookup
  <2>4. /\ commits' = (commits \ {c}) \cup {call}
        /\ UNCHANGED <<sessions, domain_events, rulesets, registered, revoked>>
    BY <1>4 DEF RulesetLookup
  <2>5. found \in {"UNREAD", "ABSENT", "BOUND"}
    OBVIOUS
  <2> HIDE DEF found
  <2>6. call \in CommitCall /\ call.ruleset = found /\ call.setup = c.setup /\ call.hashed = c.hashed
    BY <2>1, <2>5 DEF CommitCall
  <2> HIDE DEF call
  <2>7. CommitsOK({call}, rulesets)
    BY <2>2, <2>3, <2>6 DEF CommitsOK
  <2> QED
    BY <1>2, <2>4, <2>6, <2>7
<1>5. ASSUME NEW c \in commits, CommitReject(c)
      PROVE  Inv'
  <2>1. UNCHANGED <<sessions, domain_events, rulesets, registered, revoked>>
    BY <1>5 DEF CommitReject
  <2>2. TypeOK'
    BY <1>5, <2>1 DEF CommitReject, Inv, TypeOK
  <2>3. CommitsOK(commits', rulesets)
    BY <1>5 DEF CommitReject, Inv, CommitsOK
  <2> QED
    BY <2>1, <2>2, <2>3, OtherTables
<1> QED
  BY <1>1, <1>3, <1>4, <1>5, CommitWriteStep DEF CommitStep

LEMMA InstantsInt == Instants \subseteq Int
  BY SetupAssumption DEF Instants

LEMMA OwnerInv ==
    ASSUME Inv, NEW s \in SessionId, NEW p \in Principal, OwnerStep(s, p)
    PROVE  Inv'
<1> DEFINE expected == sessions[s].version
<1>1. CASE Start(s, p, expected)
  BY <1>1, StartStep
<1>2. CASE Pause(s, p, expected)
  BY <1>2, PauseStep
<1>3. ASSUME NEW t \in Instants, Advance(s, p, expected, t)
      PROVE  Inv'
  BY <1>3, InstantsInt, AdvanceStep
<1>4. CASE Complete(s, p, expected)
  BY <1>4, CompleteStep
<1>5. ASSUME NEW child \in SessionId, Fork(s, p, expected, child)
      PROVE  Inv'
  BY <1>5, ForkStep
<1> QED
  BY <1>1, <1>2, <1>3, <1>4, <1>5 DEF OwnerStep

-----------------------------------------------------------------------------
(***************************************************************************)
(* The specification                                                       *)
(***************************************************************************)

LEMMA InitInv == Init => Inv
<1> SUFFICES ASSUME Init PROVE Inv
  OBVIOUS
<1>1. NoRow \in Row
  BY BoundAssumption DEF NoRow, Row
<1>2. TypeOK
  BY <1>1 DEF Init, TypeOK
<1>3. ASSUME NEW s \in SessionId
      PROVE  /\ SessionOK(sessions[s], domain_events[s])
             /\ RulesetOK(rulesets, sessions[s], domain_events[s])
  BY DEF Init, NoRow, SessionOK, RulesetOK, Unpinned
<1>4. CommitsOK(commits, rulesets)
  BY DEF Init, CommitsOK
<1> QED
  BY <1>2, <1>3, <1>4 DEF Inv

\* The state after a first commit, where modules that extend Sessions start.
LEMMA PinnedInv ==
    ASSUME NEW s \in SessionId, NEW p \in Principal, NEW u \in Setup, PinnedInit(s, p, u)
    PROVE  Inv
<1> DEFINE row == [principal |-> p, status |-> "COMMITTED", version |-> 1,
                   ruleset_id |-> u.ruleset_id]
           e   == [event_seq |-> 0, event_type |-> "SESSION_COMMITTED",
                   logical_ts |-> u.play_start, cause |-> 1,
                   payload |-> CommitPayload(u, {u.manifest}),
                   prior_hash |-> ZERO_HASH, current_hash |-> <<1, 0>>]
<1>1. /\ u.ruleset_id \in RulesetId /\ u.ruleset_hash \in RulesetHash
      /\ u.play_start \in Int /\ u.play_end \in Int /\ u.play_start < u.play_end
      /\ u.manifest \in Manifest
  BY SetupAssumption
<1>2. row \in Row /\ NoRow \in Row
  BY <1>1, BoundAssumption DEF Row, Status, NoRow
<1>3. e \in Event
  <2>1. CommitPayload(u, {u.manifest}) \in Payload
    BY <1>1, PayloadsTyped
  <2>2. "SESSION_COMMITTED" \in EventType /\ ZERO_HASH \in Hash /\ <<1, 0>> \in Hash
    BY DEF EventType, PinTypes, Hash, ZERO_HASH
  <2> QED
    BY <1>1, <2>1, <2>2 DEF Event
<1>4. /\ e.event_type = "SESSION_COMMITTED" /\ e.event_seq = 0
      /\ e.prior_hash = ZERO_HASH /\ e.cause = 1 /\ e.payload.setup = u
  BY DEF CommitPayload
<1>5. /\ row.status = "COMMITTED" /\ row.version = 1 /\ row.ruleset_id = u.ruleset_id
  OBVIOUS
<1>6. << e >> = Append(<<>>, e) /\ << e >> \in Seq(Event) /\ << e >>[1] = e
  BY <1>3
<1>7. /\ sessions = [x \in SessionId |-> IF x = s THEN row ELSE NoRow]
      /\ domain_events = [x \in SessionId |-> IF x = s THEN << e >> ELSE <<>>]
      /\ rulesets = [r \in RulesetId |-> IF r = u.ruleset_id THEN u.ruleset_hash
                                                            ELSE NoRuleset]
      /\ registered = {u.manifest} /\ revoked = {} /\ commits = {}
  BY DEF PinnedInit
<1> HIDE DEF row, e
<1>8. SessionOK(row, << e >>)
  <2>1. WindowOK("COMMITTED", u, FrontierAfter(e))
    BY <1>1, <1>4 DEF WindowOK, FrontierAfter
  <2>2. e.event_type \in PinTypes /\ "COMMITTED" \notin Unpinned
    BY <1>4 DEF PinTypes, Unpinned
  <2> QED
    BY <1>2, <1>3, <1>4, <1>5, <1>6, <2>1, <2>2, PinnedOK
<1>9. RulesetOK(rulesets, row, << e >>)
  BY <1>1, <1>4, <1>6, <1>7 DEF RulesetOK
<1>10. SessionOK(NoRow, <<>>) /\ RulesetOK(rulesets, NoRow, <<>>)
  BY DEF SessionOK, RulesetOK, NoRow, Unpinned
<1>11. TypeOK
  BY <1>1, <1>2, <1>6, <1>7 DEF TypeOK
<1>12. CommitsOK(commits, rulesets)
  BY <1>7 DEF CommitsOK
<1> QED
  BY <1>7, <1>8, <1>9, <1>10, <1>11, <1>12 DEF Inv

LEMMA NextInv == Inv /\ [Next]_vars => Inv'
<1> SUFFICES ASSUME Inv, [Next]_vars PROVE Inv'
  OBVIOUS
<1>1. CASE CatalogStep
  BY <1>1, CatalogInv
<1>2. CASE CommitStep
  BY <1>2, CommitInv
<1>3. ASSUME NEW s \in SessionId, NEW p \in Principal, CreateSession(s, p)
      PROVE  Inv'
  BY <1>3, CreateStep
<1>4. ASSUME NEW s \in SessionId, NEW p \in Principal, OwnerStep(s, p)
      PROVE  Inv'
  BY <1>4, OwnerInv
<1>5. ASSUME NEW s \in SessionId, NEW p \in Principal,
             AcceptCommand(s, p, sessions[s].version)
      PROVE  Inv'
  BY <1>5, AcceptStep
<1>6. CASE UNCHANGED vars
  BY <1>6 DEF vars, Inv, TypeOK, SessionOK, RulesetOK, CommitsOK
<1> QED
  BY <1>1, <1>2, <1>3, <1>4, <1>5, <1>6 DEF Next, LifecycleStep

\* The shape of rows, logs and rulesets that SessionService relies on holds in
\* every reachable state.
THEOREM Invariance == Spec => []Inv
  BY InitInv, NextInv, PTL DEF Spec

\* Rows, logs, rulesets and pending commits keep their types: no interleaving
\* makes a version pass U64_MAX or stamps an event with an undefined frontier.
THEOREM TypeCorrect == Spec => []TypeOK
<1>1. Inv => TypeOK
  BY DEF Inv
<1> QED
  BY <1>1, Invariance, PTL

\* The log of every session is one hash chain, which is what the result export
\* re-verifies.
THEOREM ChainUnbroken == Spec => []HashChain
<1>1. Inv => HashChain
  <2> SUFFICES ASSUME Inv, NEW s \in SessionId PROVE ChainOK(domain_events[s])
    BY DEF HashChain, ChainOK
  <2>1. CASE sessions[s].status \in Unpinned
    BY <2>1 DEF Inv, SessionOK, ChainOK
  <2>2. CASE sessions[s].status \notin Unpinned
    BY <2>2 DEF Inv, SessionOK
  <2> QED
    BY <2>1, <2>2
<1> QED
  BY <1>1, Invariance, PTL

\* _materialize_from_row never raises on a row and log the service wrote.
THEOREM AlwaysMaterializable == Spec => []Materializable
<1>1. Inv => Materializable
  <2> SUFFICES ASSUME Inv, NEW s \in SessionId, Exists(s) PROVE Materializes(s)
    BY DEF Materializable
  <2> DEFINE log == domain_events[s]
  <2>1. CASE sessions[s].status \in Unpinned
    <3>1. log = <<>> /\ sessions[s].status = "SETUP"
      BY <2>1 DEF Inv, SessionOK, Exists, Unpinned
    <3>2. PinIdx(log) = {} /\ FrontierIdx(log) = {}
      BY <3>1 DEF PinIdx, FrontierIdx
    <3> QED
      BY <3>1, <3>2 DEF Materializes
  <2>2. CASE sessions[s].status \notin Unpinned
    <3>1. PinOK(sessions[s], log) /\ log \in Seq(Event)
      BY <2>2 DEF Inv, SessionOK, TypeOK
    <3>2. PinIdx(log) = {1} /\ SetupOf(log) = log[1].payload.setup
      BY <3>1, PinnedSetup DEF PinOK
    <3>3. \A i \in FrontierIdx(log) : 1 <= i
      BY <3>1 DEF FrontierIdx
    <3> QED
      BY <3>1, <3>2, <3>3 DEF Materializes, PinOK
  <2> QED
    BY <2>1, <2>2
<1> QED
  BY <1>1, Invariance, PTL

\* The setup a reader of a pinned session finds, and the facts Inv states of it.
LEMMA PinnedFacts ==
    ASSUME Inv, NEW s \in SessionId, sessions[s].status \notin Unpinned
    PROVE  /\ SetupOf(domain_events[s]) = domain_events[s][1].payload.setup
           /\ WindowOK(sessions[s].status, SetupOf(domain_events[s]),
                       FrontierOf(domain_events[s]))
<1>1. /\ PinOK(sessions[s], domain_events[s])
      /\ WindowOK(sessions[s].status, domain_events[s][1].payload.setup,
                  FrontierOf(domain_events[s]))
  BY DEF Inv, SessionOK
<1> QED
  BY <1>1, PinnedSetup DEF PinOK

\* advance() and complete() keep the frontier inside the committed window, and
\* a session is only completed at its end.
THEOREM FrontierBounded == Spec => []FrontierInWindow
<1>1. Inv => FrontierInWindow
  <2> SUFFICES ASSUME Inv, NEW s \in SessionId, sessions[s].status \notin Unpinned
               PROVE  WindowOK(sessions[s].status, SetupOf(domain_events[s]),
                               FrontierOf(domain_events[s]))
    BY DEF FrontierInWindow, WindowOK, Exists, Unpinned
  <2> QED
    BY PinnedFacts
<1> QED
  BY <1>1, Invariance, PTL

\* _persist_ruleset never changes the content a pinned session points at.
THEOREM RulesetsImmutable == Spec => []RulesetsPinned
<1>1. Inv => RulesetsPinned
  <2> SUFFICES ASSUME Inv, NEW s \in SessionId, sessions[s].status \notin Unpinned
               PROVE  LET u == SetupOf(domain_events[s])
                      IN  rulesets[u.ruleset_id] = u.ruleset_hash
    BY DEF RulesetsPinned, Exists, Unpinned
  <2> QED
    BY PinnedFacts DEF Inv, RulesetOK
<1> QED
  BY <1>1, Invariance, PTL

-----------------------------------------------------------------------------
(***************************************************************************)
(* What no step may do                                                     *)
(***************************************************************************)

\* AppendOnlyStep for one session.
Extends(row, row2, log, log2) ==
    /\ Len(log) <= Len(log2)
    /\ \A i \in DOMAIN log : log2[i] = log[i]
    /\ row.version <= row2.version
    /\ PinIdx(log) # {} => /\ SetupOf(log2) = SetupOf(log)
                           /\ FrontierOf(log) <= FrontierOf(log2)
    /\ row.status = "COMPLETED" => row2 = row

\* Rows are typed, and a log with a pin has an integer frontier.
LEMMA ReadTyped ==
    ASSUME Inv, NEW s \in SessionId
    PROVE  /\ sessions[s] \in Row /\ domain_events[s] \in Seq(Event)
           /\ sessions[s].version \in Nat
           /\ sessions[s].status \in Unpinned => domain_events[s] = <<>>
           /\ PinIdx(domain_events[s]) # {} => FrontierOf(domain_events[s]) \in Int
<1>1. sessions[s] \in Row /\ domain_events[s] \in Seq(Event)
  BY DEF Inv, TypeOK
<1>2. sessions[s].version \in Nat
  BY <1>1, BoundAssumption DEF Row
<1>3. CASE sessions[s].status \in Unpinned
  <2>1. domain_events[s] = <<>>
    BY <1>3 DEF Inv, SessionOK
  <2>2. PinIdx(domain_events[s]) = {}
    BY <2>1 DEF PinIdx
  <2> QED
    BY <1>1, <1>2, <2>1, <2>2
<1>4. CASE sessions[s].status \notin Unpinned
  BY <1>1, <1>2, <1>4, PinnedFacts DEF WindowOK
<1> QED
  BY <1>3, <1>4

LEMMA SelfExtends ==
    ASSUME Inv, NEW s \in SessionId
    PROVE  Extends(sessions[s], sessions[s], domain_events[s], domain_events[s])
<1>1. /\ Len(domain_events[s]) <= Len(domain_events[s])
      /\ sessions[s].version <= sessions[s].version
  BY ReadTyped
<1>2. PinIdx(domain_events[s]) # {} =>
         FrontierOf(domain_events[s]) <= FrontierOf(domain_events[s])
  <2>1. \A n \in Int : n <= n
    OBVIOUS
  <2>2. PinIdx(domain_events[s]) # {} => FrontierOf(domain_events[s]) \in Int
    BY ReadTyped
  <2> QED
    BY <2>1, <2>2, Zenon
<1> QED
  BY <1>1, <1>2 DEF Extends

LEMMA OneExtends ==
    ASSUME Inv, NEW s \in SessionId, NEW row, NEW log,
           sessions' = [sessions EXCEPT ![s] = row],
           domain_events' = [domain_events EXCEPT ![s] = log],
           Extends(sessions[s], row, domain_events[s], log)
    PROVE  AppendOnlyStep
<1> SUFFICES ASSUME NEW x \in SessionId
             PROVE  Extends(sessions[x], sessions'[x],
                            domain_events[x], domain_events'[x])
  BY DEF AppendOnlyStep, Extends
<1>1. CASE x = s
  <2>1. sessions'[x] = row /\ domain_events'[x] = log
    BY <1>1 DEF Inv, TypeOK
  <2> QED
    BY <1>1, <2>1
<1>2. CASE x # s
  <2>1. sessions'[x] = sessions[x] /\ domain_events'[x] = domain_events[x]
    BY <1>2 DEF Inv, TypeOK
  <2> QED
    BY <2>1, SelfExtends
<1> QED
  BY <1>1, <1>2

\* Steps that leave rows and logs alone.
LEMMA SameExtends ==
    ASSUME Inv, UNCHANGED <<sessions, domain_events>>
    PROVE  AppendOnlyStep
  BY SelfExtends DEF AppendOnlyStep, Extends

\* The first event of a log.
LEMMA FirstExtends ==
    ASSUME Inv, NEW s \in SessionId, sessions[s].status \in Unpinned,
           NEW row, NEW log \in Seq(Event),
           sessions' = [sessions EXCEPT ![s] = row],
           domain_events' = [domain_events EXCEPT ![s] = log],
           row.version \in Nat
    PROVE  AppendOnlyStep
<1>1. domain_events[s] = <<>> /\ sessions[s].version = 0
  BY DEF Inv, SessionOK
<1>2. PinIdx(domain_events[s]) = {} /\ sessions[s].status # "COMPLETED"
  BY <1>1 DEF PinIdx, Unpinned
<1>3. Extends(sessions[s], row, domain_events[s], log)
  BY <1>1, <1>2 DEF Extends
<1> QED
  BY <1>3, OneExtends

LEMMA TransitionExtends ==
    ASSUME Inv, NEW s \in SessionId, NEW p \in Principal, NEW expected,
           NEW allowed, allowed \cap (Unpinned \cup {"COMPLETED"}) = {},
           NEW target \in Status,
           NEW type \in EventType, type \notin PinTypes,
           NEW ts \in Int, NEW payload \in Payload,
           type = "SESSION_ADVANCED" => payload.time > FrontierOf(domain_events[s]),
           Locked(s, p, expected, allowed),
           AppendEvent(s, type, ts, payload, expected + 1),
           AdvanceVersion(s, target)
    PROVE  AppendOnlyStep
<1> DEFINE old == sessions[s]
           log == domain_events[s]
           row == [old EXCEPT !.status = target, !.version = @ + 1]
           e   == NewEvent(s, type, ts, payload, expected + 1)
           new == Append(log, e)
<1>1. /\ old \in Row /\ log \in Seq(Event) /\ old.status \in allowed
      /\ old.version = expected /\ expected \in Nat
      /\ PinOK(old, log) /\ WindowOK(old.status, SetupOf(log), FrontierOf(log))
  BY LockedFacts
<1>2. e \in Event
  BY <1>1, NewEventTyped DEF Inv
<1>3. e.event_type = type /\ e.payload = payload
  BY DEF NewEvent
<1>4. /\ Len(log) \in Nat /\ Len(new) = Len(log) + 1
      /\ \A i \in DOMAIN log : new[i] = log[i]
  BY <1>1, <1>2, AppendFacts
<1>5. /\ PinIdx(new) = {1}
      /\ FrontierOf(log) <= FrontierOf(new)
  <2>1. /\ PinIdx(log) = {1} /\ HasFrontier(log)
        /\ FrontierOf(log) \in Int /\ payload.time \in Int
    BY <1>1 DEF PinOK, WindowOK, Payload
  <2>2. CASE type = "SESSION_ADVANCED"
    BY <1>1, <1>2, <1>3, <2>1, <2>2, AdvanceAppend
  <2>3. CASE type # "SESSION_ADVANCED"
    BY <1>1, <1>2, <1>3, <2>1, <2>3, NeutralAppend
  <2> QED
    BY <2>2, <2>3
<1>6. SetupOf(new) = SetupOf(log)
  <2>1. new[1] = log[1] /\ PinIdx(log) = {1}
    BY <1>1, <1>4 DEF PinOK
  <2> QED
    BY <1>5, <2>1, PinnedSetup
<1>7. row.version = old.version + 1
  BY <1>1 DEF Row
<1>8. Extends(old, row, log, new)
  BY <1>1, <1>4, <1>5, <1>6, <1>7 DEF Extends
<1>9. /\ sessions' = [sessions EXCEPT ![s] = row]
      /\ domain_events' = [domain_events EXCEPT ![s] = new]
  BY DEF AppendEvent, AdvanceVersion
<1> QED
  BY <1>8, <1>9, OneExtends

LEMMA OwnerExtends ==
    ASSUME Inv, NEW s \in SessionId, NEW p \in Principal, OwnerStep(s, p)
    PROVE  AppendOnlyStep
<1> DEFINE expected == sessions[s].version
           front    == FrontierOf(domain_events[s])
<1> USE DEF Unpinned
<1>1. ASSUME NEW allowed, allowed \cap (Unpinned \cup {"COMPLETED"}) = {},
             NEW target \in Status, NEW type \in EventType,
             type \notin PinTypes, type # "SESSION_ADVANCED",
             Locked(s, p, expected, allowed),
             AppendEvent(s, type, front, EmptyPayload, expected + 1),
             AdvanceVersion(s, target)
      PROVE  AppendOnlyStep
  <2>1. front \in Int
    BY <1>1, LockedFacts DEF WindowOK
  <2> QED
    BY <1>1, <2>1, PayloadsTyped, TransitionExtends
<1>2. CASE Start(s, p, expected)
  <2>1. /\ {"COMMITTED", "PAUSED"} \cap (Unpinned \cup {"COMPLETED"}) = {}
        /\ "RUNNING" \in Status /\ "SESSION_STARTED" \in EventType \ PinTypes
    BY DEF Status, EventType, PinTypes
  <2> QED
    BY <1>1, <1>2, <2>1 DEF Start, StatusTransition
<1>3. CASE Pause(s, p, expected)
  <2>1. /\ {"RUNNING"} \cap (Unpinned \cup {"COMPLETED"}) = {}
        /\ "PAUSED" \in Status /\ "SESSION_PAUSED" \in EventType \ PinTypes
    BY DEF Status, EventType, PinTypes
  <2> QED
    BY <1>1, <1>3, <2>1 DEF Pause, StatusTransition
<1>4. CASE Complete(s, p, expected)
  <2>1. /\ {"RUNNING", "PAUSED"} \cap (Unpinned \cup {"COMPLETED"}) = {}
        /\ "COMPLETED" \in Status /\ "SESSION_COMPLETED" \in EventType \ PinTypes
    BY DEF Status, EventType, PinTypes
  <2> QED
    BY <1>1, <1>4, <2>1 DEF Complete
<1>5. ASSUME NEW t \in Instants, Advance(s, p, expected, t)
      PROVE  AppendOnlyStep
  <2> DEFINE payload == [EmptyPayload EXCEPT !.time = t]
  <2>1. t \in Int /\ payload \in Payload /\ payload.time = t
    BY InstantsInt, PayloadsTyped DEF EmptyPayload
  <2>2. /\ {"RUNNING"} \cap (Unpinned \cup {"COMPLETED"}) = {}
        /\ "RUNNING" \in Status /\ "SESSION_ADVANCED" \in EventType \ PinTypes
    BY DEF Status, EventType, PinTypes
  <2>3. /\ Locked(s, p, expected, {"RUNNING"}) /\ t > front
        /\ AppendEvent(s, "SESSION_ADVANCED", t, payload, expected + 1)
        /\ AdvanceVersion(s, "RUNNING")
    BY <1>5 DEF Advance, AdvanceInRange
  <2> QED
    BY <2>1, <2>2, <2>3, TransitionExtends
<1>6. ASSUME NEW child \in SessionId, Fork(s, p, expected, child)
      PROVE  AppendOnlyStep
  <2> DEFINE row == [principal |-> p, status |-> ForkStatus(s), version |-> 1,
                     ruleset_id |-> SetupOf(domain_events[s]).ruleset_id]
             log == domain_events'[child]
  <2>1. Inv'
    BY <1>6, ForkStep
  <2>2. /\ sessions[child].status \in Unpinned /\ row.version \in Nat
        /\ sessions' = [sessions EXCEPT ![child] = row]
    BY <1>6 DEF Fork, Exists
  <2>3. domain_events' = [domain_events EXCEPT ![child] = log] /\ log \in Seq(Event)
    BY <1>6, <2>1 DEF Fork, AppendEvent, Inv, TypeOK
  <2> QED
    BY <2>2, <2>3, FirstExtends
<1> QED
  BY <1>2, <1>3, <1>4, <1>5, <1>6 DEF OwnerStep

LEMMA CommitExtends ==
    ASSUME Inv, CommitStep
    PROVE  AppendOnlyStep
<1>1. CASE UNCHANGED <<sessions, domain_events>>
  BY <1>1, SameExtends
<1>2. ASSUME NEW c \in commits, CommitWrite(c)
      PROVE  AppendOnlyStep
  <2> DEFINE s   == c.session
             row == [sessions[s] EXCEPT !.status = "COMMITTED",
                                        !.version = c.expected + 1,
                                        !.ruleset_id = c.setup.ruleset_id]
             log == domain_events'[s]
  <2>1. Inv'
    BY <1>2, CommitWriteStep
  <2>2. /\ s \in SessionId /\ c.expected \in 0 .. MaxVersion - 1
        /\ sessions[s] \in Row
    BY DEF Inv, TypeOK, CommitCall
  <2>3. sessions[s].status \in Unpinned
    BY <1>2 DEF CommitWrite, Committable, Unpinned
  <2>4. row.version \in Nat
    BY <2>2, BoundAssumption DEF Row
  <2>5. sessions' = [sessions EXCEPT ![s] = row]
    BY <1>2 DEF CommitWrite
  <2>6. domain_events' = [domain_events EXCEPT ![s] = log] /\ log \in Seq(Event)
    BY <1>2, <2>1, <2>2 DEF CommitWrite, AppendEvent, Inv, TypeOK
  <2> QED
    BY <2>2, <2>3, <2>4, <2>5, <2>6, FirstExtends
<1> QED
  BY <1>1, <1>2 DEF CommitStep, CommitCheck, CommitHash, RulesetLookup, CommitReject

LEMMA NextExtends == Inv /\ Next => AppendOnlyStep
<1> SUFFICES ASSUME Inv, Next PROVE AppendOnlyStep
  OBVIOUS
<1>1. CASE CatalogStep
  BY <1>1, SameExtends DEF CatalogStep, Register, Revoke
<1>2. CASE CommitStep
  BY <1>2, CommitExtends
<1>3. ASSUME NEW s \in SessionId, NEW p \in Principal, CreateSession(s, p)
      PROVE  AppendOnlyStep
  <2> DEFINE row == [principal |-> p, status |-> "SETUP", version |-> 0,
                     ruleset_id |-> NoRuleset]
  <2>1. /\ sessions[s].status \in Unpinned /\ row.version \in Nat
        /\ sessions' = [sessions EXCEPT ![s] = row]
    BY <1>3 DEF CreateSession, Exists, Unpinned
  <2>2. /\ domain_events' = [domain_events EXCEPT ![s] = domain_events[s]]
        /\ domain_events[s] \in Seq(Event)
    BY <1>3 DEF CreateSession, Inv, TypeOK
  <2> QED
    BY <2>1, <2>2, FirstExtends
<1>4. ASSUME NEW s \in SessionId, NEW p \in Principal, OwnerStep(s, p)
      PROVE  AppendOnlyStep
  BY <1>4, OwnerExtends
<1>5. ASSUME NEW s \in SessionId, NEW p \in Principal,
             AcceptCommand(s, p, sessions[s].version)
      PROVE  AppendOnlyStep
  <2> DEFINE row == [sessions[s] EXCEPT !.version = sessions[s].version + 1]
  <2>1. sessions[s].version \in Nat /\ row.version = sessions[s].version + 1
    BY ReadTyped DEF Row
  <2>2. Extends(sessions[s], row, domain_events[s], domain_events[s])
    BY <1>5, <2>1, SelfExtends DEF Extends, AcceptCommand
  <2>3. /\ sessions' = [sessions EXCEPT ![s] = row]
        /\ domain_events' = [domain_events EXCEPT ![s] = domain_events[s]]
    BY <1>5 DEF AcceptCommand, Inv, TypeOK
  <2> QED
    BY <2>2, <2>3, OneExtends
<1> QED
  BY <1>1, <1>2, <1>3, <1>4, <1>5 DEF Next, LifecycleStep

\* No step of the lifecycle or of the command intake rewrites history, unpins
\* a setup, moves a frontier back, lowers a version or touches a completed row.
THEOREM HistoryAppendOnly == Spec => AppendOnly
<1>1. Inv /\ [Next]_vars => [AppendOnlyStep]_vars
  BY NextExtends
<1> QED
  BY <1>1, Invariance, PTL DEF Spec, AppendOnly

-----------------------------------------------------------------------------
(***************************************************************************)
(* How one session goes on                                                 *)
(***************************************************************************)

\* A pinned session writes at most one event in a step: never another pin,
\* caused by the version the step leads to and stamped with the frontier it
\* leaves behind.
Continues(row, row2, log, log2) ==
    \/ row2.version \in Nat /\ row2.version >= row.version /\ log2 = log
    \/ \E e \in Event :
          /\ log2 = Append(log, e)
          /\ row2.version = row.version + 1
          /\ e.cause = row.version + 1
          /\ e.event_type \notin PinTypes \cup {"TRADE"}
          /\ e.logical_ts = FrontierOf(log2)

\* What a step leaves of one session: it stays there, with its owner, and
\* stays pinned once it is.
Keeps(row, row2, log, log2) ==
    /\ row.status # "NONE" => row2.status # "NONE" /\ row2.principal = row.principal
    /\ row.status \notin Unpinned =>
          row2.status \notin Unpinned /\ Continues(row, row2, log, log2)

KeepsStep ==
    \A s \in SessionId :
        Keeps(sessions[s], sessions'[s], domain_events[s], domain_events'[s])

LEMMA SelfKeeps ==
    ASSUME Inv, NEW s \in SessionId
    PROVE  Keeps(sessions[s], sessions[s], domain_events[s], domain_events[s])
<1>1. sessions[s].version \in Nat /\ sessions[s].version >= sessions[s].version
  BY ReadTyped
<1> QED
  BY <1>1 DEF Keeps, Continues

LEMMA OneKeeps ==
    ASSUME Inv, NEW s \in SessionId, NEW row, NEW log,
           sessions' = [sessions EXCEPT ![s] = row],
           domain_events' = [domain_events EXCEPT ![s] = log],
           Keeps(sessions[s], row, domain_events[s], log)
    PROVE  KeepsStep
<1> SUFFICES ASSUME NEW x \in SessionId
             PROVE  Keeps(sessions[x], sessions'[x], domain_events[x], domain_events'[x])
  BY DEF KeepsStep
<1>1. CASE x = s
  <2>1. sessions'[x] = row /\ domain_events'[x] = log
    BY <1>1 DEF Inv, TypeOK
  <2> QED
    BY <1>1, <2>1
<1>2. CASE x # s
  <2>1. sessions'[x] = sessions[x] /\ domain_events'[x] = domain_events[x]
    BY <1>2 DEF Inv, TypeOK
  <2> QED
    BY <2>1, SelfKeeps
<1> QED
  BY <1>1, <1>2

LEMMA TransitionKeeps ==
    ASSUME Inv, NEW s \in SessionId, NEW p \in Principal, NEW expected,
           NEW allowed, allowed \cap Unpinned = {},
           NEW target \in Status, target \notin Unpinned,
           NEW type \in EventType, type \notin PinTypes \cup {"TRADE"},
           NEW ts \in Int, NEW payload \in Payload,
           ts = IF type = "SESSION_ADVANCED" THEN payload.time
                                             ELSE FrontierOf(domain_events[s]),
           Locked(s, p, expected, allowed),
           AppendEvent(s, type, ts, payload, expected + 1),
           AdvanceVersion(s, target)
    PROVE  KeepsStep
<1> DEFINE old == sessions[s]
           log == domain_events[s]
           row == [old EXCEPT !.status = target, !.version = @ + 1]
           e   == NewEvent(s, type, ts, payload, expected + 1)
           new == Append(log, e)
<1>1. /\ old \in Row /\ log \in Seq(Event) /\ old.status \notin Unpinned
      /\ old.version = expected /\ expected \in Nat
      /\ PinOK(old, log)
  BY LockedFacts
<1>2. e \in Event
  BY <1>1, NewEventTyped DEF Inv
<1>3. e.event_type = type /\ e.payload = payload /\ e.logical_ts = ts /\ e.cause = expected + 1
  BY DEF NewEvent
<1>4. FrontierOf(new) = ts
  <2>1. HasFrontier(log)
    BY <1>1 DEF PinOK
  <2>2. CASE type = "SESSION_ADVANCED"
    BY <1>1, <1>2, <1>3, <2>1, <2>2, AdvanceAppend
  <2>3. CASE type # "SESSION_ADVANCED"
    BY <1>1, <1>2, <1>3, <2>1, <2>3, NeutralAppend
  <2> QED
    BY <2>2, <2>3
<1>5. row.version = old.version + 1 /\ row.status = target /\ row.principal = old.principal
  BY <1>1 DEF Row
<1>6. Continues(old, row, log, new)
  BY <1>1, <1>2, <1>3, <1>4, <1>5 DEF Continues
<1>7. Keeps(old, row, log, new)
  BY <1>5, <1>6 DEF Keeps, Unpinned
<1>8. /\ sessions' = [sessions EXCEPT ![s] = row]
      /\ domain_events' = [domain_events EXCEPT ![s] = new]
  BY DEF AppendEvent, AdvanceVersion
<1> QED
  BY <1>7, <1>8, OneKeeps

\* The first event of a log.
LEMMA FirstKeeps ==
    ASSUME Inv, NEW s \in SessionId, sessions[s].status \in Unpinned,
           NEW row, NEW log,
           sessions' = [sessions EXCEPT ![s] = row],
           domain_events' = [domain_events EXCEPT ![s] = log],
           sessions[s].status # "NONE" =>
              row.status # "NONE" /\ row.principal = sessions[s].principal
    PROVE  KeepsStep
  BY OneKeeps DEF Keeps

LEMMA OwnerKeeps ==
    ASSUME Inv, NEW s \in SessionId, NEW p \in Principal, OwnerStep(s, p)
    PROVE  KeepsStep
<1> DEFINE expected == sessions[s].version
           front    == FrontierOf(domain_events[s])
<1> USE DEF Unpinned
<1>1. ASSUME NEW allowed, allowed \cap Unpinned = {},
             NEW target \in Status, target \notin Unpinned, NEW type \in EventType,
             type \notin PinTypes \cup {"TRADE"}, type # "SESSION_ADVANCED",
             Locked(s, p, expected, allowed),
             AppendEvent(s, type, front, EmptyPayload, expected + 1),
             AdvanceVersion(s, target)
      PROVE  KeepsStep
  <2>1. front \in Int
    BY <1>1, LockedFacts DEF WindowOK
  <2> QED
    BY <1>1, <2>1, PayloadsTyped, TransitionKeeps
<1>2. CASE Start(s, p, expected)
  <2>1. /\ {"COMMITTED", "PAUSED"} \cap Unpinned = {} /\ "RUNNING" \notin Unpinned
        /\ "RUNNING" \in Status /\ "SESSION_STARTED" \in EventType \ (PinTypes \cup {"TRADE"})
    BY DEF Status, EventType, PinTypes
  <2> QED
    BY <1>1, <1>2, <2>1 DEF Start, StatusTransition
<1>3. CASE Pause(s, p, expected)
  <2>1. /\ {"RUNNING"} \cap Unpinned = {} /\ "PAUSED" \notin Unpinned
        /\ "PAUSED" \in Status /\ "SESSION_PAUSED" \in EventType \ (PinTypes \cup {"TRADE"})
    BY DEF Status, EventType, PinTypes
  <2> QED
    BY <1>1, <1>3, <2>1 DEF Pause, StatusTransition
<1>4. CASE Complete(s, p, expected)
  <2>1. /\ {"RUNNING", "PAUSED"} \cap Unpinned = {} /\ "COMPLETED" \notin Unpinned
        /\ "COMPLETED" \in Status /\ "SESSION_COMPLETED" \in EventType \ (PinTypes \cup {"TRADE"})
    BY DEF Status, EventType, PinTypes
  <2> QED
    BY <1>1, <1>4, <2>1 DEF Complete
<1>5. ASSUME NEW t \in Instants, Advance(s, p, expected, t)
      PROVE  KeepsStep
  <2> DEFINE payload == [EmptyPayload EXCEPT !.time = t]
  <2>1. t \in Int /\ payload \in Payload /\ payload.time = t
    BY InstantsInt, PayloadsTyped DEF EmptyPayload
  <2>2. /\ {"RUNNING"} \cap Unpinned = {} /\ "RUNNING" \notin Unpinned
        /\ "RUNNING" \in Status /\ "SESSION_ADVANCED" \in EventType \ (PinTypes \cup {"TRADE"})
    BY DEF Status, EventType, PinTypes
  <2>3. /\ Locked(s, p, expected, {"RUNNING"})
        /\ AppendEvent(s, "SESSION_ADVANCED", t, payload, expected + 1)
        /\ AdvanceVersion(s, "RUNNING")
    BY <1>5 DEF Advance
  <2> QED
    BY <2>1, <2>2, <2>3, TransitionKeeps
<1>6. ASSUME NEW child \in SessionId, Fork(s, p, expected, child)
      PROVE  KeepsStep
  <2>1. /\ sessions[child].status = "NONE"
        /\ \E row, log : /\ sessions' = [sessions EXCEPT ![child] = row]
                         /\ domain_events' = [domain_events EXCEPT ![child] = log]
    BY <1>6 DEF Fork, Exists, AppendEvent
  <2> QED
    BY <2>1, FirstKeeps
<1> QED
  BY <1>2, <1>3, <1>4, <1>5, <1>6 DEF OwnerStep

LEMMA CommitKeeps ==
    ASSUME Inv, CommitStep
    PROVE  KeepsStep
<1>1. CASE UNCHANGED <<sessions, domain_events>>
  BY <1>1, SelfKeeps DEF KeepsStep
<1>2. ASSUME NEW c \in commits, CommitWrite(c)
      PROVE  KeepsStep
  <2> DEFINE s   == c.session
             row == [sessions[s] EXCEPT !.status = "COMMITTED",
                                        !.version = c.expected + 1,
                                        !.ruleset_id = c.setup.ruleset_id]
  <2>1. s \in SessionId /\ sessions[s] \in Row
    BY DEF Inv, TypeOK, CommitCall
  <2>2. sessions[s].status \in Unpinned
    BY <1>2 DEF CommitWrite, Committable, Unpinned
  <2>3. row.status = "COMMITTED" /\ row.principal = sessions[s].principal
    BY <2>1 DEF Row
  <2>4. /\ sessions' = [sessions EXCEPT ![s] = row]
        /\ \E log : domain_events' = [domain_events EXCEPT ![s] = log]
    BY <1>2 DEF CommitWrite, AppendEvent
  <2> HIDE DEF s, row
  <2> QED
    BY <2>1, <2>2, <2>3, <2>4, FirstKeeps
<1> QED
  BY <1>1, <1>2 DEF CommitStep, CommitCheck, CommitHash, RulesetLookup, CommitReject

LEMMA AcceptKeeps ==
    ASSUME Inv, NEW s \in SessionId, NEW p \in Principal, NEW expected,
           AcceptCommand(s, p, expected)
    PROVE  KeepsStep
<1> DEFINE row == [sessions[s] EXCEPT !.version = expected + 1]
<1>1. /\ sessions[s] \in Row /\ sessions[s].version \in Nat
      /\ sessions[s].version = expected
  BY ReadTyped DEF AcceptCommand
<1>2. /\ row.version \in Nat /\ row.version >= sessions[s].version
      /\ row.status = sessions[s].status
      /\ row.principal = sessions[s].principal
  BY <1>1 DEF Row
<1>3. Keeps(sessions[s], row, domain_events[s], domain_events[s])
  BY <1>2 DEF Keeps, Continues
<1>4. /\ sessions' = [sessions EXCEPT ![s] = row]
      /\ domain_events' = [domain_events EXCEPT ![s] = domain_events[s]]
  BY DEF AcceptCommand, Inv, TypeOK
<1> QED
  BY <1>3, <1>4, OneKeeps

LEMMA NextKeeps == Inv /\ [Next]_vars => KeepsStep
<1> SUFFICES ASSUME Inv, [Next]_vars PROVE KeepsStep
  OBVIOUS
<1>1. CASE CatalogStep
  BY <1>1, SelfKeeps DEF CatalogStep, Register, Revoke, KeepsStep
<1>2. CASE CommitStep
  BY <1>2, CommitKeeps
<1>3. ASSUME NEW s \in SessionId, NEW p \in Principal, CreateSession(s, p)
      PROVE  KeepsStep
  <2>1. /\ sessions[s].status \in Unpinned /\ sessions[s].status = "NONE"
        /\ \E row : sessions' = [sessions EXCEPT ![s] = row]
        /\ domain_events' = [domain_events EXCEPT ![s] = domain_events[s]]
    BY <1>3 DEF CreateSession, Exists, Unpinned, Inv, TypeOK
  <2> QED
    BY <2>1, FirstKeeps
<1>4. ASSUME NEW s \in SessionId, NEW p \in Principal, OwnerStep(s, p)
      PROVE  KeepsStep
  BY <1>4, OwnerKeeps
<1>5. ASSUME NEW s \in SessionId, NEW p \in Principal,
             AcceptCommand(s, p, sessions[s].version)
      PROVE  KeepsStep
  BY <1>5, AcceptKeeps
<1>6. CASE UNCHANGED vars
  BY <1>6, SelfKeeps DEF vars, KeepsStep
<1> QED
  BY <1>1, <1>2, <1>3, <1>4, <1>5, <1>6 DEF Next, LifecycleStep

-----------------------------------------------------------------------------
(***************************************************************************)
(* The logs a step opens, and the causes of events                         *)
(***************************************************************************)

\* The logs a step opens: by a commit, by a fork, or none.
LEMMA LogCases ==
    ASSUME Inv, [Next]_vars
    PROVE  \/ \E c \in commits : CommitWrite(c)
           \/ \E s, child \in SessionId, p \in Principal :
                 Fork(s, p, sessions[s].version, child)
           \/ \A s \in SessionId : sessions[s].status \in Unpinned =>
                                      domain_events'[s] = domain_events[s]
<1> DEFINE Same == \A s \in SessionId : sessions[s].status \in Unpinned =>
                                           domain_events'[s] = domain_events[s]
<1>1. ASSUME UNCHANGED domain_events
      PROVE  Same
  BY <1>1
<1>2. ASSUME NEW s \in SessionId, sessions[s].status \notin Unpinned, NEW log,
             domain_events' = [domain_events EXCEPT ![s] = log]
      PROVE  Same
  BY <1>2 DEF Inv, TypeOK
<1> HIDE DEF Same
<1>3. ASSUME NEW s \in SessionId, NEW p \in Principal, OwnerStep(s, p)
      PROVE  \/ \E child \in SessionId : Fork(s, p, sessions[s].version, child)
             \/ Same
  BY <1>2, <1>3 DEF OwnerStep, Start, Pause, StatusTransition, Advance, Complete,
     Locked, AppendEvent, Unpinned
<1>4. CASE CatalogStep
  BY <1>1, <1>4 DEF CatalogStep, Register, Revoke
<1>5. CASE CommitStep
  <2>1. (\E c \in commits : CommitWrite(c)) \/ UNCHANGED domain_events
    BY <1>5 DEF CommitStep, CommitCheck, CommitHash, RulesetLookup, CommitReject
  <2> QED
    BY <1>1, <2>1 DEF Same
<1>6. CASE \E s \in SessionId, p \in Principal :
              CreateSession(s, p) \/ AcceptCommand(s, p, sessions[s].version)
  BY <1>1, <1>6 DEF CreateSession, AcceptCommand
<1>7. CASE UNCHANGED vars
  BY <1>1, <1>7 DEF vars
<1> QED
  BY <1>3, <1>4, <1>5, <1>6, <1>7 DEF Next, LifecycleStep, Same

\* The event a commit opens a log with.
LEMMA CommitOpens ==
    ASSUME Inv, NEW c \in commits, CommitWrite(c)
    PROVE  \E e \in Event :
              /\ e.event_type = "SESSION_COMMITTED"
              /\ e.logical_ts = c.setup.play_start
              /\ e.payload = CommitPayload(c.setup, c.eligibility)
              /\ e.cause = 1
              /\ c.session \in SessionId
              /\ sessions[c.session].status = "SETUP"
              /\ domain_events[c.session] = <<>>
              /\ domain_events' = [domain_events EXCEPT ![c.session] = Append(<<>>, e)]
<1> DEFINE s == c.session
           e == NewEvent(s, "SESSION_COMMITTED", c.setup.play_start,
                         CommitPayload(c.setup, c.eligibility), c.expected + 1)
<1>1. /\ domain_events' = [domain_events EXCEPT ![s] = Append(domain_events[s], e)]
      /\ sessions[s].status = "SETUP" /\ sessions[s].version = c.expected
  BY DEF CommitWrite, AppendEvent, Committable
<1>2. c \in CommitCall /\ s \in SessionId /\ domain_events \in [SessionId -> Seq(Event)]
  BY DEF Inv, TypeOK, CommitCall
<1>3. domain_events[s] = <<>> /\ c.expected = 0
  BY <1>1, <1>2 DEF Inv, SessionOK, Unpinned
<1>4. /\ c.setup \in Setup /\ c.setup.play_start \in Int
      /\ CommitPayload(c.setup, c.eligibility) \in Payload
  BY <1>2, PayloadsTyped, SetupAssumption DEF CommitCall
<1>5. e \in Event
  BY <1>2, <1>3, <1>4, NewEventTyped DEF Inv, EventType, PinTypes
<1>6. /\ e.event_type = "SESSION_COMMITTED" /\ e.logical_ts = c.setup.play_start
      /\ e.payload = CommitPayload(c.setup, c.eligibility) /\ e.cause = 1
  BY <1>3 DEF NewEvent
<1> QED
  BY <1>1, <1>2, <1>3, <1>5, <1>6

\* The event a fork opens the child's log with.
LEMMA ForkOpens ==
    ASSUME Inv, NEW s \in SessionId, NEW child \in SessionId, NEW p \in Principal,
           Fork(s, p, sessions[s].version, child)
    PROVE  \E e \in Event :
              /\ e.event_type = "SESSION_FORKED"
              /\ e.logical_ts = FrontierOf(domain_events[s])
              /\ e.payload = ForkPayload(s, sessions[s].version)
              /\ e.cause = 1
              /\ sessions[child].status = "NONE"
              /\ sessions[s].status \notin Unpinned
              /\ sessions[s].principal = p
              /\ domain_events[child] = <<>>
              /\ domain_events' = [domain_events EXCEPT ![child] = Append(<<>>, e)]
<1> DEFINE log == domain_events[s]
           e   == NewEvent(child, "SESSION_FORKED", FrontierOf(log),
                           ForkPayload(s, sessions[s].version), 1)
<1>1. /\ domain_events' = [domain_events EXCEPT ![child] = Append(domain_events[child], e)]
      /\ sessions[child].status = "NONE" /\ sessions[s].principal = p
      /\ Locked(s, p, sessions[s].version, {"COMMITTED", "RUNNING", "PAUSED"})
  BY DEF Fork, AppendEvent, Exists, Locked
<1>2. domain_events[child] = <<>> /\ domain_events \in [SessionId -> Seq(Event)]
  BY <1>1 DEF Inv, SessionOK, Unpinned, TypeOK
<1>3. /\ sessions[s].status \notin Unpinned /\ SetupOf(log) \in Setup
      /\ FrontierOf(log) \in Int /\ sessions[s].version \in Nat
      /\ PinIdx(log) = {1} /\ log[1] \in Event
  <2>1. {"COMMITTED", "RUNNING", "PAUSED"} \cap Unpinned = {}
    BY DEF Unpinned
  <2>2. /\ PinOK(sessions[s], log) /\ sessions[s].status \notin Unpinned
        /\ SetupOf(log) \in Setup /\ sessions[s].version \in Nat
        /\ WindowOK(sessions[s].status, SetupOf(log), FrontierOf(log))
    BY <1>1, <2>1, LockedFacts
  <2>3. log[1] \in Event
    BY <1>2, <2>2 DEF PinOK
  <2> QED
    BY <2>2, <2>3 DEF PinOK, WindowOK
<1>4. ForkPayload(s, sessions[s].version) \in Payload
  <2>1. log[1].payload.eligibility \in SUBSET Manifest
    BY <1>3 DEF Event, Payload
  <2> QED
    BY <1>3, <2>1, PinnedSetup DEF ForkPayload, Payload
<1>5. e \in Event
  BY <1>3, <1>4, NewEventTyped DEF Inv, EventType, PinTypes
<1>6. /\ e.event_type = "SESSION_FORKED" /\ e.logical_ts = FrontierOf(log)
      /\ e.payload = ForkPayload(s, sessions[s].version) /\ e.cause = 1
  BY DEF NewEvent
<1> QED
  BY <1>1, <1>2, <1>3, <1>5, <1>6

\* A log whose causes grow strictly.
Strict(log) == \A i, j \in DOMAIN log : j < i => log[j].cause < log[i].cause

StrictCauses == \A s \in SessionId : Strict(domain_events[s])

LEMMA StrictAppend ==
    ASSUME NEW n \in Nat, NEW log \in Seq(Event), NEW e \in Event, Strict(log),
           CausesOK(n, log), e.cause = n + 1
    PROVE  Strict(Append(log, e))
<1> DEFINE new == Append(log, e)
<1>1. \A i \in 1 .. Len(log) : log[i] \in Event /\ log[i].cause \in Nat /\ log[i].cause <= n
  <2>1. \A i \in 1 .. Len(log) : log[i] \in Event
    OBVIOUS
  <2> QED
    BY <2>1, AppendFacts DEF Event, CausesOK
<1> SUFFICES ASSUME NEW i \in 1 .. Len(log) + 1, NEW j \in 1 .. Len(log) + 1, j < i
             PROVE  new[j].cause < new[i].cause
  BY AppendFacts DEF Strict
<1>2. j \in 1 .. Len(log) /\ new[j] = log[j]
  BY AppendFacts
<1>3. CASE i = Len(log) + 1
  BY <1>1, <1>2, <1>3, AppendFacts
<1>4. CASE i # Len(log) + 1
  <2>1. i \in 1 .. Len(log) /\ new[i] = log[i]
    BY <1>4, AppendFacts
  <2> QED
    BY <1>2, <2>1, AppendFacts DEF Strict
<1> QED
  BY <1>3, <1>4

LEMMA NextStrict == Inv /\ StrictCauses /\ [Next]_vars => StrictCauses'
<1> SUFFICES ASSUME Inv, StrictCauses, [Next]_vars, NEW s \in SessionId
             PROVE  Strict(domain_events'[s])
  BY DEF StrictCauses
<1>1. Strict(domain_events[s]) /\ domain_events[s] \in Seq(Event)
  BY DEF StrictCauses, Inv, TypeOK
<1>2. CASE sessions[s].status \notin Unpinned
  <2>1. Continues(sessions[s], sessions'[s], domain_events[s], domain_events'[s])
    BY <1>2, NextKeeps DEF KeepsStep, Keeps
  <2>2. sessions[s].version \in Nat /\ CausesOK(sessions[s].version, domain_events[s])
    BY <1>2, BoundAssumption DEF Inv, SessionOK, TypeOK, Row
  <2> QED
    BY <1>1, <2>1, <2>2, StrictAppend DEF Continues
<1>3. CASE sessions[s].status \in Unpinned
  <2>1. ASSUME NEW x \in SessionId, NEW e \in Event, domain_events[x] = <<>>,
               domain_events' = [domain_events EXCEPT ![x] = Append(<<>>, e)]
        PROVE  Strict(domain_events'[s])
    <3>1. CASE x = s
      <4>1. domain_events'[s] = Append(<<>>, e) /\ DOMAIN Append(<<>>, e) = {1}
        BY <2>1, <3>1 DEF Inv, TypeOK
      <4> QED
        BY <4>1 DEF Strict
    <3>2. CASE x # s
      BY <1>1, <2>1, <3>2 DEF Inv, TypeOK
    <3> QED
      BY <3>1, <3>2
  <2>2. CASE \E c \in commits : CommitWrite(c)
    BY <2>1, <2>2, CommitOpens
  <2>3. CASE \E x, child \in SessionId, p \in Principal :
                Fork(x, p, sessions[x].version, child)
    BY <2>1, <2>3, ForkOpens
  <2>4. CASE domain_events'[s] = domain_events[s]
    BY <1>1, <2>4
  <2> QED
    BY <1>3, <2>2, <2>3, <2>4, LogCases
<1> QED
  BY <1>2, <1>3

\* No two events of a session share the version that caused them, although
\* commands spend versions between them.
THEOREM CausesDistinct == Spec => []CausesOrdered
<1>1. Init => StrictCauses
  BY DEF Init, StrictCauses, Strict
<1>2. Inv /\ StrictCauses => CausesOrdered
  <2> SUFFICES ASSUME Inv, NEW s \in SessionId, Strict(domain_events[s])
               PROVE  /\ CausesOK(sessions[s].version, domain_events[s])
                      /\ Strict(domain_events[s])
    BY DEF CausesOrdered, CausesOK, Strict, StrictCauses
  <2>1. CASE sessions[s].status \in Unpinned
    BY <2>1 DEF Inv, SessionOK, CausesOK
  <2>2. CASE sessions[s].status \notin Unpinned
    BY <2>2 DEF Inv, SessionOK
  <2> QED
    BY <2>1, <2>2
<1> QED
  BY <1>1, <1>2, NextStrict, Invariance, PTL DEF Spec

\* Whoever wrote a log, lifecycle calls or accepted commands in between: it is
\* one hash chain, in the order of the versions that caused it.
THEOREM LogsSound == Spec => []LogSound
<1>1. TypeOK /\ HashChain /\ CausesOrdered => LogSound
  BY DEF LogSound
<1> QED
  BY <1>1, TypeCorrect, ChainUnbroken, CausesDistinct, PTL

-----------------------------------------------------------------------------
(***************************************************************************)
(* What a lifecycle step spends                                            *)
(***************************************************************************)

RunTypes == {"SESSION_STARTED", "SESSION_ADVANCED"}

\* One session in a lifecycle step: a version is spent exactly by writing an
\* event that names it, and only a start or an advance leaves it running.
Spends(row, row2, log, log2) ==
    \/ /\ row2.version = row.version
       /\ log2 = log
       /\ row2.status = "RUNNING" => row.status = "RUNNING"
    \/ \E e \in Event :
          /\ log2 = Append(log, e)
          /\ row2.version = row.version + 1
          /\ e.cause = row.version + 1
          /\ e.event_type # "TRADE"
          /\ row2.status = "RUNNING" => e.event_type \in RunTypes

SpendsStep ==
    \A s \in SessionId :
        Spends(sessions[s], sessions'[s], domain_events[s], domain_events'[s])

LEMMA SameSpends ==
    ASSUME UNCHANGED <<sessions, domain_events>>
    PROVE  SpendsStep
  BY DEF SpendsStep, Spends

LEMMA OneSpends ==
    ASSUME Inv, NEW s \in SessionId, NEW row, NEW log,
           sessions' = [sessions EXCEPT ![s] = row],
           domain_events' = [domain_events EXCEPT ![s] = log],
           Spends(sessions[s], row, domain_events[s], log)
    PROVE  SpendsStep
<1> SUFFICES ASSUME NEW x \in SessionId
             PROVE  Spends(sessions[x], sessions'[x], domain_events[x], domain_events'[x])
  BY DEF SpendsStep
<1>1. CASE x = s
  <2>1. sessions'[x] = row /\ domain_events'[x] = log
    BY <1>1 DEF Inv, TypeOK
  <2> QED
    BY <1>1, <2>1
<1>2. CASE x # s
  <2>1. sessions'[x] = sessions[x] /\ domain_events'[x] = domain_events[x]
    BY <1>2 DEF Inv, TypeOK
  <2> QED
    BY <2>1 DEF Spends
<1> QED
  BY <1>1, <1>2

LEMMA TransitionSpends ==
    ASSUME Inv, NEW s \in SessionId, NEW p \in Principal, NEW expected,
           NEW allowed, allowed \cap Unpinned = {},
           NEW target, NEW type \in EventType, type # "TRADE",
           target = "RUNNING" => type \in RunTypes,
           NEW ts \in Int, NEW payload \in Payload,
           Locked(s, p, expected, allowed),
           AppendEvent(s, type, ts, payload, expected + 1),
           AdvanceVersion(s, target)
    PROVE  SpendsStep
<1> DEFINE old == sessions[s]
           log == domain_events[s]
           row == [old EXCEPT !.status = target, !.version = @ + 1]
           e   == NewEvent(s, type, ts, payload, expected + 1)
<1>1. /\ old \in Row /\ log \in Seq(Event) /\ old.version = expected /\ expected \in Nat
  BY LockedFacts
<1>2. e \in Event
  BY <1>1, NewEventTyped DEF Inv
<1>3. e.event_type = type /\ e.cause = expected + 1
  BY DEF NewEvent
<1>4. row.version = old.version + 1 /\ row.status = target
  BY <1>1 DEF Row
<1>5. Spends(old, row, log, Append(log, e))
  BY <1>1, <1>2, <1>3, <1>4 DEF Spends
<1>6. /\ sessions' = [sessions EXCEPT ![s] = row]
      /\ domain_events' = [domain_events EXCEPT ![s] = Append(log, e)]
  BY DEF AppendEvent, AdvanceVersion
<1> HIDE DEF row, e, log, old
<1> QED
  BY <1>5, <1>6, OneSpends DEF old, log

LEMMA ForkSpends ==
    ASSUME Inv, NEW s \in SessionId, NEW child \in SessionId, NEW p \in Principal,
           Fork(s, p, sessions[s].version, child)
    PROVE  SpendsStep
<1> DEFINE row == [principal |-> p, status |-> ForkStatus(s), version |-> 1,
                   ruleset_id |-> SetupOf(domain_events[s]).ruleset_id]
<1>1. PICK e \in Event :
         /\ e.cause = 1 /\ e.event_type # "TRADE" /\ sessions[child].status = "NONE"
         /\ domain_events[child] = <<>>
         /\ domain_events' = [domain_events EXCEPT ![child] = Append(<<>>, e)]
  BY ForkOpens
<1>2. sessions' = [sessions EXCEPT ![child] = row]
  BY DEF Fork
<1>3. row.version = 1 /\ row.status # "RUNNING"
  BY DEF ForkStatus
<1>4. sessions[child].version = 0
  BY <1>1 DEF Inv, SessionOK, Unpinned
<1> HIDE DEF row
<1>5. Spends(sessions[child], row, domain_events[child], Append(<<>>, e))
  BY <1>1, <1>3, <1>4 DEF Spends
<1> QED
  BY <1>1, <1>2, <1>5, OneSpends

LEMMA CommitSpends ==
    ASSUME Inv, NEW c \in commits, CommitWrite(c)
    PROVE  SpendsStep
<1> DEFINE s   == c.session
           row == [sessions[s] EXCEPT !.status = "COMMITTED",
                                      !.version = c.expected + 1,
                                      !.ruleset_id = c.setup.ruleset_id]
<1>1. PICK e \in Event :
         /\ e.cause = 1 /\ e.event_type # "TRADE" /\ s \in SessionId /\ sessions[s].status = "SETUP"
         /\ domain_events[s] = <<>>
         /\ domain_events' = [domain_events EXCEPT ![s] = Append(<<>>, e)]
  BY CommitOpens
<1>2. sessions' = [sessions EXCEPT ![s] = row] /\ c.expected = sessions[s].version
  BY DEF CommitWrite, Committable
<1>3. sessions[s].version = 0 /\ sessions[s] \in Row
  BY <1>1 DEF Inv, SessionOK, Unpinned, TypeOK
<1>4. row.version = 1 /\ row.status # "RUNNING"
  BY <1>2, <1>3 DEF Row
<1> HIDE DEF row, s
<1>5. Spends(sessions[s], row, domain_events[s], Append(<<>>, e))
  BY <1>1, <1>3, <1>4 DEF Spends
<1> QED
  BY <1>1, <1>2, <1>5, OneSpends

LEMMA OwnerSpends ==
    ASSUME Inv, NEW s \in SessionId, NEW p \in Principal, OwnerStep(s, p)
    PROVE  SpendsStep
<1> DEFINE expected == sessions[s].version
           front    == FrontierOf(domain_events[s])
<1>1. ASSUME NEW allowed, allowed \cap Unpinned = {},
             NEW target, NEW type \in EventType, type # "TRADE", target = "RUNNING" => type \in RunTypes,
             Locked(s, p, expected, allowed),
             AppendEvent(s, type, front, EmptyPayload, expected + 1),
             AdvanceVersion(s, target)
      PROVE  SpendsStep
  <2>1. front \in Int
    BY <1>1, LockedFacts DEF WindowOK
  <2> QED
    BY <1>1, <2>1, PayloadsTyped, TransitionSpends
<1>2. CASE Start(s, p, expected)
  <2>1. /\ {"COMMITTED", "PAUSED"} \cap Unpinned = {}
        /\ "SESSION_STARTED" \in EventType /\ "SESSION_STARTED" \in RunTypes
    BY DEF EventType, Unpinned, RunTypes
  <2> QED
    BY <1>1, <1>2, <2>1 DEF Start, StatusTransition
<1>3. CASE Pause(s, p, expected)
  <2>1. {"RUNNING"} \cap Unpinned = {} /\ "SESSION_PAUSED" \in EventType
    BY DEF EventType, Unpinned
  <2> QED
    BY <1>1, <1>3, <2>1 DEF Pause, StatusTransition
<1>4. CASE Complete(s, p, expected)
  <2>1. {"RUNNING", "PAUSED"} \cap Unpinned = {} /\ "SESSION_COMPLETED" \in EventType
    BY DEF EventType, Unpinned
  <2> QED
    BY <1>1, <1>4, <2>1 DEF Complete
<1>5. ASSUME NEW t \in Instants, Advance(s, p, expected, t)
      PROVE  SpendsStep
  <2> DEFINE payload == [EmptyPayload EXCEPT !.time = t]
  <2>1. t \in Int /\ payload \in Payload
    BY InstantsInt, PayloadsTyped
  <2>2. /\ {"RUNNING"} \cap Unpinned = {}
        /\ "SESSION_ADVANCED" \in EventType /\ "SESSION_ADVANCED" \in RunTypes
    BY DEF EventType, Unpinned, RunTypes
  <2>3. /\ Locked(s, p, expected, {"RUNNING"})
        /\ AppendEvent(s, "SESSION_ADVANCED", t, payload, expected + 1)
        /\ AdvanceVersion(s, "RUNNING")
    BY <1>5 DEF Advance
  <2> QED
    BY <2>1, <2>2, <2>3, TransitionSpends
<1> QED
  BY <1>2, <1>3, <1>4, <1>5, ForkSpends DEF OwnerStep

LEMMA LifecycleSpends == Inv /\ LifecycleStep => SpendsStep
<1> SUFFICES ASSUME Inv, LifecycleStep PROVE SpendsStep
  OBVIOUS
<1>1. CASE CatalogStep
  BY <1>1, SameSpends DEF CatalogStep, Register, Revoke
<1>2. CASE CommitStep
  BY <1>2, SameSpends, CommitSpends DEF CommitStep, CommitCheck, CommitHash, RulesetLookup, CommitReject
<1>3. ASSUME NEW s \in SessionId, NEW p \in Principal, CreateSession(s, p)
      PROVE  SpendsStep
  <2> DEFINE row == [principal |-> p, status |-> "SETUP", version |-> 0,
                     ruleset_id |-> NoRuleset]
  <2>1. /\ sessions' = [sessions EXCEPT ![s] = row]
        /\ domain_events' = [domain_events EXCEPT ![s] = domain_events[s]]
        /\ sessions[s].version = 0
    BY <1>3 DEF CreateSession, Exists, Unpinned, Inv, TypeOK, SessionOK
  <2>2. row.version = 0 /\ row.status # "RUNNING"
    OBVIOUS
  <2> HIDE DEF row
  <2>3. Spends(sessions[s], row, domain_events[s], domain_events[s])
    BY <2>1, <2>2 DEF Spends
  <2> QED
    BY <2>1, <2>3, OneSpends
<1>4. ASSUME NEW s \in SessionId, NEW p \in Principal, OwnerStep(s, p)
      PROVE  SpendsStep
  BY <1>4, OwnerSpends
<1> QED
  BY <1>1, <1>2, <1>3, <1>4 DEF LifecycleStep

-----------------------------------------------------------------------------
(***************************************************************************)
(* The eligible set a session pins                                         *)
(***************************************************************************)

\* A commit() in flight passed its first look at the catalogue, which only
\* grows, and once it has hashed the eligible set, that set has the manifest
\* unless it was revoked.
CallCovered(c, catalog, gone) ==
    /\ c.setup.manifest \in Covering[c.setup]
    /\ c.setup.manifest \in catalog
    /\ c.hashed => c.setup.manifest \in c.eligibility \cup gone

CatalogInvariant ==
    /\ \A c \in commits : CallCovered(c, registered, revoked)
    /\ EligibilityCoversPin

\* A step that appends no uncovered pin.
LEMMA CoveredStep ==
    ASSUME Inv, Inv', EligibilityCoversPin,
           revoked \subseteq revoked',
           \A s \in SessionId : \A i \in PinIdx(domain_events'[s]) :
               \/ /\ i \in PinIdx(domain_events[s])
                  /\ domain_events'[s][i] = domain_events[s][i]
               \/ LET payload == domain_events'[s][i].payload
                  IN  payload.setup.manifest \in payload.eligibility \cup revoked'
    PROVE  EligibilityCoversPin'
  BY DEF EligibilityCoversPin

\* A pinned session that goes on keeps its pin and writes no other.
LEMMA ContinuesPin ==
    ASSUME NEW log \in Seq(Event), NEW row, NEW row2, NEW log2,
           Continues(row, row2, log, log2)
    PROVE  \A i \in PinIdx(log2) : i \in PinIdx(log) /\ log2[i] = log[i]
<1>1. CASE log2 = log
  BY <1>1
<1>2. ASSUME NEW e \in Event, log2 = Append(log, e), e.event_type \notin PinTypes
      PROVE  \A i \in PinIdx(log2) : i \in PinIdx(log) /\ log2[i] = log[i]
  BY <1>2, AppendFacts DEF PinIdx
<1> QED
  BY <1>1, <1>2 DEF Continues

LEMMA InitCatalog == Init => CatalogInvariant
  BY DEF Init, CatalogInvariant, EligibilityCoversPin, PinIdx

LEMMA NextCatalog == Inv /\ Inv' /\ CatalogInvariant /\ [Next]_vars => CatalogInvariant'
<1> SUFFICES ASSUME Inv, Inv', CatalogInvariant, [Next]_vars
             PROVE  CatalogInvariant'
  OBVIOUS
<1> USE DEF CatalogInvariant
<1>1. CASE CatalogStep
  <2>1. /\ UNCHANGED <<sessions, domain_events, rulesets, commits>>
        /\ registered \subseteq registered' /\ revoked \subseteq revoked'
    BY <1>1 DEF CatalogStep, Register, Revoke
  <2>2. EligibilityCoversPin'
    BY <2>1, CoveredStep
  <2> QED
    BY <2>1, <2>2 DEF CallCovered
<1>2. CASE UNCHANGED vars
  BY <1>2 DEF vars, CallCovered, EligibilityCoversPin
<1>3. ASSUME NEW s \in SessionId, NEW p \in Principal, NEW u \in Setup,
             NEW expected, CommitCheck(s, p, expected, u)
      PROVE  CatalogInvariant'
  <2> DEFINE call == [session |-> s, principal |-> p, expected |-> expected,
                      setup |-> u, hashed |-> FALSE, eligibility |-> {},
                      ruleset |-> "UNREAD"]
  <2>1. CallCovered(call, registered, revoked)
    BY <1>3 DEF CommitCheck, Eligible, CallCovered
  <2>2. commits' = commits \cup {call} /\ UNCHANGED <<domain_events, registered, revoked>>
    BY <1>3 DEF CommitCheck
  <2>3. EligibilityCoversPin'
    BY <2>2, CoveredStep
  <2> QED
    BY <2>1, <2>2, <2>3
<1>4. ASSUME NEW c \in commits, CommitHash(c)
      PROVE  CatalogInvariant'
  <2> DEFINE call == [c EXCEPT !.hashed = TRUE, !.eligibility = Eligible(c.setup)]
  <2>1. /\ commits' = (commits \ {c}) \cup {call}
        /\ UNCHANGED <<domain_events, registered, revoked>>
    BY <1>4 DEF CommitHash
  <2>2. c \in CommitCall
    BY DEF Inv, TypeOK
  <2>3. call.setup = c.setup /\ call.eligibility = Eligible(c.setup)
    BY <2>2 DEF CommitCall
  <2>4. CallCovered(call, registered, revoked)
    BY <2>3 DEF Eligible, CallCovered
  <2>5. EligibilityCoversPin'
    BY <2>1, CoveredStep
  <2> QED
    BY <2>1, <2>4, <2>5
<1>20. ASSUME NEW c \in commits, RulesetLookup(c)
      PROVE  CatalogInvariant'
  <2>1. PICK found : /\ commits' = (commits \ {c}) \cup {[c EXCEPT !.ruleset = found]}
                     /\ UNCHANGED <<domain_events, registered, revoked>>
    BY <1>20 DEF RulesetLookup
  <2> DEFINE call == [c EXCEPT !.ruleset = found]
  <2>2. c \in CommitCall
    BY DEF Inv, TypeOK
  <2>3. call.setup = c.setup /\ call.eligibility = c.eligibility /\ call.hashed = c.hashed
    BY <2>2 DEF CommitCall
  <2>4. CallCovered(call, registered, revoked)
    BY <2>3 DEF CallCovered
  <2>5. EligibilityCoversPin'
    BY <2>1, CoveredStep
  <2> QED
    BY <2>1, <2>4, <2>5
<1>5. ASSUME NEW c \in commits, CommitReject(c)
      PROVE  CatalogInvariant'
  <2>1. commits' \subseteq commits /\ UNCHANGED <<domain_events, registered, revoked>>
    BY <1>5 DEF CommitReject
  <2>2. EligibilityCoversPin'
    BY <2>1, CoveredStep
  <2> QED
    BY <2>1, <2>2
<1>6. ASSUME NEW c \in commits, CommitWrite(c)
      PROVE  CatalogInvariant'
  <2> DEFINE s == c.session
             e == NewEvent(s, "SESSION_COMMITTED", c.setup.play_start,
                           CommitPayload(c.setup, c.eligibility), c.expected + 1)
  <2>1. /\ commits' \subseteq commits /\ UNCHANGED <<registered, revoked>>
        /\ domain_events' = [domain_events EXCEPT ![s] = Append(domain_events[s], e)]
        /\ sessions[s].status = "SETUP" /\ c.hashed
    BY <1>6 DEF CommitWrite, catalogVars, AppendEvent, Committable, Inv, CommitsOK
  <2>2. s \in SessionId /\ domain_events \in [SessionId -> Seq(Event)]
    BY DEF Inv, TypeOK, CommitCall
  <2>3. domain_events[s] = <<>>
    BY <2>1, <2>2 DEF Inv, SessionOK, Unpinned
  <2>4. e.payload = CommitPayload(c.setup, c.eligibility)
    BY DEF NewEvent
  <2>5. c.setup.manifest \in c.eligibility \cup revoked
    BY <2>1 DEF CallCovered
  <2>6. ASSUME NEW x \in SessionId, NEW i \in PinIdx(domain_events'[x])
        PROVE  \/ i \in PinIdx(domain_events[x]) /\ domain_events'[x][i] = domain_events[x][i]
               \/ LET payload == domain_events'[x][i].payload
                  IN  payload.setup.manifest \in payload.eligibility \cup revoked'
    <3>1. CASE x # s
      BY <2>1, <2>2, <2>6, <3>1
    <3>2. CASE x = s
      <4>1. domain_events'[x] = Append(<<>>, e)
        BY <2>1, <2>2, <2>3, <3>2
      <4>2. i = 1 /\ domain_events'[x][i] = e
        BY <2>6, <4>1 DEF PinIdx
      <4>3. /\ e.payload.setup = c.setup /\ e.payload.eligibility = c.eligibility
        BY <2>4 DEF CommitPayload
      <4> HIDE DEF e
      <4>4. revoked' = revoked
        BY <2>1
      <4> QED
        BY <2>5, <4>2, <4>3, <4>4
    <3> QED
      BY <3>1, <3>2
  <2>7. EligibilityCoversPin'
    BY <2>1, <2>6, CoveredStep
  <2> QED
    BY <2>1, <2>7
<1>7. CASE CommitStep
  BY <1>3, <1>4, <1>5, <1>6, <1>7, <1>20 DEF CommitStep
<1>8. ASSUME NEW s \in SessionId, NEW p \in Principal, NEW child \in SessionId,
             Fork(s, p, sessions[s].version, child)
      PROVE  CatalogInvariant'
  <2> DEFINE log == domain_events[s]
             e   == NewEvent(child, "SESSION_FORKED", FrontierOf(log),
                             ForkPayload(s, sessions[s].version), 1)
  <2>1. /\ UNCHANGED <<registered, revoked, commits>>
        /\ domain_events' = [domain_events EXCEPT ![child] = Append(domain_events[child], e)]
        /\ sessions[child].status = "NONE"
        /\ Locked(s, p, sessions[s].version, {"COMMITTED", "RUNNING", "PAUSED"})
    BY <1>8 DEF Fork, AppendEvent, Exists
  <2>2. domain_events[child] = <<>> /\ domain_events \in [SessionId -> Seq(Event)]
    BY <2>1 DEF Inv, SessionOK, Unpinned, TypeOK
  <2>3. PinIdx(log) = {1}
    <3>1. {"COMMITTED", "RUNNING", "PAUSED"} \cap Unpinned = {}
      BY DEF Unpinned
    <3>2. PinOK(sessions[s], log)
      <4> HIDE DEF e
      <4> QED
        BY <2>1, <3>1, LockedFacts
    <3> QED
      BY <3>2 DEF PinOK
  <2>4. /\ e.payload.setup = log[1].payload.setup
        /\ e.payload.eligibility = log[1].payload.eligibility
    BY <2>3, PinnedSetup DEF NewEvent, ForkPayload
  <2>5. log[1].payload.setup.manifest \in log[1].payload.eligibility \cup revoked
    BY <2>3 DEF EligibilityCoversPin
  <2>6. ASSUME NEW x \in SessionId, NEW i \in PinIdx(domain_events'[x])
        PROVE  \/ i \in PinIdx(domain_events[x]) /\ domain_events'[x][i] = domain_events[x][i]
               \/ LET payload == domain_events'[x][i].payload
                  IN  payload.setup.manifest \in payload.eligibility \cup revoked'
    <3>1. CASE x # child
      BY <2>1, <2>2, <2>6, <3>1
    <3>2. CASE x = child
      <4>1. domain_events'[x] = Append(<<>>, e)
        BY <2>1, <2>2, <3>2
      <4>2. i = 1 /\ domain_events'[x][i] = e
        BY <2>6, <4>1 DEF PinIdx
      <4> QED
        BY <2>1, <2>4, <2>5, <4>2
    <3> QED
      BY <3>1, <3>2
  <2>7. EligibilityCoversPin'
    BY <2>1, <2>6, CoveredStep
  <2> QED
    BY <2>1, <2>7
<1>9. ASSUME UNCHANGED <<registered, revoked, commits>>,
             \A s \in SessionId : sessions[s].status \in Unpinned =>
                                     domain_events'[s] = domain_events[s]
      PROVE  CatalogInvariant'
  <2>1. KeepsStep
    BY NextKeeps
  <2>2. ASSUME NEW x \in SessionId, NEW i \in PinIdx(domain_events'[x])
        PROVE  i \in PinIdx(domain_events[x]) /\ domain_events'[x][i] = domain_events[x][i]
    <3>1. CASE sessions[x].status \in Unpinned
      BY <1>9, <2>2, <3>1
    <3>2. CASE sessions[x].status \notin Unpinned
      BY <2>1, <2>2, <3>2, ReadTyped, ContinuesPin DEF KeepsStep, Keeps
    <3> QED
      BY <3>1, <3>2
  <2>3. EligibilityCoversPin'
    BY <1>9, <2>2, CoveredStep
  <2> QED
    BY <1>9, <2>3
<1>10. ASSUME NEW s \in SessionId, NEW p \in Principal, CreateSession(s, p)
       PROVE  CatalogInvariant'
  BY <1>9, <1>10 DEF CreateSession
<1>11. ASSUME NEW s \in SessionId, NEW p \in Principal,
              AcceptCommand(s, p, sessions[s].version)
       PROVE  CatalogInvariant'
  BY <1>9, <1>11 DEF AcceptCommand
<1>12. ASSUME NEW s \in SessionId, NEW p \in Principal, OwnerStep(s, p)
       PROVE  CatalogInvariant'
  <2>1. ASSUME sessions[s].status \notin Unpinned, NEW e,
               domain_events' = [domain_events EXCEPT ![s] = e],
               UNCHANGED <<registered, revoked, commits>>
        PROVE  CatalogInvariant'
    <3>1. \A x \in SessionId : x # s => domain_events'[x] = domain_events[x]
      BY <2>1 DEF Inv, TypeOK
    <3> QED
      BY <1>9, <2>1, <3>1
  <2> QED
    BY <1>8, <1>12, <2>1 DEF OwnerStep, Start, Pause, StatusTransition, Advance,
       Complete, Locked, AppendEvent, Unpinned
<1> QED
  BY <1>1, <1>2, <1>7, <1>10, <1>11, <1>12 DEF Next, LifecycleStep

\* commit() reads the catalogue twice and pins both answers: the set it hashes
\* still has the manifest it pins unless that was revoked, in forks as well.
THEOREM PinsCovered == Spec => []EligibilityCoversPin
<1>1. CatalogInvariant => EligibilityCoversPin
  BY DEF CatalogInvariant
<1> QED
  BY <1>1, InitCatalog, NextCatalog, Invariance, PTL DEF Spec

-----------------------------------------------------------------------------
(***************************************************************************)
(* Natural numbers: a non-empty set of them has a least element, and a     *)
(* bounded one a greatest.                                                 *)
(***************************************************************************)

LEMMA LeastNat ==
    ASSUME NEW T \in SUBSET Nat, T # {}
    PROVE  \E x \in T : \A y \in T : x <= y
<1>1. PICK x \in T : \A y \in T : ~ (<<y, x>> \in OpToRel(<, Nat))
  BY NatLessThanWellFounded, WFMin
<1>2. OpToRel(<, Nat) = {ss \in Nat \X Nat : ss[1] < ss[2]}
  BY Zenon DEF OpToRel
<1>3. ASSUME NEW y \in T PROVE ~(y < x)
  <2>1. <<y, x>> \notin {ss \in Nat \X Nat : ss[1] < ss[2]}
    BY <1>1, <1>2
  <2>2. <<y, x>> \in Nat \X Nat /\ <<y, x>>[1] = y /\ <<y, x>>[2] = x
    OBVIOUS
  <2> QED
    BY <2>1, <2>2, SMT
<1> QED
  BY <1>3

LEMMA MaxBounded ==
    ASSUME NEW n \in Nat, NEW T \in SUBSET (1..n), T # {}
    PROVE  /\ Max(T) \in T
           /\ Max(T) \in 1..n
           /\ \A j \in T : Max(T) >= j
<1> DEFINE D == {n - k : k \in T}
<1>1. D \in SUBSET Nat /\ D # {}
  <2>1. \A k \in T : k \in 1..n /\ n - k \in Nat
    OBVIOUS
  <2> QED
    BY <2>1
<1>2. PICK d \in D : \A y \in D : d <= y
  BY <1>1, LeastNat
<1>3. PICK m \in T : d = n - m
  BY <1>2
<1>4. ASSUME NEW j \in T PROVE m >= j
  <2>1. n - j \in D /\ j \in 1..n /\ m \in 1..n
    OBVIOUS
  <2>2. n - m <= n - j
    BY <1>2, <1>3, <2>1
  <2> QED
    BY <2>1, <2>2
<1>5. Max(T) = m
  BY <1>3, <1>4, MaxIs
<1> QED
  BY <1>3, <1>4, <1>5

\* The largest element of a non-empty bounded set of integers.
LEMMA MaxRange ==
    ASSUME NEW a \in Int, NEW b \in Int, NEW T \in SUBSET (a .. b), T # {}
    PROVE  Max(T) \in T /\ \A j \in T : Max(T) >= j
<1> DEFINE D == {b - k : k \in T}
<1>1. D \in SUBSET Nat /\ D # {}
  <2>1. \A k \in T : k \in a .. b /\ b - k \in Nat
    OBVIOUS
  <2> QED
    BY <2>1
<1>2. PICK d \in D : \A y \in D : d <= y
  BY <1>1, LeastNat
<1>3. PICK m \in T : d = b - m
  BY <1>2
<1>4. ASSUME NEW j \in T PROVE m >= j
  <2>1. b - j \in D /\ j \in a .. b /\ m \in a .. b
    OBVIOUS
  <2>2. b - m <= b - j
    BY <1>2, <1>3, <2>1
  <2> QED
    BY <2>1, <2>2
<1>5. Max(T) = m
  BY <1>3, <1>4, MaxIs
<1> QED
  BY <1>3, <1>4, <1>5

\* Induction, with the property given by the set of numbers that have it.
LEMMA SetInduction ==
    ASSUME NEW S \in SUBSET Nat, 0 \in S, \A n \in S : n + 1 \in S
    PROVE  S = Nat
<1> SUFFICES ASSUME Nat \ S # {} PROVE FALSE
  OBVIOUS
<1>1. PICK x \in Nat \ S : \A y \in Nat \ S : x <= y
  BY LeastNat
<1>2. x - 1 \in Nat /\ x - 1 \in S
  BY <1>1
<1> QED
  BY <1>1, <1>2

-----------------------------------------------------------------------------
(***************************************************************************)
(* What SelectIn selects. Selects says that f is the function SelectIn     *)
(* defines; its value at Len(s) is the selection.                          *)
(***************************************************************************)

Selects(f, s, T) ==
    f = [i \in 0 .. Len(s) |-> IF i = 0 THEN << >>
                               ELSE IF s[i] \in T THEN Append(f[i - 1], s[i]) ELSE f[i - 1]]

SelectsTo(f, s, T, m) ==
    f = [i \in 0 .. m |-> IF i = 0 THEN << >>
                          ELSE IF s[i] \in T THEN Append(f[i - 1], s[i]) ELSE f[i - 1]]

LEMMA SelectsExtend ==
    ASSUME NEW s, NEW T, NEW m \in Nat, NEW g, SelectsTo(g, s, T, m)
    PROVE  \E f : SelectsTo(f, s, T, m + 1)
<1> DEFINE last == IF s[m + 1] \in T THEN Append(g[m], s[m + 1]) ELSE g[m]
           f == [i \in 0 .. m + 1 |-> IF i = m + 1 THEN last ELSE g[i]]
<1>1. \A i \in 0 .. m : f[i] = g[i]
  OBVIOUS
<1>2. \A i \in 0 .. m : g[i] = IF i = 0 THEN << >>
            ELSE IF s[i] \in T THEN Append(g[i - 1], s[i]) ELSE g[i - 1]
  BY DEF SelectsTo
<1>3. f[m + 1] = last /\ m + 1 # 0 /\ m \in 0 .. m /\ (m + 1) - 1 = m
  OBVIOUS
<1> HIDE DEF f
<1>4. ASSUME NEW i \in 0 .. m + 1
      PROVE  f[i] = IF i = 0 THEN << >>
                    ELSE IF s[i] \in T THEN Append(f[i - 1], s[i]) ELSE f[i - 1]
  <2>1. CASE i = m + 1
    BY <1>1, <1>3, <2>1
  <2>2. CASE i = 0
    <3>1. i \in 0 .. m
      BY <2>2
    <3> QED
      BY <1>1, <1>2, <2>2, <3>1
  <2>3. CASE i # 0 /\ i # m + 1
    <3>1. i \in 0 .. m /\ i - 1 \in 0 .. m
      BY <2>3
    <3>2. f[i] = g[i] /\ f[i - 1] = g[i - 1]
      BY <1>1, <3>1
    <3> QED
      BY <1>2, <2>3, <3>1, <3>2
  <2> QED
    BY <2>1, <2>2, <2>3
<1>5. SelectsTo(f, s, T, m + 1)
  <2>1. f = [i \in 0 .. m + 1 |-> f[i]]
    BY DEF f
  <2>2. [i \in 0 .. m + 1 |-> f[i]] = [i \in 0 .. m + 1 |-> IF i = 0 THEN << >>
            ELSE IF s[i] \in T THEN Append(f[i - 1], s[i]) ELSE f[i - 1]]
    BY <1>4
  <2> QED
    BY <2>1, <2>2, Zenon DEF SelectsTo
<1> QED
  BY <1>5

LEMMA SelectsExists ==
    ASSUME NEW s, NEW T, Len(s) \in Nat
    PROVE  \E f : Selects(f, s, T)
<1> DEFINE S == {m \in Nat : \E f : SelectsTo(f, s, T, m)}
<1>1. 0 \in S
  <2> DEFINE f == [i \in 0 .. 0 |-> << >>]
  <2>1. SelectsTo(f, s, T, 0)
    BY DEF SelectsTo
  <2> QED
    BY <2>1
<1>2. \A m \in S : m + 1 \in S
  BY SelectsExtend
<1>3. S \in SUBSET Nat
  OBVIOUS
<1> HIDE DEF S
<1>4. S = Nat
  BY <1>1, <1>2, <1>3, SetInduction
<1>5. Len(s) \in S
  BY <1>4
<1> QED
  BY <1>5 DEF S, Selects, SelectsTo

\* The result has the elements of s that pass, and no other.
LEMMA SelectsRange ==
    ASSUME NEW A, NEW s \in Seq(A), NEW T, NEW f, Selects(f, s, T)
    PROVE  LET r == f[Len(s)]
           IN  /\ r \in Seq(A)
               /\ \A j \in 1 .. Len(r) : \E k \in 1 .. Len(s) : r[j] = s[k] /\ s[k] \in T
               /\ \A k \in 1 .. Len(s) : s[k] \in T => \E j \in 1 .. Len(r) : r[j] = s[k]
<1> DEFINE Good(i) == /\ f[i] \in Seq(A)
                      /\ \A j \in 1 .. Len(f[i]) : \E k \in 1 .. i : f[i][j] = s[k] /\ s[k] \in T
                      /\ \A k \in 1 .. i : s[k] \in T => \E j \in 1 .. Len(f[i]) : f[i][j] = s[k]
           S == {i \in Nat : i <= Len(s) => Good(i)}
<1>1. Len(s) \in Nat /\ \A i \in 1 .. Len(s) : s[i] \in A
  OBVIOUS
<1>2. f[0] = << >>
  <2>1. 0 \in 0 .. Len(s)
    BY <1>1
  <2> QED
    BY <2>1 DEF Selects
<1>3. \A i \in 0 .. Len(s) : i # 0 => f[i] = IF s[i] \in T THEN Append(f[i - 1], s[i]) ELSE f[i - 1]
  BY DEF Selects
<1>4. 0 \in S
  <2>1. << >> \in Seq(A) /\ Len(<< >>) = 0 /\ 1 .. 0 = {}
    OBVIOUS
  <2>2. Good(0)
    BY <1>2, <2>1
  <2> QED
    BY <2>2
<1>5. ASSUME NEW i \in S PROVE i + 1 \in S
  <2>0. i \in Nat /\ i + 1 \in Nat
    OBVIOUS
  <2> SUFFICES ASSUME i + 1 <= Len(s) PROVE Good(i + 1)
    <3> HIDE DEF Good
    <3> QED
      BY <2>0
  <2>1. i \in Nat /\ i + 1 \in 0 .. Len(s) /\ i + 1 \in 1 .. Len(s) /\ (i + 1) - 1 = i /\ i <= Len(s)
    BY <1>1
  <2>2. Good(i)
    BY <2>1
  <2>3. f[i + 1] = IF s[i + 1] \in T THEN Append(f[i], s[i + 1]) ELSE f[i]
    BY <1>3, <2>1
  <2>4. s[i + 1] \in A /\ f[i] \in Seq(A) /\ Len(f[i]) \in Nat
    BY <1>1, <2>1, <2>2
  <2>5. CASE s[i + 1] \notin T
    <3>1. f[i + 1] = f[i]
      BY <2>3, <2>5
    <3>2. \A k \in 1 .. i + 1 : k \in 1 .. i \/ k = i + 1
      BY <2>1
    <3>3. \A k \in 1 .. i : k \in 1 .. i + 1
      BY <2>1
    <3> HIDE DEF S
    <3> QED
      BY <2>2, <2>5, <3>1, <3>2, <3>3
  <2>6. CASE s[i + 1] \in T
    <3> DEFINE g == Append(f[i], s[i + 1])
    <3>1. f[i + 1] = g
      BY <2>3, <2>6
    <3>2. /\ g \in Seq(A) /\ Len(g) = Len(f[i]) + 1 /\ g[Len(f[i]) + 1] = s[i + 1]
          /\ \A j \in 1 .. Len(f[i]) : g[j] = f[i][j]
      BY <2>4
    <3> HIDE DEF g
    <3>3. ASSUME NEW j \in 1 .. Len(g)
          PROVE  \E k \in 1 .. i + 1 : g[j] = s[k] /\ s[k] \in T
      <4>1. CASE j = Len(f[i]) + 1
        <5>1. i + 1 \in 1 .. i + 1
          BY <2>1
        <5> QED
          BY <2>6, <3>2, <4>1, <5>1
      <4>2. CASE j # Len(f[i]) + 1
        <5>1. j \in 1 .. Len(f[i])
          BY <2>4, <3>2, <4>2
        <5>2. PICK k \in 1 .. i : f[i][j] = s[k] /\ s[k] \in T
          BY <2>2, <5>1
        <5>3. k \in 1 .. i + 1
          BY <2>1
        <5> QED
          BY <3>2, <5>1, <5>2, <5>3
      <4> QED
        BY <4>1, <4>2
    <3>4. ASSUME NEW k \in 1 .. i + 1, s[k] \in T
          PROVE  \E j \in 1 .. Len(g) : g[j] = s[k]
      <4>1. CASE k = i + 1
        <5>1. Len(f[i]) + 1 \in 1 .. Len(g)
          BY <2>4, <3>2
        <5> QED
          BY <3>2, <4>1, <5>1
      <4>2. CASE k # i + 1
        <5>1. k \in 1 .. i
          BY <2>1, <4>2
        <5>2. PICK j \in 1 .. Len(f[i]) : f[i][j] = s[k]
          BY <2>2, <3>4, <5>1
        <5>3. j \in 1 .. Len(g)
          BY <2>4, <3>2
        <5> QED
          BY <3>2, <5>2, <5>3
      <4> QED
        BY <4>1, <4>2
    <3> HIDE DEF S
    <3> QED
      BY <3>1, <3>2, <3>3, <3>4
  <2> QED
    BY <2>5, <2>6
<1>6. S \in SUBSET Nat
  OBVIOUS
<1>7. S = Nat
  <2> HIDE DEF S
  <2> QED
    BY <1>4, <1>5, <1>6, SetInduction
<1>8. Good(Len(s))
  <2>1. Len(s) \in S
    BY <1>1, <1>7
  <2> HIDE DEF Good
  <2> QED
    BY <2>1
<1> QED
  BY <1>8

\* When exactly the first n elements pass, they are the result.
LEMMA SelectsPrefix ==
    ASSUME NEW A, NEW s \in Seq(A), NEW T, NEW f, Selects(f, s, T),
           NEW r \in Seq(A), Len(r) <= Len(s), \A k \in 1 .. Len(r) : r[k] = s[k],
           \A k \in 1 .. Len(s) : s[k] \in T <=> k <= Len(r)
    PROVE  f[Len(s)] = r
<1> DEFINE n == Len(r)
           Good(i) == IF i <= n THEN /\ f[i] \in Seq(A) /\ Len(f[i]) = i
                                     /\ \A k \in 1 .. i : f[i][k] = r[k]
                                ELSE f[i] = r
           S == {i \in Nat : i <= Len(s) => Good(i)}
<1>1. /\ Len(s) \in Nat /\ n \in Nat /\ \A i \in 1 .. Len(s) : s[i] \in A
  OBVIOUS
<1>2. f[0] = << >>
  <2>1. 0 \in 0 .. Len(s)
    BY <1>1
  <2> QED
    BY <2>1 DEF Selects
<1>3. \A i \in 0 .. Len(s) : i # 0 => f[i] = IF s[i] \in T THEN Append(f[i - 1], s[i]) ELSE f[i - 1]
  BY DEF Selects
<1>4. 0 \in S
  <2>1. << >> \in Seq(A) /\ Len(<< >>) = 0 /\ 1 .. 0 = {} /\ 0 <= n
    BY <1>1
  <2>2. Good(0)
    BY <1>2, <2>1
  <2> QED
    BY <2>2
<1>9. ASSUME f[n] \in Seq(A), Len(f[n]) = n, \A k \in 1 .. n : f[n][k] = r[k]
      PROVE  f[n] = r
  <2>1. f[n] = [k \in 1 .. n |-> f[n][k]] /\ r = [k \in 1 .. n |-> r[k]]
    BY <1>9, SMTT(30)
  <2>2. [k \in 1 .. n |-> f[n][k]] = [k \in 1 .. n |-> r[k]]
    BY <1>9
  <2> QED
    BY <2>1, <2>2
<1>5. ASSUME NEW i \in S PROVE i + 1 \in S
  <2>0. i \in Nat /\ i + 1 \in Nat
    OBVIOUS
  <2> SUFFICES ASSUME i + 1 <= Len(s) PROVE Good(i + 1)
    <3> HIDE DEF Good
    <3> QED
      BY <2>0
  <2>1. i \in Nat /\ i + 1 \in 0 .. Len(s) /\ i + 1 \in 1 .. Len(s) /\ (i + 1) - 1 = i /\ i <= Len(s)
    BY <1>1
  <2>2. Good(i)
    BY <2>1
  <2>3. f[i + 1] = IF s[i + 1] \in T THEN Append(f[i], s[i + 1]) ELSE f[i]
    BY <1>3, <2>1
  <2>4. CASE i + 1 <= n
    <3>1. /\ s[i + 1] \in T /\ s[i + 1] \in A /\ i <= n /\ r[i + 1] = s[i + 1]
      BY <1>1, <2>1, <2>4
    <3>2. /\ f[i] \in Seq(A) /\ Len(f[i]) = i /\ \A k \in 1 .. i : f[i][k] = r[k]
      BY <2>2, <3>1
    <3> DEFINE g == Append(f[i], s[i + 1])
    <3>3. f[i + 1] = g
      BY <2>3, <3>1
    <3>4. /\ g \in Seq(A) /\ Len(g) = i + 1 /\ g[i + 1] = s[i + 1]
          /\ \A j \in 1 .. i : g[j] = f[i][j]
      BY <2>1, <3>1, <3>2
    <3> HIDE DEF g, S
    <3>5. ASSUME NEW k \in 1 .. i + 1 PROVE g[k] = r[k]
      <4>1. k = i + 1 \/ k \in 1 .. i
        BY <2>1
      <4> QED
        BY <3>1, <3>2, <3>4, <4>1
    <3> QED
      BY <2>4, <3>3, <3>4, <3>5
  <2>5. CASE ~(i + 1 <= n)
    <3>1. s[i + 1] \notin T /\ f[i + 1] = f[i]
      BY <2>1, <2>3, <2>5
    <3>2. f[i] = r
      <4>1. CASE i = n
        BY <1>1, <1>9, <2>1, <2>2, <4>1
      <4>2. CASE i # n
        <5>1. ~(i <= n)
          BY <1>1, <2>1, <2>5, <4>2
        <5> QED
          BY <2>2, <5>1
      <4> QED
        BY <4>1, <4>2
    <3> QED
      BY <2>5, <3>1, <3>2
  <2> QED
    BY <2>4, <2>5
<1>6. S \in SUBSET Nat
  OBVIOUS
<1>7. S = Nat
  <2> HIDE DEF S
  <2> QED
    BY <1>4, <1>5, <1>6, SetInduction
<1>8. Good(Len(s))
  <2>1. Len(s) \in S
    BY <1>1, <1>7
  <2> HIDE DEF Good
  <2> QED
    BY <2>1
<1>10. CASE Len(s) <= n
  <2>1. Len(s) = n
    BY <1>1, <1>10
  <2> QED
    BY <1>1, <1>8, <1>9, <2>1
<1> QED
  BY <1>8, <1>10

LEMMA SelectInIs ==
    ASSUME NEW s, NEW T, Len(s) \in Nat
    PROVE  \E f : Selects(f, s, T) /\ SelectIn(s, T) = f[Len(s)]
<1> DEFINE G == CHOOSE f : f = [i \in 0 .. Len(s) |-> IF i = 0 THEN << >>
                   ELSE IF s[i] \in T THEN Append(f[i - 1], s[i]) ELSE f[i - 1]]
<1>1. PICK f : Selects(f, s, T)
  BY SelectsExists
<1>2. f = [i \in 0 .. Len(s) |-> IF i = 0 THEN << >>
              ELSE IF s[i] \in T THEN Append(f[i - 1], s[i]) ELSE f[i - 1]]
  BY <1>1 DEF Selects
<1>3. G = [i \in 0 .. Len(s) |-> IF i = 0 THEN << >>
              ELSE IF s[i] \in T THEN Append(G[i - 1], s[i]) ELSE G[i - 1]]
  BY <1>2
<1>4. SelectIn(s, T) = G[Len(s)]
  BY DEF SelectIn
<1> HIDE DEF G
<1>5. Selects(G, s, T)
  BY <1>3 DEF Selects
<1> QED
  BY <1>4, <1>5

\* r has the elements of s that lie in T and no other.
Selected(r, s, T) ==
    /\ \A j \in 1 .. Len(r) : \E k \in 1 .. Len(s) : r[j] = s[k] /\ s[k] \in T
    /\ \A k \in 1 .. Len(s) : s[k] \in T => \E j \in 1 .. Len(r) : r[j] = s[k]

LEMMA SelectInRange ==
    ASSUME NEW A, NEW s \in Seq(A), NEW T, NEW r, r = SelectIn(s, T)
    PROVE  r \in Seq(A) /\ Selected(r, s, T)
<1>1. PICK f : Selects(f, s, T) /\ SelectIn(s, T) = f[Len(s)]
  BY SelectInIs
<1> QED
  BY <1>1, SelectsRange DEF Selected

\* When exactly a prefix of s lies in T, SelectIn is that prefix.
LEMMA SelectInPrefix ==
    ASSUME NEW A, NEW s \in Seq(A), NEW T,
           NEW r \in Seq(A), Len(r) <= Len(s), \A k \in 1 .. Len(r) : r[k] = s[k],
           \A k \in 1 .. Len(s) : s[k] \in T <=> k <= Len(r)
    PROVE  SelectIn(s, T) = r
<1>1. PICK f : Selects(f, s, T) /\ SelectIn(s, T) = f[Len(s)]
  BY SelectInIs
<1> QED
  BY <1>1, SelectsPrefix

-----------------------------------------------------------------------------
(***************************************************************************)
(* The frontier along a log                                                *)
(***************************************************************************)

\* FrontierStamped for one log.
Stamped(log) ==
    \A i \in DOMAIN log :
        log[i].logical_ts = FrontierAfter(log[Max({k \in FrontierIdx(log) : k <= i})])

LEMMA AppendIdx ==
    ASSUME NEW log \in Seq(Event), NEW e \in Event
    PROVE  LET new == Append(log, e)
           IN  /\ FrontierIdx(log) \subseteq 1 .. Len(log)
               /\ FrontierIdx(new) \subseteq 1 .. Len(log) + 1
               /\ \A k \in 1 .. Len(log) : k \in FrontierIdx(new) <=> k \in FrontierIdx(log)
  BY AppendFacts DEF FrontierIdx

\* An event stamped with the frontier it leaves behind.
LEMMA StampedAppend ==
    ASSUME NEW log \in Seq(Event), NEW e \in Event, Stamped(log),
           Len(log) > 0 => 1 \in FrontierIdx(log),
           e.logical_ts = FrontierOf(Append(log, e))
    PROVE  Stamped(Append(log, e))
<1> DEFINE new == Append(log, e)
           f(l, i) == {k \in FrontierIdx(l) : k <= i}
<1> SUFFICES ASSUME NEW i \in 1 .. Len(log) + 1
             PROVE  new[i].logical_ts = FrontierAfter(new[Max(f(new, i))])
  BY AppendFacts DEF Stamped
<1>1. CASE i = Len(log) + 1
  <2>1. f(new, i) = FrontierIdx(new)
    BY <1>1, AppendIdx
  <2> QED
    BY <1>1, <2>1, AppendFacts DEF FrontierOf
<1>2. CASE i # Len(log) + 1
  <2>1. i \in 1 .. Len(log) /\ Len(log) \in Nat /\ new[i] = log[i]
    BY <1>2, AppendFacts
  <2>2. f(new, i) = f(log, i)
    BY <2>1, AppendIdx
  <2>3. f(log, i) \in SUBSET (1 .. Len(log)) /\ 1 \in f(log, i)
    BY <2>1, AppendIdx
  <2>4. Max(f(log, i)) \in 1 .. Len(log)
    <3> HIDE DEF f
    <3> QED
      BY <2>1, <2>3, MaxBounded
  <2>5. new[Max(f(log, i))] = log[Max(f(log, i))]
    BY <2>4, AppendFacts
  <2>6. log[i].logical_ts = FrontierAfter(log[Max(f(log, i))])
    BY <2>1 DEF Stamped
  <2> QED
    BY <2>1, <2>2, <2>5, <2>6
<1> QED
  BY <1>1, <1>2

LEMMA StampedFirst ==
    ASSUME NEW e \in Event, e.event_type \in PinTypes, e.logical_ts = FrontierAfter(e)
    PROVE  Stamped(Append(<<>>, e))
<1> DEFINE new == Append(<<>>, e)
<1>1. DOMAIN new = {1} /\ new[1] = e
  BY PinAppend
<1>2. {k \in FrontierIdx(new) : k <= 1} = {1}
  BY <1>1 DEF FrontierIdx
<1>3. Max({k \in FrontierIdx(new) : k <= 1}) = 1
  BY <1>2, MaxIs
<1> QED
  BY <1>1, <1>3 DEF Stamped

LEMMA PinnedFrontier ==
    ASSUME Inv, NEW s \in SessionId, sessions[s].status \notin Unpinned
    PROVE  1 \in FrontierIdx(domain_events[s])
<1>1. PinIdx(domain_events[s]) = {1}
  BY DEF Inv, SessionOK, PinOK
<1> QED
  BY <1>1 DEF PinIdx, FrontierIdx

LEMMA NextStamped == Inv /\ Inv' /\ FrontierStamped /\ [Next]_vars => FrontierStamped'
<1> SUFFICES ASSUME Inv, Inv', FrontierStamped, [Next]_vars, NEW s \in SessionId
             PROVE  Stamped(domain_events'[s])
  BY DEF FrontierStamped, Stamped
<1>1. Stamped(domain_events[s]) /\ domain_events \in [SessionId -> Seq(Event)]
  BY DEF FrontierStamped, Stamped, Inv, TypeOK
<1>2. CASE sessions[s].status \notin Unpinned
  <2>1. Continues(sessions[s], sessions'[s], domain_events[s], domain_events'[s])
    BY <1>2, NextKeeps DEF KeepsStep, Keeps
  <2> QED
    BY <1>1, <1>2, <2>1, PinnedFrontier, StampedAppend DEF Continues
<1>3. CASE sessions[s].status \in Unpinned
  <2>1. ASSUME NEW c \in commits, CommitWrite(c)
        PROVE  Stamped(domain_events'[s])
    <3>1. PICK e \in Event :
              /\ e.event_type = "SESSION_COMMITTED"
              /\ e.logical_ts = c.setup.play_start
              /\ e.payload = CommitPayload(c.setup, c.eligibility)
              /\ domain_events' = [domain_events EXCEPT ![c.session] = Append(<<>>, e)]
      BY <2>1, CommitOpens
    <3>2. e.event_type \in PinTypes /\ e.logical_ts = FrontierAfter(e)
      BY <3>1 DEF PinTypes, FrontierAfter, CommitPayload
    <3> QED
      BY <1>1, <3>1, <3>2, StampedFirst
  <2>2. ASSUME NEW q, NEW child \in SessionId, NEW p \in Principal, q \in SessionId,
               Fork(q, p, sessions[q].version, child)
        PROVE  Stamped(domain_events'[s])
    <3>1. PICK e \in Event :
              /\ e.event_type = "SESSION_FORKED"
              /\ e.logical_ts = FrontierOf(domain_events[q])
              /\ e.payload = ForkPayload(q, sessions[q].version)
              /\ domain_events' = [domain_events EXCEPT ![child] = Append(<<>>, e)]
      BY <2>2, ForkOpens
    <3>2. e.event_type \in PinTypes /\ e.logical_ts = FrontierAfter(e)
      BY <3>1 DEF PinTypes, FrontierAfter, ForkPayload
    <3> QED
      BY <1>1, <3>1, <3>2, StampedFirst
  <2> QED
    BY <1>1, <1>3, <2>1, <2>2, LogCases
<1> QED
  BY <1>2, <1>3

LEMMA IdxBounded ==
    ASSUME NEW log \in Seq(Event), NEW v
    PROVE  IdxAtVersion(log, v) \in SUBSET (1 .. Len(log)) /\ Len(log) \in Nat
  BY DEF IdxAtVersion, FrontierIdx

\* The frontier a session had at a version is settled: events that follow have
\* later causes.
LEMMA SettledFrontier ==
    ASSUME NEW log \in Seq(Event), NEW row, row.version \in Nat, NEW row2, NEW log2,
           Continues(row, row2, log, log2),
           NEW v \in Nat, v <= row.version, 1 \in IdxAtVersion(log, v)
    PROVE  /\ v <= row2.version
           /\ 1 \in IdxAtVersion(log2, v)
           /\ FrontierAtVersion(log2, v) = FrontierAtVersion(log, v)
<1>1. CASE row2.version \in Nat /\ row2.version >= row.version /\ log2 = log
  <2>1. v <= row2.version
    BY <1>1
  <2> QED
    BY <1>1, <2>1
<1>2. ASSUME NEW e \in Event, log2 = Append(log, e), e.cause = row.version + 1,
             row2.version = row.version + 1
      PROVE  /\ v <= row2.version
             /\ 1 \in IdxAtVersion(log2, v)
             /\ FrontierAtVersion(log2, v) = FrontierAtVersion(log, v)
  <2>1. IdxAtVersion(log2, v) = IdxAtVersion(log, v)
    <3>1. ASSUME NEW i \in FrontierIdx(log2)
          PROVE  log2[i].cause <= v <=> i \in FrontierIdx(log) /\ log[i].cause <= v
      <4>1. CASE i = Len(log) + 1
        <5>1. log2[i].cause = row.version + 1 /\ i \notin FrontierIdx(log)
          BY <1>2, <4>1, AppendFacts, AppendIdx
        <5> QED
          BY <5>1
      <4>2. CASE i # Len(log) + 1
        <5>1. i \in 1 .. Len(log)
          BY <1>2, <3>1, <4>2, AppendFacts, AppendIdx
        <5>2. log2[i] = log[i] /\ i \in FrontierIdx(log)
          BY <1>2, <3>1, <5>1, AppendFacts, AppendIdx
        <5> QED
          BY <5>2
      <4> QED
        BY <4>1, <4>2
    <3>2. FrontierIdx(log) \subseteq FrontierIdx(log2)
      BY <1>2, AppendIdx
    <3> QED
      BY <3>1, <3>2 DEF IdxAtVersion
  <2>2. Max(IdxAtVersion(log, v)) \in 1 .. Len(log)
    BY IdxBounded, MaxBounded
  <2>3. log2[Max(IdxAtVersion(log, v))] = log[Max(IdxAtVersion(log, v))]
    BY <1>2, <2>2, AppendFacts
  <2> QED
    BY <1>2, <2>1, <2>3 DEF FrontierAtVersion
<1> QED
  BY <1>1, <1>2 DEF Continues

\* The version a session has now has the frontier it has now.
LEMMA FrontierNow ==
    ASSUME Inv, NEW s \in SessionId, sessions[s].status \notin Unpinned
    PROVE  /\ 1 \in IdxAtVersion(domain_events[s], sessions[s].version)
           /\ FrontierAtVersion(domain_events[s], sessions[s].version)
                 = FrontierOf(domain_events[s])
<1> DEFINE log == domain_events[s]
<1>1. /\ \A i \in DOMAIN log : log[i].cause <= sessions[s].version
      /\ 1 \in FrontierIdx(log)
  BY PinnedFrontier DEF Inv, SessionOK, CausesOK
<1>2. IdxAtVersion(log, sessions[s].version) = FrontierIdx(log)
  BY <1>1 DEF IdxAtVersion, FrontierIdx
<1> QED
  BY <1>1, <1>2 DEF FrontierAtVersion, FrontierOf

\* ForkLineage for one fork event e of session s. That the parent is pinned,
\* and was at the version the fork names, makes it inductive.
Descends(e, s, rows, logs) ==
    LET q == e.payload.parent
        v == e.payload.parent_version
    IN  /\ q \in SessionId
        /\ rows[q].status \notin Unpinned
        /\ rows[q].principal = rows[s].principal
        /\ e.payload.setup = SetupOf(logs[q])
        /\ v <= rows[q].version
        /\ 1 \in IdxAtVersion(logs[q], v)
        /\ e.payload.time = FrontierAtVersion(logs[q], v)

LineageInv ==
    \A s \in SessionId : \A i \in DOMAIN domain_events[s] :
        domain_events[s][i].event_type = "SESSION_FORKED" =>
            Descends(domain_events[s][i], s, sessions, domain_events)

\* The setup of a pinned session is the one it goes on with.
LEMMA SetupKept ==
    ASSUME Inv, Inv', [Next]_vars, NEW q \in SessionId,
           sessions[q].status \notin Unpinned
    PROVE  /\ sessions'[q].status \notin Unpinned
           /\ SetupOf(domain_events'[q]) = SetupOf(domain_events[q])
           /\ Continues(sessions[q], sessions'[q], domain_events[q], domain_events'[q])
<1>1. /\ sessions'[q].status \notin Unpinned
      /\ Continues(sessions[q], sessions'[q], domain_events[q], domain_events'[q])
  BY NextKeeps DEF KeepsStep, Keeps
<1>2. PinIdx(domain_events[q]) = {1} /\ PinIdx(domain_events'[q]) = {1}
  BY <1>1 DEF Inv, SessionOK, PinOK
<1>3. domain_events'[q][1] = domain_events[q][1]
  BY <1>1, <1>2, ReadTyped, ContinuesPin
<1> QED
  BY <1>1, <1>2, <1>3, PinnedSetup

LEMMA DescendsKept ==
    ASSUME Inv, Inv', [Next]_vars, NEW s \in SessionId, NEW e \in Event,
           sessions[s].status # "NONE",
           Descends(e, s, sessions, domain_events)
    PROVE  Descends(e, s, sessions', domain_events')
<1> DEFINE q == e.payload.parent
           v == e.payload.parent_version
<1>1. /\ q \in SessionId /\ sessions[q].status \notin Unpinned
      /\ v <= sessions[q].version
      /\ 1 \in IdxAtVersion(domain_events[q], v)
  BY DEF Descends
<1>2. v \in Nat
  BY DEF Event, Payload
<1>3. /\ sessions[q].version \in Nat /\ domain_events[q] \in Seq(Event)
  BY <1>1, ReadTyped
<1>4. /\ sessions'[q].status \notin Unpinned
      /\ SetupOf(domain_events'[q]) = SetupOf(domain_events[q])
      /\ Continues(sessions[q], sessions'[q], domain_events[q], domain_events'[q])
  BY <1>1, SetupKept
<1>5. /\ v <= sessions'[q].version
      /\ 1 \in IdxAtVersion(domain_events'[q], v)
      /\ FrontierAtVersion(domain_events'[q], v) = FrontierAtVersion(domain_events[q], v)
  BY <1>1, <1>2, <1>3, <1>4, SettledFrontier
<1>6. /\ sessions'[q].principal = sessions[q].principal
      /\ sessions'[s].principal = sessions[s].principal
  BY <1>1, NextKeeps DEF KeepsStep, Keeps, Unpinned
<1> QED
  BY <1>1, <1>4, <1>5, <1>6 DEF Descends

LEMMA NextLineage == Inv /\ Inv' /\ LineageInv /\ [Next]_vars => LineageInv'
<1> SUFFICES ASSUME Inv, Inv', LineageInv, [Next]_vars, NEW s \in SessionId,
                    NEW i \in DOMAIN domain_events'[s],
                    domain_events'[s][i].event_type = "SESSION_FORKED"
             PROVE  Descends(domain_events'[s][i], s, sessions', domain_events')
  BY DEF LineageInv
<1>1. domain_events \in [SessionId -> Seq(Event)]
  BY DEF Inv, TypeOK
<1>2. ASSUME i \in DOMAIN domain_events[s], domain_events'[s][i] = domain_events[s][i]
      PROVE  Descends(domain_events'[s][i], s, sessions', domain_events')
  <2>1. domain_events[s][i] \in Event
    BY <1>1, <1>2
  <2>2. sessions[s].status # "NONE"
    BY <1>2, ReadTyped DEF Unpinned
  <2> QED
    BY <1>2, <2>1, <2>2, DescendsKept DEF LineageInv
<1>3. CASE sessions[s].status \notin Unpinned
  <2>1. Continues(sessions[s], sessions'[s], domain_events[s], domain_events'[s])
    BY <1>3, NextKeeps DEF KeepsStep, Keeps
  <2>2. i \in PinIdx(domain_events'[s])
    BY DEF PinIdx, PinTypes
  <2> QED
    BY <1>1, <1>2, <2>1, <2>2, ContinuesPin DEF PinIdx
<1>4. CASE sessions[s].status \in Unpinned
  <2>1. domain_events[s] = <<>>
    BY <1>4, ReadTyped
  <2>2. ASSUME NEW c \in commits, CommitWrite(c)
        PROVE  FALSE
    <3>1. PICK e \in Event :
              /\ e.event_type = "SESSION_COMMITTED"
              /\ domain_events' = [domain_events EXCEPT ![c.session] = Append(<<>>, e)]
      BY <2>2, CommitOpens
    <3>2. domain_events'[s] = <<>> \/ domain_events'[s] = Append(<<>>, e)
      BY <1>1, <2>1, <3>1
    <3> QED
      BY <3>1, <3>2
  <2>3. ASSUME NEW q \in SessionId, NEW child \in SessionId, NEW p \in Principal,
               Fork(q, p, sessions[q].version, child)
        PROVE  Descends(domain_events'[s][i], s, sessions', domain_events')
    <3>1. PICK e \in Event :
              /\ e.payload = ForkPayload(q, sessions[q].version)
              /\ sessions[child].status = "NONE" /\ sessions[q].status \notin Unpinned
              /\ sessions[q].principal = p
              /\ domain_events' = [domain_events EXCEPT ![child] = Append(<<>>, e)]
      BY <2>3, ForkOpens
    <3>2. s = child /\ domain_events'[s] = Append(<<>>, e)
      BY <1>1, <2>1, <3>1
    <3>3. domain_events'[s][i] = e
      BY <3>2
    <3>4. q # child
      BY <2>3 DEF Fork
    <3>5. /\ sessions'[q] = sessions[q] /\ domain_events'[q] = domain_events[q]
          /\ sessions'[s].principal = p
      BY <1>1, <2>3, <3>1, <3>2, <3>4 DEF Fork, Inv, TypeOK
    <3>6. /\ 1 \in IdxAtVersion(domain_events[q], sessions[q].version)
          /\ FrontierAtVersion(domain_events[q], sessions[q].version)
                = FrontierOf(domain_events[q])
      BY <3>1, FrontierNow
    <3>7. sessions[q].version <= sessions[q].version
      BY ReadTyped
    <3>8. /\ e.payload.parent = q /\ e.payload.parent_version = sessions[q].version
          /\ e.payload.setup = SetupOf(domain_events[q])
          /\ e.payload.time = FrontierOf(domain_events[q])
      BY <3>1 DEF ForkPayload
    <3> QED
      BY <3>1, <3>3, <3>5, <3>6, <3>7, <3>8 DEF Descends
  <2>4. CASE domain_events'[s] = domain_events[s]
    BY <1>2, <2>4
  <2> QED
    BY <1>4, <2>2, <2>3, <2>4, LogCases
<1> QED
  BY <1>3, <1>4

\* The frontier every event is stamped with, and the frontier every fork names
\* of its parent, is the one the replay had there: no interleaving of forks,
\* advances and commands shows a child what its parent had not revealed.
THEOREM FrontiersTraced == Spec => []FrontierTraced
<1>1. Init => FrontierStamped /\ LineageInv
  BY DEF Init, FrontierStamped, LineageInv
<1>2. FrontierStamped /\ LineageInv => FrontierTraced
  <2>1. LineageInv => ForkLineage
    BY DEF LineageInv, ForkLineage, Descends, Exists, Unpinned
  <2> QED
    BY <2>1 DEF FrontierTraced
<1> QED
  BY <1>1, <1>2, NextStamped, NextLineage, Invariance, PTL DEF Spec

-----------------------------------------------------------------------------
(***************************************************************************)
(* The lifecycle implements ReplayClock                                    *)
(***************************************************************************)

Clocks == [s \in SessionId |-> ClockOf(s)]

Shows(status, time, window) == [status |-> status, time |-> time, window |-> window]

LEMMA ShowsExcept ==
    ASSUME NEW status, NEW time, NEW window, NEW x
    PROVE  /\ [Shows(status, time, window) EXCEPT !.status = x] = Shows(x, time, window)
           /\ [Shows(status, time, window) EXCEPT !.time = x] = Shows(status, x, window)
           /\ Shows(status, time, window).status = status
           /\ Shows(status, time, window).time = time
           /\ Shows(status, time, window).window = window
  BY DEF Shows

\* A step that changes the row and the log of session s only leaves the clocks
\* of the others alone.
LEMMA OneClock ==
    ASSUME Inv, NEW s \in SessionId, NEW row, NEW log,
           sessions' = [sessions EXCEPT ![s] = row],
           domain_events' = [domain_events EXCEPT ![s] = log]
    PROVE  /\ sessions'[s] = row /\ domain_events'[s] = log
           /\ Clocks' = [Clocks EXCEPT ![s] = ClockOf(s)']
           /\ Clocks[s] = ClockOf(s)
           /\ Clocks'[s] = ClockOf(s)'
<1>1. sessions'[s] = row /\ domain_events'[s] = log
  BY DEF Inv, TypeOK
<1>2. ASSUME NEW x \in SessionId, x # s
      PROVE  ClockOf(x)' = ClockOf(x)
  BY <1>2 DEF Inv, TypeOK, ClockOf
<1> QED
  BY <1>1, <1>2 DEF Clocks

\* The clock of a pinned session.
LEMMA PinnedClock ==
    ASSUME NEW s \in SessionId, sessions[s].status \notin Unpinned
    PROVE  /\ ClockOf(s).status = sessions[s].status
           /\ ClockOf(s).time = FrontierOf(domain_events[s])
           /\ ClockOf(s).window = WindowOf(SetupOf(domain_events[s]))
           /\ ClockOf(s) = Shows(sessions[s].status, FrontierOf(domain_events[s]),
                                WindowOf(SetupOf(domain_events[s])))
  BY DEF ClockOf, Unpinned, Shows

\* A lifecycle event of a pinned session moves its status and its time only.
LEMMA TransitionClock ==
    ASSUME Inv, Inv', NEW s \in SessionId, NEW p \in Principal, NEW expected,
           NEW allowed, allowed \cap Unpinned = {},
           NEW target \in Status, target \notin Unpinned,
           NEW type \in EventType, type \notin PinTypes,
           NEW ts \in Int, NEW payload \in Payload, NEW time,
           time = IF type = "SESSION_ADVANCED" THEN payload.time
                                               ELSE FrontierOf(domain_events[s]),
           Locked(s, p, expected, allowed),
           AppendEvent(s, type, ts, payload, expected + 1),
           AdvanceVersion(s, target)
    PROVE  LET window == WindowOf(SetupOf(domain_events[s]))
           IN  /\ Clocks' = [Clocks EXCEPT ![s] = Shows(target, time, window)]
               /\ Clocks'[s] = Shows(target, time, window)
               /\ Clocks[s] = Shows(sessions[s].status, FrontierOf(domain_events[s]), window)
               /\ sessions[s].status \in allowed
<1> DEFINE old == sessions[s]
           log == domain_events[s]
           row == [old EXCEPT !.status = target, !.version = @ + 1]
           e   == NewEvent(s, type, ts, payload, expected + 1)
           new == Append(log, e)
<1>1. /\ old \in Row /\ log \in Seq(Event) /\ old.status \notin Unpinned
      /\ old.status \in allowed
      /\ old.version = expected /\ expected \in Nat /\ PinOK(old, log)
  BY LockedFacts
<1>2. e \in Event /\ e.event_type = type /\ e.payload = payload
  BY <1>1, NewEventTyped DEF Inv, NewEvent
<1>3. FrontierOf(new) = time /\ PinIdx(new) = {1} /\ new[1] = log[1]
  <2>1. HasFrontier(log) /\ PinIdx(log) = {1} /\ Len(log) > 0
    BY <1>1 DEF PinOK
  <2>2. CASE type = "SESSION_ADVANCED"
    BY <1>1, <1>2, <2>1, <2>2, AdvanceAppend, AppendFacts
  <2>3. CASE type # "SESSION_ADVANCED"
    BY <1>1, <1>2, <2>1, <2>3, NeutralAppend, AppendFacts
  <2> QED
    BY <2>2, <2>3
<1>4. SetupOf(new) = SetupOf(log)
  BY <1>1, <1>3, PinnedSetup DEF PinOK
<1>5. /\ sessions' = [sessions EXCEPT ![s] = row]
      /\ domain_events' = [domain_events EXCEPT ![s] = new]
  BY DEF AppendEvent, AdvanceVersion
<1>6. /\ sessions'[s] = row /\ domain_events'[s] = new
      /\ Clocks' = [Clocks EXCEPT ![s] = ClockOf(s)']
      /\ Clocks[s] = ClockOf(s) /\ Clocks'[s] = ClockOf(s)'
  BY <1>5, OneClock
<1>7. row.status = target
  BY <1>1 DEF Row
<1>8. ClockOf(s)' = Shows(target, time, WindowOf(SetupOf(log)))
  BY <1>3, <1>4, <1>6, <1>7 DEF ClockOf, Unpinned, Shows
<1>9. ClockOf(s) = Shows(old.status, FrontierOf(log), WindowOf(SetupOf(log)))
  BY <1>1, PinnedClock
<1> QED
  BY <1>1, <1>6, <1>8, <1>9

LEMMA OwnerClock ==
    ASSUME Inv, Inv', NEW s \in SessionId, NEW p \in Principal, OwnerStep(s, p)
    PROVE  Clock!Next
<1> DEFINE expected == sessions[s].version
           front    == FrontierOf(domain_events[s])
           u        == SetupOf(domain_events[s])
<1> USE DEF Unpinned
<1>1. ASSUME NEW allowed, allowed \cap Unpinned = {},
             NEW target \in Status, target \notin Unpinned, NEW type \in EventType,
             type \notin PinTypes, type # "SESSION_ADVANCED",
             Locked(s, p, expected, allowed),
             AppendEvent(s, type, front, EmptyPayload, expected + 1),
             AdvanceVersion(s, target)
      PROVE  /\ Clocks' = [Clocks EXCEPT ![s].status = target]
             /\ Clocks[s].status \in allowed
             /\ Clocks[s].time = front
             /\ Clocks[s].window = WindowOf(u)
             /\ Clocks'[s].status = target
  <2>1. front \in Int
    BY <1>1, LockedFacts DEF WindowOK
  <2>2. /\ Clocks' = [Clocks EXCEPT ![s] = Shows(target, front, WindowOf(u))]
        /\ Clocks'[s] = Shows(target, front, WindowOf(u))
        /\ Clocks[s] = Shows(sessions[s].status, front, WindowOf(u))
        /\ sessions[s].status \in allowed
    BY <1>1, <2>1, PayloadsTyped, TransitionClock
  <2>3. [Clocks[s] EXCEPT !.status = target] = Shows(target, front, WindowOf(u))
    BY <2>2, ShowsExcept
  <2>4. Clocks' = [Clocks EXCEPT ![s].status = target]
    BY <2>2, <2>3
  <2>5. /\ Clocks[s].status \in allowed /\ Clocks[s].time = front
        /\ Clocks[s].window = WindowOf(u) /\ Clocks'[s].status = target
    BY <2>2, ShowsExcept
  <2> QED
    BY <2>4, <2>5
<1>2. CASE Start(s, p, expected)
  <2>1. /\ {"COMMITTED", "PAUSED"} \cap Unpinned = {} /\ "RUNNING" \notin Unpinned
        /\ "RUNNING" \in Status /\ "SESSION_STARTED" \in EventType \ PinTypes
    BY DEF Status, EventType, PinTypes
  <2>2. /\ Clocks' = [Clocks EXCEPT ![s].status = "RUNNING"]
        /\ Clocks[s].status \in {"COMMITTED", "PAUSED"} /\ Clocks'[s].status = "RUNNING"
    BY <1>1, <1>2, <2>1 DEF Start, StatusTransition
  <2> QED
    BY <2>2 DEF Clocks, Clock!Next, Clock!Run, Clock!Become
<1>3. CASE Pause(s, p, expected)
  <2>1. /\ {"RUNNING"} \cap Unpinned = {} /\ "PAUSED" \notin Unpinned
        /\ "PAUSED" \in Status /\ "SESSION_PAUSED" \in EventType \ PinTypes
    BY DEF Status, EventType, PinTypes
  <2>2. /\ Clocks' = [Clocks EXCEPT ![s].status = "PAUSED"]
        /\ Clocks[s].status \in {"RUNNING"} /\ Clocks'[s].status = "PAUSED"
    BY <1>1, <1>3, <2>1 DEF Pause, StatusTransition
  <2> QED
    BY <2>2 DEF Clocks, Clock!Next, Clock!Hold, Clock!Become
<1>4. CASE Complete(s, p, expected)
  <2>1. /\ {"RUNNING", "PAUSED"} \cap Unpinned = {} /\ "COMPLETED" \notin Unpinned
        /\ "COMPLETED" \in Status /\ "SESSION_COMPLETED" \in EventType \ PinTypes
    BY DEF Status, EventType, PinTypes
  <2>2. /\ Clocks' = [Clocks EXCEPT ![s].status = "COMPLETED"]
        /\ Clocks[s].status \in {"RUNNING", "PAUSED"} /\ Clocks'[s].status = "COMPLETED"
        /\ Clocks[s].time = front /\ Clocks[s].window = WindowOf(u)
    BY <1>1, <1>4, <2>1 DEF Complete
  <2>3. Clocks[s].time = Clocks[s].window.last
    BY <1>4, <2>2 DEF Complete, AtEnd, WindowOf
  <2> QED
    BY <2>2, <2>3 DEF Clocks, Clock!Next, Clock!Finish, Clock!Become
<1>5. ASSUME NEW t \in Instants, Advance(s, p, expected, t)
      PROVE  Clock!Next
  <2> DEFINE payload == [EmptyPayload EXCEPT !.time = t]
  <2>1. t \in Int /\ payload \in Payload /\ payload.time = t
    BY InstantsInt, PayloadsTyped DEF EmptyPayload
  <2>2. /\ {"RUNNING"} \cap Unpinned = {} /\ "RUNNING" \notin Unpinned
        /\ "RUNNING" \in Status /\ "SESSION_ADVANCED" \in EventType \ PinTypes
    BY DEF Status, EventType, PinTypes
  <2>3. /\ Locked(s, p, expected, {"RUNNING"})
        /\ AppendEvent(s, "SESSION_ADVANCED", t, payload, expected + 1)
        /\ AdvanceVersion(s, "RUNNING")
        /\ t > front /\ t <= u.play_end
    BY <1>5 DEF Advance, AdvanceInRange
  <2>4. /\ Clocks' = [Clocks EXCEPT ![s] = Shows("RUNNING", t, WindowOf(u))]
        /\ Clocks'[s] = Shows("RUNNING", t, WindowOf(u))
        /\ Clocks[s] = Shows(sessions[s].status, front, WindowOf(u))
        /\ sessions[s].status \in {"RUNNING"}
    BY <2>1, <2>2, <2>3, TransitionClock
  <2>5. /\ [Clocks[s] EXCEPT !.time = t] = Shows("RUNNING", t, WindowOf(u))
        /\ Clocks[s].status = "RUNNING" /\ Clocks[s].time = front
        /\ Clocks[s].window = WindowOf(u) /\ Clocks'[s].time = t
    BY <2>4, ShowsExcept
  <2>6. front \in Int /\ u.play_end \in Int
    BY <2>2, <2>3, LockedFacts, SetupAssumption DEF WindowOK
  <2>7. t \in Clocks[s].time + 1 .. Clocks[s].window.last /\ t # Clocks[s].time
    BY <2>1, <2>3, <2>5, <2>6 DEF WindowOf
  <2>8. Clocks' = [Clocks EXCEPT ![s].time = t] /\ Clocks'[s] # Clocks[s]
    BY <2>4, <2>5, <2>7
  <2> QED
    BY <2>5, <2>7, <2>8 DEF Clocks, Clock!Next, Clock!Tick
<1>6. ASSUME NEW child \in SessionId, Fork(s, p, expected, child)
      PROVE  Clock!Next
  <2>1. PICK e \in Event :
            /\ e.event_type = "SESSION_FORKED"
            /\ e.payload = ForkPayload(s, expected)
            /\ sessions[child].status = "NONE" /\ sessions[s].status \notin Unpinned
            /\ domain_events' = [domain_events EXCEPT ![child] = Append(<<>>, e)]
    BY <1>6, ForkOpens
  <2> DEFINE row == [principal |-> p, status |-> ForkStatus(s), version |-> 1,
                     ruleset_id |-> u.ruleset_id]
             log == Append(<<>>, e)
  <2>2. sessions' = [sessions EXCEPT ![child] = row]
    BY <1>6 DEF Fork
  <2>3. /\ PinIdx(log) = {1} /\ FrontierOf(log) = FrontierAfter(e) /\ log[1] = e
    BY <2>1, PinAppend DEF PinTypes
  <2>4. FrontierOf(log) = front /\ SetupOf(log) = u
    BY <2>1, <2>3, PinnedSetup DEF FrontierAfter, ForkPayload
  <2> HIDE DEF log
  <2>5. /\ sessions'[child] = row /\ domain_events'[child] = log
        /\ Clocks' = [Clocks EXCEPT ![child] = ClockOf(child)']
        /\ Clocks[child] = ClockOf(child) /\ Clocks'[child] = ClockOf(child)'
    BY <2>1, <2>2, OneClock DEF log
  <2>6. row.status = ForkStatus(s) /\ ForkStatus(s) \in {"COMMITTED", "PAUSED"}
    BY DEF ForkStatus
  <2>7. ClockOf(child)' = Shows(ForkStatus(s), front, WindowOf(u))
    BY <2>4, <2>5, <2>6 DEF ClockOf, Shows
  <2>8. Clocks[child] = Clock!Absent
    BY <2>1, <2>5 DEF ClockOf, Clock!Absent
  <2>9. /\ Clocks[s] = Shows(sessions[s].status, front, WindowOf(u))
        /\ Clocks[s].time = front /\ Clocks[s].window = WindowOf(u)
        /\ Clocks[s].status \in {"COMMITTED", "RUNNING", "PAUSED"}
    BY <1>6, <2>1, PinnedClock DEF Clocks, Fork, Locked
  <2>10. ForkStatus(s) = IF Clocks[s].time = Clocks[s].window.first
                         THEN "COMMITTED" ELSE "PAUSED"
    BY <2>9 DEF ForkStatus, WindowOf
  <2>11. Clocks' = [Clocks EXCEPT ![child] =
                      [Clocks[s] EXCEPT !.status =
                          IF Clocks[s].time = Clocks[s].window.first
                          THEN "COMMITTED" ELSE "PAUSED"]]
    <3>1. [Clocks[s] EXCEPT !.status = ForkStatus(s)]
             = Shows(ForkStatus(s), front, WindowOf(u))
      BY <2>9, ShowsExcept
    <3>2. Clocks' = [Clocks EXCEPT ![child] = [Clocks[s] EXCEPT !.status = ForkStatus(s)]]
      BY <2>5, <2>7, <3>1
    <3> QED
      BY <2>10, <3>2
  <2>12. Clocks'[child] # Clocks[child]
    BY <2>5, <2>6, <2>7, <2>8 DEF Clock!Absent, Shows
  <2>13. Clock!Branch(s, child)
    BY <2>8, <2>9, <2>11 DEF Clocks, Clock!Branch
  <2> QED
    BY <2>12, <2>13 DEF Clocks, Clock!Next
<1> QED
  BY <1>2, <1>3, <1>4, <1>5, <1>6 DEF OwnerStep

LEMMA CommitClock ==
    ASSUME Inv, Inv', NEW c \in commits, CommitWrite(c)
    PROVE  Clock!Next
<1> DEFINE s   == c.session
           u   == c.setup
           row == [sessions[s] EXCEPT !.status = "COMMITTED",
                                      !.version = c.expected + 1,
                                      !.ruleset_id = u.ruleset_id]
<1>1. PICK e \in Event :
          /\ e.event_type = "SESSION_COMMITTED"
          /\ e.payload = CommitPayload(u, c.eligibility)
          /\ s \in SessionId /\ sessions[s].status = "SETUP"
          /\ domain_events' = [domain_events EXCEPT ![s] = Append(<<>>, e)]
  BY CommitOpens
<1> DEFINE log == Append(<<>>, e)
<1>2. sessions' = [sessions EXCEPT ![s] = row] /\ u \in Setup /\ sessions[s] \in Row
  BY <1>1 DEF CommitWrite, Inv, TypeOK, CommitCall
<1>3. PinIdx(log) = {1} /\ FrontierOf(log) = FrontierAfter(e) /\ log[1] = e
  BY <1>1, PinAppend DEF PinTypes
<1>4. FrontierOf(log) = u.play_start /\ SetupOf(log) = u
  BY <1>1, <1>3, PinnedSetup DEF FrontierAfter, CommitPayload
<1>5. row.status = "COMMITTED"
  BY <1>2 DEF Row
<1> HIDE DEF s, row, log
<1>6. /\ sessions'[s] = row /\ domain_events'[s] = log
      /\ Clocks' = [Clocks EXCEPT ![s] = ClockOf(s)']
      /\ Clocks[s] = ClockOf(s) /\ Clocks'[s] = ClockOf(s)'
  BY <1>1, <1>2, OneClock DEF log
<1>7. ClockOf(s)' = [status |-> "COMMITTED", window |-> WindowOf(u),
                     time |-> WindowOf(u).first]
  BY <1>4, <1>5, <1>6 DEF ClockOf, WindowOf
<1>8. Clocks[s] = Clock!Open
  BY <1>1, <1>6 DEF ClockOf, Clock!Open
<1>9. Clocks'[s] # Clocks[s]
  BY <1>6, <1>7, <1>8 DEF Clock!Open
<1>10. Clock!Pin(s, WindowOf(u))
  BY <1>6, <1>7, <1>8 DEF Clocks, Clock!Pin
<1> QED
  BY <1>1, <1>2, <1>9, <1>10 DEF Clocks, Clock!Next

LEMMA NextClock == Inv /\ Inv' /\ [Next]_vars => [Clock!Next]_Clocks
<1> SUFFICES ASSUME Inv, Inv', [Next]_vars PROVE Clock!Next \/ UNCHANGED Clocks
  OBVIOUS
<1>1. ASSUME UNCHANGED <<sessions, domain_events>>
      PROVE  UNCHANGED Clocks
  BY <1>1 DEF Clocks, ClockOf
<1>2. CASE CatalogStep
  BY <1>1, <1>2 DEF CatalogStep, Register, Revoke
<1>3. CASE CommitStep
  BY <1>1, <1>3, CommitClock DEF CommitStep, CommitCheck, CommitHash, RulesetLookup, CommitReject
<1>4. ASSUME NEW s \in SessionId, NEW p \in Principal, CreateSession(s, p)
      PROVE  Clock!Next
  <2> DEFINE row == [principal |-> p, status |-> "SETUP", version |-> 0,
                     ruleset_id |-> NoRuleset]
  <2>1. /\ sessions[s].status = "NONE"
        /\ sessions' = [sessions EXCEPT ![s] = row]
        /\ domain_events' = [domain_events EXCEPT ![s] = domain_events[s]]
    BY <1>4 DEF CreateSession, Exists, Inv, TypeOK
  <2>2. /\ sessions'[s] = row
        /\ Clocks' = [Clocks EXCEPT ![s] = ClockOf(s)']
        /\ Clocks[s] = ClockOf(s) /\ Clocks'[s] = ClockOf(s)'
    BY <2>1, OneClock
  <2>3. Clocks[s] = Clock!Absent /\ ClockOf(s)' = Clock!Open
    BY <2>1, <2>2 DEF ClockOf, Clock!Absent, Clock!Open
  <2>4. Clocks'[s] # Clocks[s]
    BY <2>2, <2>3 DEF Clock!Absent, Clock!Open
  <2> QED
    BY <2>2, <2>3, <2>4 DEF Clocks, Clock!Next, Clock!Create
<1>5. ASSUME NEW s \in SessionId, NEW p \in Principal, OwnerStep(s, p)
      PROVE  Clock!Next
  BY <1>5, OwnerClock
<1>6. ASSUME NEW s \in SessionId, NEW p \in Principal,
             AcceptCommand(s, p, sessions[s].version)
      PROVE  UNCHANGED Clocks
  <2> DEFINE row == [sessions[s] EXCEPT !.version = sessions[s].version + 1]
  <2>1. /\ sessions' = [sessions EXCEPT ![s] = row]
        /\ domain_events' = [domain_events EXCEPT ![s] = domain_events[s]]
        /\ sessions[s] \in Row
    BY <1>6 DEF AcceptCommand, Inv, TypeOK
  <2>2. /\ sessions'[s] = row /\ domain_events'[s] = domain_events[s]
        /\ Clocks' = [Clocks EXCEPT ![s] = ClockOf(s)']
    BY <2>1, OneClock, ZenonT(60)
  <2>3. row.status = sessions[s].status
    BY <2>1 DEF Row
  <2>4. ClockOf(s)' = ClockOf(s)
    BY <2>2, <2>3 DEF ClockOf
  <2> QED
    BY <2>2, <2>4 DEF Clocks
<1>7. CASE UNCHANGED vars
  BY <1>1, <1>7 DEF vars
<1> QED
  BY <1>2, <1>3, <1>4, <1>5, <1>6, <1>7 DEF Next, LifecycleStep

\* The session lifecycle implements ReplayClock: the clock a reader folds out
\* of the event log only ever starts, moves forward inside its window, stops
\* at the end and branches as that specification says.
THEOREM RefinesClock == Spec => ImplementsClock
<1>1. Init => Clock!Init
  BY DEF Init, Clock!Init, Clock!Absent, ClockOf, NoRow
<1>2. Inv /\ Inv' /\ [Next]_vars => [Clock!Next]_Clocks
  BY NextClock
<1> QED
  BY <1>1, <1>2, Invariance, PTL DEF Spec, ImplementsClock, Clock!Spec, Clocks

=============================================================================
