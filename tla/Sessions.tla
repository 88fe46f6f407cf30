------------------------------ MODULE Sessions ------------------------------
(***************************************************************************)
(* The session table, the append-only event log and the ruleset table of   *)
(* the control plane, and SessionService, the lifecycle that writes them   *)
(* (apps/api/.../sessions/service.py, sessions/model.py, db/schema.py).    *)
(*                                                                         *)
(* Every lifecycle method runs one transaction that starts by locking the  *)
(* session row (SELECT ... FOR UPDATE), so it is one atomic action here.   *)
(* The exception is commit(): it consults the in-memory catalogue twice    *)
(* before it opens its transaction, and the transaction looks for its      *)
(* ruleset, a row it does not lock, before it inserts it. It is four       *)
(* actions. The session row is locked throughout the transaction, so what  *)
(* the lookup leaves to the write may be checked of it there.              *)
(*                                                                         *)
(* Each of these transactions closes with _materialize, which would roll   *)
(* it back if the row and log just written could not be read; it is no     *)
(* guard here, and Materializable shows that it never raises.              *)
(*                                                                         *)
(* AcceptCommand is the interface to the command intake: what accepting a  *)
(* trading command does to the session row. CommandIntake, EventStore and  *)
(* ReplayCoordinator extend this module with the callers that run beside   *)
(* the lifecycle.                                                          *)
(***************************************************************************)
EXTENDS Integers, Sequences, FiniteSets, FiniteSetsExt

CONSTANTS
    SessionId,      \* session_id values
    Principal,      \* principal_id values
    Manifest,       \* manifest hashes the catalogue may hold
    RulesetId,      \* ruleset_id values
    RulesetHash,    \* content hashes of ruleset definitions
    Tier,           \* execution tiers
    Setup,          \* the SetupRequest values clients may submit
    Covering,       \* Covering[u]: the manifests whose facts satisfy request u
    MaxVersion,     \* U64_MAX, the last session version
    MaxCommits,     \* bound: commit() calls in flight
    NoPrincipal, NoRuleset, NoSetup, NoSession

\* What SetupRequest.__post_init__ guarantees of a request.
ASSUME SetupAssumption ==
    /\ Setup \subseteq [manifest: Manifest, warmup: Nat, play_start: Int,
                        play_end: Int, ruleset_id: RulesetId,
                        ruleset_hash: RulesetHash, tier: Tier,
                        allowed_tiers: SUBSET Tier]
    /\ \A u \in Setup : u.play_start < u.play_end
    /\ Covering \in [Setup -> SUBSET Manifest]

ASSUME BoundAssumption == MaxVersion \in Nat \ {0} /\ MaxCommits \in Nat

ASSUME NullAssumption ==
    /\ NoPrincipal \notin Principal
    /\ NoRuleset \notin RulesetId \cup RulesetHash
    /\ NoSetup \notin Setup
    /\ NoSession \notin SessionId

VARIABLES
    sessions,       \* table sessions; status "NONE" is an absent row
    domain_events,  \* table domain_events, per session in insertion order
    rulesets,       \* table rulesets: ruleset_id -> content hash
    registered,     \* CoverageCatalog._manifests
    revoked,        \* CoverageCatalog._revocations
    commits         \* commit() calls between catalogue check and transaction

catalogVars == <<registered, revoked>>
vars == <<sessions, domain_events, rulesets, registered, revoked, commits>>

Status == {"SETUP", "COMMITTED", "RUNNING", "PAUSED", "COMPLETED"}
PinTypes == {"SESSION_COMMITTED", "SESSION_FORKED"}
\* "TRADE" stands for any event type a command appends (see EventStore).
EventType == PinTypes \cup {"SESSION_STARTED", "SESSION_PAUSED",
                            "SESSION_ADVANCED", "SESSION_COMPLETED", "TRADE"}

Row == [principal: Principal \cup {NoPrincipal}, status: Status \cup {"NONE"},
        version: 0..MaxVersion, ruleset_id: RulesetId \cup {NoRuleset}]

NoRow == [principal |-> NoPrincipal, status |-> "NONE", version |-> 0,
          ruleset_id |-> NoRuleset]

Payload == [setup: Setup \cup {NoSetup}, eligibility: SUBSET Manifest,
            time: Int, parent: SessionId \cup {NoSession}, parent_version: Nat]

EmptyPayload == [setup |-> NoSetup, eligibility |-> {}, time |-> 0,
                 parent |-> NoSession, parent_version |-> 0]

\* A hash is the pair of the session version that caused the event and the
\* event's place in its batch (0 for a lifecycle event): collision-free within
\* a session because CausesOrdered makes the causes distinct.
Hash == Nat \X Nat
ZERO_HASH == <<0, 0>>

Event == [event_seq: Nat, event_type: EventType, logical_ts: Int,
          payload: Payload, cause: Nat, prior_hash: Hash, current_hash: Hash]

\* A commit() call, and what it has read by now.
CommitCall == [session: SessionId, principal: Principal,
               expected: 0 .. MaxVersion - 1,
               setup: Setup, hashed: BOOLEAN, eligibility: SUBSET Manifest,
               ruleset: {"UNREAD", "ABSENT", "BOUND"}]

TypeOK ==
    /\ sessions \in [SessionId -> Row]
    /\ domain_events \in [SessionId -> Seq(Event)]
    /\ rulesets \in [RulesetId -> RulesetHash \cup {NoRuleset}]
    /\ registered \in SUBSET Manifest
    /\ revoked \in SUBSET Manifest
    /\ commits \in SUBSET CommitCall

-----------------------------------------------------------------------------
\* _materialize_from_row: the session state a reader derives from the log.

PinIdx(log) == {i \in DOMAIN log : log[i].event_type \in PinTypes}

FrontierIdx(log) ==
    {i \in DOMAIN log : log[i].event_type \in PinTypes \cup {"SESSION_ADVANCED"}}

\* The logical time an event of FrontierIdx leaves behind.
FrontierAfter(e) ==
    IF e.event_type = "SESSION_COMMITTED" THEN e.payload.setup.play_start
                                          ELSE e.payload.time

SetupOf(log) == log[CHOOSE i \in PinIdx(log) : TRUE].payload.setup

FrontierOf(log) == FrontierAfter(log[Max(FrontierIdx(log))])

Exists(s) == sessions[s].status # "NONE"

\* The conditions under which materialization raises nothing.
Materializes(s) ==
    LET log == domain_events[s]
    IN  /\ \A i, j \in PinIdx(log) : i = j
        /\ \A i \in FrontierIdx(log) : \E j \in PinIdx(log) : j <= i
        /\ sessions[s].status # "SETUP" => PinIdx(log) # {}
        /\ PinIdx(log) # {} /\ sessions[s].ruleset_id # NoRuleset
              => sessions[s].ruleset_id = SetupOf(log).ruleset_id

-----------------------------------------------------------------------------
\* _append_event: sequence number and prior hash come from the last stored row.

NextSeq(log) == IF log = <<>> THEN 0 ELSE log[Len(log)].event_seq + 1
LastHash(log) == IF log = <<>> THEN ZERO_HASH ELSE log[Len(log)].current_hash

NewEvent(s, type, ts, payload, cause) ==
    [event_seq |-> NextSeq(domain_events[s]), event_type |-> type,
     logical_ts |-> ts, payload |-> payload, cause |-> cause,
     prior_hash |-> LastHash(domain_events[s]), current_hash |-> <<cause, 0>>]

AppendEvent(s, type, ts, payload, cause) ==
    domain_events' = [domain_events EXCEPT
                         ![s] = Append(@, NewEvent(s, type, ts, payload, cause))]

\* _locked_row, _require_version, _materialize_from_row, _require_status.
Locked(s, p, expected, allowed) ==
    /\ Exists(s)
    /\ sessions[s].principal = p
    /\ sessions[s].version = expected
    /\ Materializes(s)
    /\ sessions[s].status \in allowed

\* _next_version refuses to go past uint64.
HasNextVersion(expected) == expected < MaxVersion

\* Mutation: the UPDATE sets the status only.
AdvanceVersion_statusOnly(s, status) ==
    sessions' = [sessions EXCEPT ![s].status = status]

\* _advance_version
AdvanceVersion(s, status) ==
    sessions' = [sessions EXCEPT ![s].status = status, ![s].version = @ + 1]

-----------------------------------------------------------------------------
Init ==
    /\ sessions = [s \in SessionId |-> NoRow]
    /\ domain_events = [s \in SessionId |-> <<>>]
    /\ rulesets = [r \in RulesetId |-> NoRuleset]
    /\ registered = {}
    /\ revoked = {}
    /\ commits = {}

\* CoverageCatalog.register and .revoke; both are idempotent.
Register(m) ==
    /\ registered' = registered \cup {m}
    /\ UNCHANGED <<sessions, domain_events, rulesets, revoked, commits>>

Revoke(m) ==
    /\ m \in registered
    /\ revoked' = revoked \cup {m}
    /\ UNCHANGED <<sessions, domain_events, rulesets, registered, commits>>

\* CoverageCatalog.eligible_setups on the catalogue as it is now.
Eligible(u) == Covering[u] \cap (registered \ revoked)

CreateSession(s, p) ==
    /\ ~Exists(s)
    /\ sessions' = [sessions EXCEPT ![s] =
                       [principal |-> p, status |-> "SETUP", version |-> 0,
                        ruleset_id |-> NoRuleset]]
    /\ UNCHANGED <<domain_events, rulesets, registered, revoked, commits>>

\* Mutation: the manifest is not looked up in the eligible set.
CommitCheck_unlisted(s, p, expected, u) ==
    /\ Cardinality(commits) < MaxCommits
    /\ HasNextVersion(expected)
    /\ u.tier \in u.allowed_tiers
    /\ commits' = commits \cup
          {[session |-> s, principal |-> p, expected |-> expected,
            setup |-> u, hashed |-> FALSE, eligibility |-> {},
            ruleset |-> "UNREAD"]}
    /\ UNCHANGED <<sessions, domain_events, rulesets, registered, revoked>>

\* commit(): tier check and first catalogue read, before any transaction.
CommitCheck(s, p, expected, u) ==
    /\ Cardinality(commits) < MaxCommits
    /\ HasNextVersion(expected)
    /\ u.tier \in u.allowed_tiers
    /\ u.manifest \in Eligible(u)
    /\ commits' = commits \cup
          {[session |-> s, principal |-> p, expected |-> expected,
            setup |-> u, hashed |-> FALSE, eligibility |-> {},
            ruleset |-> "UNREAD"]}
    /\ UNCHANGED <<sessions, domain_events, rulesets, registered, revoked>>

\* commit(): eligibility_hash evaluates the eligible set a second time. The
\* hash is the set itself.
CommitHash(c) ==
    /\ ~c.hashed
    /\ commits' = (commits \ {c}) \cup
          {[c EXCEPT !.hashed = TRUE, !.eligibility = Eligible(c.setup)]}
    /\ UNCHANGED <<sessions, domain_events, rulesets, registered, revoked>>

\* The keys of the rulesets table: neither the id nor the content is bound.
Insertable(u) ==
    /\ rulesets[u.ruleset_id] = NoRuleset
    /\ \A r \in RulesetId : rulesets[r] # u.ruleset_hash

\* _persist_ruleset accepts an unbound id with an unbound hash, or the same
\* content again.
RulesetAdmissible(u) == rulesets[u.ruleset_id] = u.ruleset_hash \/ Insertable(u)

\* Mutation: the row is written over when another commit inserted it meanwhile.
RulesetHolds_upsert(c) ==
    CASE c.ruleset = "UNREAD" -> RulesetAdmissible(c.setup)
      [] OTHER                -> TRUE

\* What the ruleset row still has to be when c goes on: a row found is one that
\* stays, and the table's keys refuse an insert that comes second.
RulesetHolds(c) ==
    CASE c.ruleset = "UNREAD" -> RulesetAdmissible(c.setup)
      [] c.ruleset = "ABSENT" -> Insertable(c.setup)
      [] c.ruleset = "BOUND"  -> TRUE

\* Mutation: version and status are not compared again under the lock.
Committable_unfenced(c) ==
    /\ Exists(c.session)
    /\ sessions[c.session].principal = c.principal
    /\ RulesetHolds(c)

Committable(c) ==
    /\ Exists(c.session)
    /\ sessions[c.session].principal = c.principal
    /\ sessions[c.session].version = c.expected
    /\ sessions[c.session].status = "SETUP"
    /\ RulesetHolds(c)

\* commit(): _persist_ruleset selects the ruleset row by its id.
RulesetLookup(c) ==
    /\ c.hashed
    /\ c.ruleset = "UNREAD"
    /\ Committable(c)
    /\ commits' = (commits \ {c}) \cup
          {[c EXCEPT !.ruleset = IF rulesets[c.setup.ruleset_id] = NoRuleset
                                 THEN "ABSENT" ELSE "BOUND"]}
    /\ UNCHANGED <<sessions, domain_events, rulesets, registered, revoked>>

\* The pin event a commit writes.
CommitPayload(u, eligible) ==
    [setup |-> u, eligibility |-> eligible, time |-> 0, parent |-> NoSession,
     parent_version |-> 0]

\* commit(): the writes of the transaction.
CommitWrite(c) ==
    LET s == c.session
        u == c.setup
    IN  /\ c.ruleset # "UNREAD"
        /\ Committable(c)
        /\ rulesets' = IF c.ruleset = "BOUND" THEN rulesets
                       ELSE [rulesets EXCEPT ![u.ruleset_id] = u.ruleset_hash]
        /\ AppendEvent(s, "SESSION_COMMITTED", u.play_start,
                       CommitPayload(u, c.eligibility), c.expected + 1)
        /\ sessions' = [sessions EXCEPT ![s].status = "COMMITTED",
                                        ![s].version = c.expected + 1,
                                        ![s].ruleset_id = u.ruleset_id]
        /\ commits' = commits \ {c}
        /\ UNCHANGED catalogVars

\* commit(): the transaction raises and rolls back: a precondition fails, or
\* the ruleset row it did not find was inserted by a concurrent commit first
\* (IntegrityError).
CommitReject(c) ==
    /\ c.hashed
    /\ ~Committable(c)
    /\ commits' = commits \ {c}
    /\ UNCHANGED <<sessions, domain_events, rulesets, registered, revoked>>

\* _status_transition, the body of start() and pause().
StatusTransition(s, p, expected, allowed, target, type) ==
    /\ HasNextVersion(expected)
    /\ Locked(s, p, expected, allowed)
    /\ AppendEvent(s, type, FrontierOf(domain_events[s]), EmptyPayload, expected + 1)
    /\ AdvanceVersion(s, target)
    /\ UNCHANGED <<rulesets, registered, revoked, commits>>

Start(s, p, expected) ==
    StatusTransition(s, p, expected, {"COMMITTED", "PAUSED"}, "RUNNING",
                     "SESSION_STARTED")

Pause(s, p, expected) ==
    StatusTransition(s, p, expected, {"RUNNING"}, "PAUSED", "SESSION_PAUSED")

\* Mutation: the lower bound of the range check is dropped.
AdvanceInRange_endOnly(s, t) == t <= SetupOf(domain_events[s]).play_end

\* The range check of advance(): strictly forward, never past the committed end.
AdvanceInRange(s, t) ==
    /\ t > FrontierOf(domain_events[s])
    /\ t <= SetupOf(domain_events[s]).play_end

Advance(s, p, expected, t) ==
    /\ HasNextVersion(expected)
    /\ Locked(s, p, expected, {"RUNNING"})
    /\ AdvanceInRange(s, t)
    /\ AppendEvent(s, "SESSION_ADVANCED", t, [EmptyPayload EXCEPT !.time = t],
                   expected + 1)
    /\ AdvanceVersion(s, "RUNNING")
    /\ UNCHANGED <<rulesets, registered, revoked, commits>>

\* Mutation: complete() trusts the client that the end was reached.
AtEnd_unchecked(s) == TRUE

AtEnd(s) == FrontierOf(domain_events[s]) = SetupOf(domain_events[s]).play_end

Complete(s, p, expected) ==
    /\ HasNextVersion(expected)
    /\ Locked(s, p, expected, {"RUNNING", "PAUSED"})
    /\ AtEnd(s)
    /\ AppendEvent(s, "SESSION_COMPLETED", FrontierOf(domain_events[s]),
                   EmptyPayload, expected + 1)
    /\ AdvanceVersion(s, "COMPLETED")
    /\ UNCHANGED <<rulesets, registered, revoked, commits>>

\* Mutation: the fork names the version the parent would have next.
ForkPayload_nextVersion(s, expected) ==
    LET log == domain_events[s]
    IN  [setup |-> SetupOf(log),
         eligibility |-> log[CHOOSE i \in PinIdx(log) : TRUE].payload.eligibility,
         time |-> FrontierOf(log), parent |-> s, parent_version |-> expected + 1]

\* The pin event a fork writes into the child's log.
ForkPayload(s, expected) ==
    LET log == domain_events[s]
    IN  [setup |-> SetupOf(log),
         eligibility |-> log[CHOOSE i \in PinIdx(log) : TRUE].payload.eligibility,
         time |-> FrontierOf(log), parent |-> s, parent_version |-> expected]

ForkStatus(s) ==
    IF FrontierOf(domain_events[s]) = SetupOf(domain_events[s]).play_start
    THEN "COMMITTED" ELSE "PAUSED"

\* The child inherits owner, setup and frontier; the parent row is only read.
Fork(s, p, expected, child) ==
    /\ child # s
    /\ Locked(s, p, expected, {"COMMITTED", "RUNNING", "PAUSED"})
    /\ ~Exists(child)
    /\ sessions' = [sessions EXCEPT ![child] =
          [principal |-> p, status |-> ForkStatus(s), version |-> 1,
           ruleset_id |-> SetupOf(domain_events[s]).ruleset_id]]
    /\ AppendEvent(child, "SESSION_FORKED", FrontierOf(domain_events[s]),
                   ForkPayload(s, expected), 1)
    /\ UNCHANGED <<rulesets, registered, revoked, commits>>

\* Mutation: neither the check nor the UPDATE compares the stored version.
AcceptCommand_lostUpdate(s, p, expected) ==
    /\ Exists(s)
    /\ sessions[s].principal = p
    /\ sessions[s].status = "RUNNING"
    /\ sessions' = [sessions EXCEPT ![s].version = expected + 1]
    /\ UNCHANGED <<domain_events, rulesets, registered, revoked, commits>>

\* CommandStore.accept as the session row sees it: a new version, no event.
AcceptCommand(s, p, expected) ==
    /\ Exists(s)
    /\ sessions[s].principal = p
    /\ sessions[s].status = "RUNNING"
    /\ sessions[s].version = expected
    /\ expected + 1 <= MaxVersion
    /\ sessions' = [sessions EXCEPT ![s].version = expected + 1]
    /\ UNCHANGED <<domain_events, rulesets, registered, revoked, commits>>

CatalogStep == \E m \in Manifest : Register(m) \/ Revoke(m)

\* A commit() of a session that has left SETUP, or one that names another
\* version than the session has, is refused whatever happens meanwhile (no
\* session comes back to SETUP): only the others are enumerated.
CommitStep ==
    \/ \E s \in SessionId, p \in Principal, u \in Setup :
          /\ sessions[s].status = "SETUP"
          /\ CommitCheck(s, p, sessions[s].version, u)
    \/ \E c \in commits :
          CommitHash(c) \/ RulesetLookup(c) \/ CommitWrite(c) \/ CommitReject(c)

\* Logical times a client may ask for: any instant of some requested window.
Instants == UNION {u.play_start .. u.play_end : u \in Setup}

\* A call with a stale or wrong expected version, or by another principal,
\* raises and changes nothing: only the calls that pass are steps.
OwnerStep(s, p) ==
    LET expected == sessions[s].version
    IN  \/ Start(s, p, expected)
        \/ Pause(s, p, expected)
        \/ \E t \in Instants : Advance(s, p, expected, t)
        \/ Complete(s, p, expected)
        \/ \E child \in SessionId : Fork(s, p, expected, child)

\* The state after the commit of setup u to a first session s, where modules
\* that extend this one may start: Init, Register, CreateSession, CommitCheck,
\* CommitHash, RulesetLookup and CommitWrite lead there.
PinnedInit(s, p, u) ==
    /\ sessions = [x \in SessionId |-> IF x = s
          THEN [principal |-> p, status |-> "COMMITTED", version |-> 1,
                ruleset_id |-> u.ruleset_id]
          ELSE NoRow]
    /\ domain_events = [x \in SessionId |-> IF x = s
          THEN << [event_seq |-> 0, event_type |-> "SESSION_COMMITTED",
                   logical_ts |-> u.play_start, cause |-> 1,
                   payload |-> CommitPayload(u, {u.manifest}),
                   prior_hash |-> ZERO_HASH, current_hash |-> <<1, 0>>] >>
          ELSE <<>>]
    /\ rulesets = [r \in RulesetId |-> IF r = u.ruleset_id THEN u.ruleset_hash
                                                          ELSE NoRuleset]
    /\ registered = {u.manifest}
    /\ revoked = {}
    /\ commits = {}

\* Everything but the acceptance of commands.
LifecycleStep ==
    \/ CatalogStep
    \/ CommitStep
    \/ \E s \in SessionId, p \in Principal : CreateSession(s, p) \/ OwnerStep(s, p)

Next ==
    \/ LifecycleStep
    \/ \E s \in SessionId, p \in Principal : AcceptCommand(s, p, sessions[s].version)

Spec == Init /\ [][Next]_vars

-----------------------------------------------------------------------------
(***************************************************************************)
(* Properties                                                              *)
(***************************************************************************)

\* Every stored session can be read back: whatever interleaving of commits,
\* forks, transitions and command acceptances wrote the row and the log,
\* _materialize_from_row finds exactly the pin it requires and never raises
\* INVALID_VALUE.
Materializable == \A s \in SessionId : Exists(s) => Materializes(s)

\* The log of a session is one unbroken hash chain starting at ZERO_HASH with
\* consecutive sequence numbers, which is what the result export re-verifies.
HashChain ==
    \A s \in SessionId : \A i \in DOMAIN domain_events[s] :
        LET log == domain_events[s]
        IN  /\ log[i].event_seq = i - 1
            /\ log[i].prior_hash =
                  IF i = 1 THEN ZERO_HASH ELSE log[i - 1].current_hash

\* Each event was caused by its own session version: causes start at 1, grow
\* strictly along the log and never pass the stored version, so a version is
\* spent by at most one event even though commands consume versions too.
CausesOrdered ==
    \A s \in SessionId : \A i \in DOMAIN domain_events[s] :
        LET log == domain_events[s]
        IN  /\ 1 <= log[i].cause
            /\ log[i].cause <= sessions[s].version
            /\ \A j \in DOMAIN log : j < i => log[j].cause < log[i].cause

\* A log that several callers wrote is one chain in the order of its versions.
LogSound == TypeOK /\ HashChain /\ CausesOrdered

\* The logical_ts column that event consumers read is the replay frontier that
\* materialization computes from the payloads up to that event.
FrontierStamped ==
    \A s \in SessionId : \A i \in DOMAIN domain_events[s] :
        LET log == domain_events[s]
            f   == {k \in FrontierIdx(log) : k <= i}
        IN  log[i].logical_ts = FrontierAfter(log[Max(f)])

\* The frontier stays inside the committed window, a session still COMMITTED
\* has revealed nothing past its start, and COMPLETED means the end was reached.
FrontierInWindow ==
    \A s \in SessionId : Exists(s) /\ sessions[s].status # "SETUP" =>
        LET log == domain_events[s]
        IN  /\ SetupOf(log).play_start <= FrontierOf(log)
            /\ FrontierOf(log) <= SetupOf(log).play_end
            /\ sessions[s].status = "COMMITTED"
                  => FrontierOf(log) = SetupOf(log).play_start
            /\ sessions[s].status = "COMPLETED"
                  => FrontierOf(log) = SetupOf(log).play_end

\* The frontier a session had when its version was v.
IdxAtVersion(log, v) == {i \in FrontierIdx(log) : log[i].cause <= v}
FrontierAtVersion(log, v) ==
    FrontierAfter(log[Max(IdxAtVersion(log, v))])

\* A fork reveals nothing its parent had not revealed: at any later time the
\* child's pin still names an owned parent with the same setup, a version the
\* parent really had, and exactly the frontier the parent had at that version.
ForkLineage ==
    \A s \in SessionId : \A i \in DOMAIN domain_events[s] :
        LET e == domain_events[s][i]
        IN  e.event_type = "SESSION_FORKED" =>
                LET q == e.payload.parent
                IN  /\ Exists(q)
                    /\ sessions[q].principal = sessions[s].principal
                    /\ e.payload.setup = SetupOf(domain_events[q])
                    /\ e.payload.parent_version <= sessions[q].version
                    /\ e.payload.time = FrontierAtVersion(domain_events[q],
                                                          e.payload.parent_version)

\* The frontier an event shows, in its own session and in every fork of it, is
\* the frontier that session had then.
FrontierTraced == FrontierStamped /\ ForkLineage

\* A ruleset content never changes under a session that pinned it, although two
\* commits may both look for a ruleset id, both find no row and both insert one:
\* the ruleset row every committed or forked session points at has the hash
\* that session pinned.
RulesetsPinned ==
    \A s \in SessionId : Exists(s) /\ sessions[s].status # "SETUP" =>
        LET u == SetupOf(domain_events[s])
        IN  rulesets[u.ruleset_id] = u.ruleset_hash

\* What no step may do: rewrite history, unpin a setup, move the frontier
\* back, lower a version, or touch a completed session.
AppendOnlyStep ==
    \A s \in SessionId :
        LET log == domain_events[s]
        IN  /\ Len(log) <= Len(domain_events'[s])
            /\ \A i \in DOMAIN log : domain_events'[s][i] = log[i]
            /\ sessions[s].version <= sessions'[s].version
            /\ PinIdx(log) # {} =>
                  /\ SetupOf(domain_events'[s]) = SetupOf(log)
                  /\ FrontierOf(log) <= FrontierOf(domain_events'[s])
            /\ sessions[s].status = "COMPLETED" => sessions'[s] = sessions[s]

AppendOnly == [][AppendOnlyStep]_vars

\* commit() "immutably pins one eligible manifest", but it reads the catalogue
\* twice: the eligible set whose hash a session pins contains the manifest the
\* session pins, unless that manifest has been revoked. Forks inherit both.
EligibilityCoversPin ==
    \A s \in SessionId : \A i \in PinIdx(domain_events[s]) :
        LET payload == domain_events[s][i].payload
        IN  payload.setup.manifest \in payload.eligibility \cup revoked

WindowOf(u) == [first |-> u.play_start, last |-> u.play_end]

\* The clock a reader of the row and the log sees.
ClockOf(s) ==
    LET log == domain_events[s]
    IN  IF sessions[s].status \in {"NONE", "SETUP"}
        THEN [status |-> sessions[s].status, window |-> NoSetup, time |-> 0]
        ELSE [status |-> sessions[s].status, time |-> FrontierOf(log),
              window |-> WindowOf(SetupOf(log))]

Clock == INSTANCE ReplayClock WITH
            Session <- SessionId, NoWindow <- NoSetup,
            Window <- {WindowOf(u) : u \in Setup},
            clock <- [s \in SessionId |-> ClockOf(s)]

\* The lifecycle implements ReplayClock: the clock folded out of the event log
\* only ever takes the steps of that specification, whatever commits, forks,
\* commands and catalogue changes are interleaved.
ImplementsClock == Clock!Spec

=============================================================================
