----------------------------- MODULE EventStore -----------------------------
(***************************************************************************)
(* EventStore.append_command (apps/api/.../db/store.py): a command and the *)
(* domain events it caused, stored in one transaction beside the session   *)
(* lifecycle of Sessions.                                                  *)
(*                                                                         *)
(* Unlike the lifecycle the transaction locks no row before it reads: the  *)
(* idempotency lookup, the read of the last event and the compare-and-set  *)
(* UPDATE of the version are separate steps, and other transactions commit *)
(* between them. From the UPDATE on the row lock makes it one step. The    *)
(* unique constraints of the schema are the second line of defence.        *)
(***************************************************************************)
EXTENDS Sessions

CONSTANTS
    Writer,         \* concurrent callers of append_command
    Key,            \* idempotency keys
    PayloadHash,    \* payload_hash values
    MaxEvents,      \* bound: events of one command
    WriterLead,     \* how far past the stored version a caller may look ahead
    NoCall

ASSUME StoreAssumption == MaxEvents \in Nat /\ WriterLead \in Nat

VARIABLES
    commands,       \* table commands
    appends         \* the append_command call of every writer, or its result

storeVars == <<commands, appends>>
allVars == <<vars, storeVars>>

Command == [session: SessionId, key: Key, payload_hash: PayloadHash,
            expected: Nat]

\* The caller's CommandRecord and EventRecords: count events, the first with
\* sequence number seq and prior hash prior.
AppendCall ==
    [stage: {"lookup", "check", "write", "appended", "replayed", "failed"},
     command: Command, seq: Nat, prior: Hash, count: 0..MaxEvents,
     version: Nat, seqs: SUBSET Nat]

StoreTypeOK ==
    /\ TypeOK
    /\ commands \in SUBSET Command
    /\ appends \in [Writer -> AppendCall \cup {NoCall}]

-----------------------------------------------------------------------------
\* The schema holds a committed session; SessionService put it there.
StoreInit ==
    /\ \E s \in SessionId, p \in Principal, u \in Setup : PinnedInit(s, p, u)
    /\ commands = {}
    /\ appends = [w \in Writer |-> NoCall]

HashAfter(log, n) == IF n = 0 THEN ZERO_HASH ELSE log[n].current_hash

\* append_command is called with events built on what the caller last saw of
\* the stream: the sequence number of one prefix, the hash of another. Here
\* MaxVersion is a bound: append_command itself stops at no version.
AppendCommand(w, s, key, hash, expected, seq, seen, count) ==
    /\ appends[w] = NoCall
    /\ Exists(s)
    /\ expected < MaxVersion
    /\ appends' = [appends EXCEPT ![w] =
          [stage |-> "lookup", seq |-> seq, prior |-> HashAfter(domain_events[s], seen),
           command |-> [session |-> s, key |-> key, payload_hash |-> hash,
                        expected |-> expected],
           count |-> count, version |-> 0, seqs |-> {}]]
    /\ UNCHANGED <<vars, commands>>

Move(w, stage) ==
    /\ appends' = [appends EXCEPT ![w].stage = stage]
    /\ UNCHANGED <<vars, commands>>

Stored(command) ==
    {d \in commands : d.session = command.session /\ d.key = command.key}

\* Events whose causation_id is the command: those its version brought.
SeqsOf(d) ==
    {domain_events[d.session][i].event_seq :
        i \in {j \in DOMAIN domain_events[d.session] :
                  /\ domain_events[d.session][j].event_type = "TRADE"
                  /\ domain_events[d.session][j].cause = d.expected + 1}}

\* _idempotent_retry: the answer carries the version the session has now.
Lookup(w) ==
    LET call == appends[w]
        rows == Stored(call.command)
    IN  /\ call.stage = "lookup"
        /\ \/ rows = {} /\ Move(w, "check")
           \/ \E d \in rows :
                 IF d.payload_hash # call.command.payload_hash
                 THEN Move(w, "failed")
                 ELSE /\ appends' = [appends EXCEPT ![w].stage = "replayed",
                            ![w].version = sessions[d.session].version,
                            ![w].seqs = SeqsOf(d)]
                      /\ UNCHANGED <<vars, commands>>

\* The events continue the stored chain. Within a batch the caller chains them.
ChainFits(call) ==
    LET log == domain_events[call.command.session]
    IN  call.count > 0 => call.seq = NextSeq(log) /\ call.prior = LastHash(log)

Check(w) ==
    LET call == appends[w]
    IN  /\ call.stage = "check"
        /\ Move(w, IF ChainFits(call) THEN "write" ELSE "failed")

\* The k-th event of the call. Its hash is its place in its command's batch.
TradeEvent(call, k) ==
    [event_seq |-> call.seq + k - 1, event_type |-> "TRADE",
     logical_ts |-> FrontierOf(domain_events[call.command.session]),
     payload |-> EmptyPayload, cause |-> call.command.expected + 1,
     prior_hash |-> IF k = 1 THEN call.prior
                    ELSE <<call.command.expected + 1, k - 1>>,
     current_hash |-> <<call.command.expected + 1, k>>]

\* Mutation: the UPDATE does not compare the version.
VersionMatches_always(call) == TRUE

\* UPDATE sessions ... WHERE version = expected
VersionMatches(call) ==
    sessions[call.command.session].version = call.command.expected

\* Mutation: no unique constraint on (session_id, idempotency_key).
ConstraintsHold_noKey(call) ==
    call.count > 0 =>
        \A i \in DOMAIN domain_events[call.command.session] :
            domain_events[call.command.session][i].event_seq < call.seq

\* The unique constraints on the key and on (session_id, event_seq).
ConstraintsHold(call) ==
    /\ Stored(call.command) = {}
    /\ call.count > 0 =>
          \A i \in DOMAIN domain_events[call.command.session] :
              domain_events[call.command.session][i].event_seq < call.seq

\* From the UPDATE to the end of the transaction.
Write(w) ==
    LET call == appends[w]
        s    == call.command.session
    IN  /\ call.stage = "write"
        /\ IF VersionMatches(call) /\ ConstraintsHold(call)
           THEN /\ sessions' = [sessions EXCEPT
                                  ![s].version = call.command.expected + 1]
                /\ commands' = commands \cup {call.command}
                /\ domain_events' = [domain_events EXCEPT ![s] =
                      @ \o [k \in 1..call.count |-> TradeEvent(call, k)]]
                /\ appends' = [appends EXCEPT ![w].stage = "appended",
                      ![w].version = call.command.expected + 1,
                      ![w].seqs = {call.seq + k - 1 : k \in 1..call.count}]
                /\ UNCHANGED <<rulesets, registered, revoked, commits>>
           ELSE Move(w, "failed")

\* The caller took the result or the error.
Return(w) ==
    /\ appends[w].stage \in {"appended", "replayed", "failed"}
    /\ appends' = [appends EXCEPT ![w] = NoCall]
    /\ UNCHANGED <<vars, commands>>

\* Prefixes of the stream a caller may have built its events on: the current
\* one or the one before the last event. Without events it does not matter.
SeenLengths(s, count) ==
    LET n == Len(domain_events[s])
    IN  IF count = 0 THEN {n} ELSE {k \in {n - 1, n} : k >= 0}

WriterStep(w) ==
    \/ \E s \in SessionId, key \in Key, hash \in PayloadHash,
          count \in 0..MaxEvents :
          \E expected \in sessions[s].version .. sessions[s].version + WriterLead,
             seq, seen \in SeenLengths(s, count) :
             AppendCommand(w, s, key, hash, expected, seq, seen, count)
    \/ appends[w] # NoCall /\ (Lookup(w) \/ Check(w) \/ Write(w) \/ Return(w))

StoreNext ==
    \/ \E s \in SessionId, p \in Principal : OwnerStep(s, p) /\ UNCHANGED storeVars
    \/ \E w \in Writer : WriterStep(w)

StoreSpec == StoreInit /\ [][StoreNext]_allVars

-----------------------------------------------------------------------------
(***************************************************************************)
(* Properties, beside HashChain and Materializable of Sessions             *)
(***************************************************************************)

LifecycleVersions(s) ==
    {domain_events[s][i].cause :
        i \in {j \in DOMAIN domain_events[s] : domain_events[s][j].event_type # "TRADE"}}

\* Each version of a session was made by exactly one lifecycle event or one
\* stored command, although append_command reads before it locks anything.
OneCausePerVersion ==
    \A s \in SessionId :
        LET made == {d.expected + 1 : d \in {e \in commands : e.session = s}}
        IN  /\ made \cap LifecycleVersions(s) = {}
            /\ made \cup LifecycleVersions(s) = 1..sessions[s].version
            /\ \A d, e \in commands :
                  d.session = s /\ e.session = s /\ d.expected = e.expected => d = e

\* A key names one command even when two callers pass the idempotency lookup
\* before either has written.
KeysUnique ==
    \A d, e \in commands : d.session = e.session /\ d.key = e.key => d = e

\* A retry answers for the stored command with its own payload and names that
\* command's events, wherever the session has got to. The version it is told is
\* the session's at that moment: never an older one than the command made.
RetryFindsOriginal ==
    \A w \in Writer : appends[w] # NoCall /\ appends[w].stage = "replayed" =>
        \E d \in Stored(appends[w].command) :
            /\ d.payload_hash = appends[w].command.payload_hash
            /\ d.expected < appends[w].version
            /\ appends[w].seqs = SeqsOf(d)

\* Although append_command reads the version, the last event and the key before
\* it holds a lock, what it commits beside the lifecycle is one chain with one
\* cause for every version.
StoreSound == StoreTypeOK /\ HashChain /\ OneCausePerVersion

\* The idempotency key of append_command: one command, and every retry finds it.
KeysIdempotent == KeysUnique /\ RetryFindsOriginal

=============================================================================
