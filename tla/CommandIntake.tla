---------------------------- MODULE CommandIntake ----------------------------
(***************************************************************************)
(* The trading-command intake of the control plane: TradingCommandService, *)
(* CommandStore and the commands table (apps/api/.../commands/service.py,  *)
(* commands/store.py), running beside the session lifecycle of Sessions.   *)
(*                                                                         *)
(* A call prepares its canonical payload first - for an order that names a *)
(* price_reference this reads the visible quote, in a transaction of its   *)
(* own - and then runs the accept transaction. Between the two any other   *)
(* lifecycle or command call may commit. A client that loses the answer    *)
(* sends the same request again.                                           *)
(***************************************************************************)
EXTENDS Sessions

CONSTANTS
    Client,         \* API callers
    Key,            \* idempotency keys
    Body,           \* what a request says besides its price reference
    QuoteTimes,     \* timestamps of the instrument's quotes
    ClientLead,     \* how far past the stored version a client may look ahead
    MaxResends,     \* bound: times a client repeats one request
    NoQuote, NoCall

ASSUME IntakeAssumption ==
    /\ QuoteTimes \subseteq Int
    /\ ClientLead \in Nat
    /\ MaxResends \in Nat
    /\ NoQuote \notin QuoteTimes

VARIABLES
    commands,       \* table commands
    calls           \* the API call each client has in flight, or its answer

intakeVars == <<commands, calls>>
allVars == <<vars, intakeVars>>

\* A canonical payload: what the client asked for and the quote event the
\* price reference was resolved to. payload_hash is the payload itself.
Prepared == [body: Body, reference: BOOLEAN, quote: QuoteTimes \cup {NoQuote}]

Command == [session: SessionId, key: Key, payload: Prepared,
            expected_session_version: Nat]

Answer == {"PENDING", "ACCEPTED", "REPLAYED", "IDEMPOTENCY_CONFLICT", "REJECTED"}

Call == [session: SessionId, principal: Principal, key: Key, expected: Nat,
         payload: Prepared, answer: Answer, resulting: Nat,
         resends: 0..MaxResends]

IntakeTypeOK ==
    /\ TypeOK
    /\ commands \in SUBSET Command
    /\ calls \in [Client -> Call \cup {NoCall}]

-----------------------------------------------------------------------------
\* MarketService._context and current_quote: the last quote at or before the
\* frontier, never past the final instant of the play window.

\* Mutation: the quote is looked up through the end of the window.
VisibleThrough_window(s) == SetupOf(domain_events[s]).play_end - 1

VisibleThrough(s) ==
    LET setup == SetupOf(domain_events[s])
    IN  IF FrontierOf(domain_events[s]) < setup.play_end
        THEN FrontierOf(domain_events[s]) ELSE setup.play_end - 1

\* The latest quote of session s's partition between its warm-up and `through`.
LastQuote(s, through) ==
    LET setup   == SetupOf(domain_events[s])
        visible == {q \in QuoteTimes :
                      setup.play_start - setup.warmup <= q /\ q <= through}
    IN  IF visible = {} THEN NoQuote ELSE Max(visible)

\* get_session succeeds for the owner, the session has a committed setup and
\* its play window has been entered.
Readable(s, p) ==
    /\ Exists(s)
    /\ sessions[s].principal = p
    /\ Materializes(s)
    /\ PinIdx(domain_events[s]) # {}
    /\ VisibleThrough(s) >= SetupOf(domain_events[s]).play_start

\* _resolve_reference refuses the order when no quote is visible.
Resolvable(s, p, reference) ==
    reference => Readable(s, p) /\ LastQuote(s, VisibleThrough(s)) # NoQuote

\* _prepare_order and the other _accept_payload callers.
Prepare(s, body, reference) ==
    [body |-> body, reference |-> reference,
     quote |-> IF reference THEN LastQuote(s, VisibleThrough(s)) ELSE NoQuote]

-----------------------------------------------------------------------------
IntakeInit ==
    /\ Init
    /\ commands = {}
    /\ calls = [c \in Client |-> NoCall]

\* submit_order, cancel_order, replace_order, set_leverage up to store.accept:
\* the payload is prepared outside the accept transaction. The quote is that of
\* the events get_session reads; of the row, which it reads before them, it only
\* takes what no later step changes (the owner, that there is a setup). The
\* step stands for the read of the events.
Submit(c, s, p, key, expected, body, reference) ==
    /\ calls[c] = NoCall
    /\ Resolvable(s, p, reference)
    /\ calls' = [calls EXCEPT ![c] =
          [session |-> s, principal |-> p, key |-> key, expected |-> expected,
           payload |-> Prepare(s, body, reference), answer |-> "PENDING",
           resulting |-> 0, resends |-> 0]]
    /\ UNCHANGED <<vars, commands>>

\* The client never saw the answer and repeats its request: same key, same
\* body, same expected version. The service prepares the payload again.
Resend(c) ==
    LET call == calls[c]
    IN  /\ call # NoCall
        /\ call.answer # "PENDING"
        /\ call.resends < MaxResends
        /\ Resolvable(call.session, call.principal, call.payload.reference)
        /\ calls' = [calls EXCEPT ![c] =
              [call EXCEPT !.answer = "PENDING", !.resulting = 0,
                 !.resends = @ + 1,
                 !.payload = Prepare(call.session, call.payload.body,
                                     call.payload.reference)]]
        /\ UNCHANGED <<vars, commands>>

\* The client has its answer and forgets the call.
Finish(c) ==
    /\ calls[c] # NoCall
    /\ calls[c].answer # "PENDING"
    /\ calls' = [calls EXCEPT ![c] = NoCall]
    /\ UNCHANGED <<vars, commands>>

Respond(c, answer, resulting) ==
    calls' = [calls EXCEPT ![c].answer = answer, ![c].resulting = resulting]

\* Mutation: the lookup compares the payload as well as the key.
Existing_samePayload(call) ==
    {d \in commands : d.session = call.session /\ d.key = call.key
                        /\ d.payload = call.payload}

Existing(call) == {d \in commands : d.session = call.session /\ d.key = call.key}

\* The locked session row is there and belongs to the caller.
Owned(call) ==
    /\ Exists(call.session)
    /\ sessions[call.session].principal = call.principal

SamePayload(d, call) == d.payload = call.payload

\* store.accept, the idempotency key is new: one new version, one new row.
AcceptNew(c) ==
    LET call == calls[c]
    IN  /\ Owned(call)
        /\ Existing(call) = {}
        /\ AcceptCommand(call.session, call.principal, call.expected)
        /\ commands' = commands \cup
              {[session |-> call.session, key |-> call.key,
                payload |-> call.payload,
                expected_session_version |-> call.expected]}
        /\ Respond(c, "ACCEPTED", call.expected + 1)

\* store.accept, the key was used: the original row answers an exact retry
\* whatever the session's status and version are by now.
AcceptReplay(c) ==
    /\ Owned(calls[c])
    /\ \E d \in Existing(calls[c]) :
          /\ SamePayload(d, calls[c])
          /\ Respond(c, "REPLAYED", d.expected_session_version + 1)
    /\ UNCHANGED <<vars, commands>>

AcceptConflict(c) ==
    /\ Owned(calls[c])
    /\ \E d \in Existing(calls[c]) : ~SamePayload(d, calls[c])
    /\ Respond(c, "IDEMPOTENCY_CONFLICT", 0)
    /\ UNCHANGED <<vars, commands>>

\* store.accept raises: unknown session, other principal, not running, stale
\* version, exhausted version.
AcceptReject(c) ==
    LET call == calls[c]
        row  == sessions[call.session]
    IN  /\ \/ ~Owned(call)
           \/ /\ Existing(call) = {}
              /\ \/ row.status # "RUNNING"
                 \/ row.version # call.expected
                 \/ call.expected + 1 > MaxVersion
        /\ Respond(c, "REJECTED", 0)
        /\ UNCHANGED <<vars, commands>>

Accept(c) ==
    /\ calls[c] # NoCall
    /\ calls[c].answer = "PENDING"
    /\ AcceptNew(c) \/ AcceptReplay(c) \/ AcceptConflict(c) \/ AcceptReject(c)

\* A client names the version it last saw, or (ClientLead) one it predicts.
\* A version older than the stored one adds nothing: accept() refuses it
\* unless the key was used before, which is what Resend produces.
ClientStep(c) ==
    \/ \E s \in SessionId, p \in Principal, key \in Key, body \in Body,
          reference \in BOOLEAN :
          \E expected \in sessions[s].version .. sessions[s].version + ClientLead :
             Submit(c, s, p, key, expected, body, reference)
    \/ Resend(c)
    \/ Finish(c)
    \/ Accept(c)

IntakeNext ==
    \/ LifecycleStep /\ UNCHANGED intakeVars
    \/ \E c \in Client : ClientStep(c)

IntakeSpec == IntakeInit /\ [][IntakeNext]_allVars

-----------------------------------------------------------------------------
(***************************************************************************)
(* Properties                                                              *)
(***************************************************************************)

Answered(c, answers) == calls[c] # NoCall /\ calls[c].answer \in answers

CommandVersions(s) ==
    {d.expected_session_version + 1 : d \in {e \in commands : e.session = s}}

EventVersions(s) ==
    {domain_events[s][i].cause : i \in DOMAIN domain_events[s]}

\* Every session version has exactly one cause: the lifecycle event or the
\* accepted command that produced it. No version is spent twice by concurrent
\* callers and none is lost, so the log and the commands table merge into one
\* order, which is how a result is replayed.
VersionsPartitioned ==
    \A s \in SessionId :
        /\ CommandVersions(s) \cup EventVersions(s) = 1..sessions[s].version
        /\ CommandVersions(s) \cap EventVersions(s) = {}
        /\ \A d, e \in commands :
              d.session = s /\ e.session = s
              /\ d.expected_session_version = e.expected_session_version => d = e

\* A key is bound to one command for the life of its session.
OneCommandPerKey ==
    \A d, e \in commands : d.session = e.session /\ d.key = e.key => d = e

\* "Accept one command exactly once or return an exact idempotent retry": an
\* answer that claims acceptance names a stored command with the very payload
\* the call carried, and the version that this command produced.
AnswersStored ==
    \A c \in Client : Answered(c, {"ACCEPTED", "REPLAYED"}) =>
            \E d \in Existing(calls[c]) :
                /\ d.payload = calls[c].payload
                /\ calls[c].resulting = d.expected_session_version + 1

\* The client's own words in a stored command and in a call: everything but the
\* quote, which the service adds.
SameRequest(d, call) ==
    /\ d.payload.body = call.payload.body
    /\ d.payload.reference = call.payload.reference

\* A conflict is answered to a different request under a used key, or to the
\* same request when its price reference resolves to another quote than the
\* one stored; never to a repeated request that names its own prices.
ConflictsExplained ==
    \A c \in Client : Answered(c, {"IDEMPOTENCY_CONFLICT"}) =>
        \E d \in Existing(calls[c]) :
            SameRequest(d, calls[c]) =>
                d.payload.reference /\ d.payload.quote # calls[c].payload.quote

\* Status the session had at version v, from the last lifecycle event up to v.
EventsUpTo(log, v) == {i \in DOMAIN log : log[i].cause <= v}
TypeAt(log, v) ==
    log[Max(EventsUpTo(log, v))].event_type

\* Every stored command was accepted while the replay was running: the last
\* lifecycle event before its version is a start or an advance, never a pause,
\* a completion or a bare commit.
AcceptedWhileRunning ==
    \A d \in commands :
        LET log == domain_events[d.session]
        IN  /\ EventsUpTo(log, d.expected_session_version) # {}
            /\ TypeAt(log, d.expected_session_version)
                  \in {"SESSION_STARTED", "SESSION_ADVANCED"}

\* The quote a price selector was resolved to is the one visible at the replay
\* frontier at which the command was accepted, although it is read in an
\* earlier transaction: the expected version fences it.
QuoteVisibleWhenAccepted ==
    \A d \in commands : d.payload.reference =>
        LET log  == domain_events[d.session]
            seen == FrontierAtVersion(log, d.expected_session_version)
            last == SetupOf(log).play_end - 1
        IN  d.payload.quote = LastQuote(d.session, IF seen < last THEN seen ELSE last)

\* Lifecycle events and accepted commands share one counter and use it up
\* without loss, overlap or a value past its last.
VersionsAccounted == IntakeTypeOK /\ VersionsPartitioned

\* A key is used up by one command. A call on a used key that claims acceptance
\* carries the stored payload and gets that command's version, first caller or
\* retry; a conflict means that the request is another one, or that the quote
\* its price reference is resolved to has moved (commands/service.py:333).
RetriesExact == OneCommandPerKey /\ AnswersStored /\ ConflictsExplained

\* "Repeated idempotency keys with identical payload return the original
\* result. Reuse with a different payload rejects." (docs/data-contracts.md:129):
\* a conflict is answered to a different request only. The service compares the
\* payload with the quote it has put in, so a client that repeats an order with
\* a price reference after an advance is told that its key was used for another
\* payload, and never gets the original result.
RepeatsReturnOriginal ==
    \A c \in Client : Answered(c, {"IDEMPOTENCY_CONFLICT"}) =>
        \A d \in Existing(calls[c]) : ~SameRequest(d, calls[c])

\* Whatever happened between the read of a quote and the accept transaction, a
\* stored command belongs to a running replay and to the quote it shows.
AcceptedInContext == AcceptedWhileRunning /\ QuoteVisibleWhenAccepted

=============================================================================
