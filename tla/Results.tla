------------------------------ MODULE Results ------------------------------
(***************************************************************************)
(* ResultService and ResultStore (apps/api/.../results): a completed       *)
(* session is frozen into one bundle and one offline proof. finalize reads *)
(* the session, the authoritative rows and the stored result in three      *)
(* transactions; the last one looks for a stored result and inserts        *)
(* without a lock, so they are four steps beside the lifecycle of          *)
(* Sessions, the accepted commands and the draws of Commitments.           *)
(***************************************************************************)
EXTENDS Commitments, Sums, Sorting

CONSTANTS
    Finalizer,          \* concurrent callers of finalize
    Trace,              \* simulator evidence: inputs, state hashes, ledger, metrics
    NoResult, NoFinalize

VARIABLES
    commands,           \* table commands: session and version each was accepted at
    result_bundles,     \* table result_bundles: session -> export, or NoResult
    finalizes           \* the finalize call of every caller, or its answer

resultVars == <<commands, result_bundles, finalizes>>
allVars == <<vars, commitmentVars, resultVars>>

Verify == INSTANCE Verifier

\* The evidence of a caller, as its dataclasses admit it.
CanonicalInput ==
    [session: SessionId, input_seq: Nat, expected_state_version: Nat, logical_ts: Int,
     kind: STRING, payload: Int]

StateHash == [event_seq: Nat, hash: STRING]

LedgerTransaction ==
    [event_seq: Nat, id: Int, postings: Seq([account: Int, amount: Int, currency: Int])]

ASSUME TraceAssumption ==
    \A trace \in Trace :
        /\ trace.inputs \in Seq(CanonicalInput)
        /\ trace.states \in Seq(StateHash)
        /\ trace.ledger \in Seq(LedgerTransaction)

-----------------------------------------------------------------------------
\* Mutation: a running session can be finalized.
Completed_anyStatus(s, p) == Exists(s) /\ sessions[s].principal = p /\ PinIdx(domain_events[s]) # {}

\* _completed_session, on a session that SessionService can materialize.
Completed(s, p) == Owns(s, p, "COMPLETED") /\ Materializes(s)

\* _domain_events verifies the stored chain again.
ChainHolds(log) ==
    \A i, j \in DOMAIN log : j = i + 1 =>
        /\ log[i].event_seq < log[j].event_seq
        /\ log[j].prior_hash = log[i].current_hash

CommandsOf(s) == {d \in commands : d.session = s}

\* _commands: every stored command, once each, in the order of the arrivals.
ArrivalsMatch(s, arrivals) ==
    /\ ToSet(arrivals) = CommandsOf(s)
    /\ Len(arrivals) = Cardinality(CommandsOf(s))

RowOf(s) == {id \in CommitmentId : commitments[id] # NoCommitment /\ commitments[id].session = s}

\* _commitment_exports on one row: revealed, readable as unsigned numbers, and
\* verified against the pinned setup and the list in the evidence.
DrawExportable(row, u, episodes) ==
    /\ row.revealed # NoSecret
    /\ row.selected.play_start >= 0
    /\ row.selected.play_end >= 0
    /\ Verifies(SelectionSetup(u), episodes, row)

\* _kernel_events: the chain the service computes on its own.
KernelEvents(inputs) ==
    LET hash[i \in 0..Len(inputs)] ==
            IF i = 0 THEN <<"zero">>
            ELSE <<"event", hash[i - 1], i - 1, i, inputs[i].logical_ts,
                   inputs[i].kind, inputs[i].payload, inputs[i]>>
    IN  [final |-> hash[Len(inputs)],
         events |-> [i \in DOMAIN inputs |->
            [event_seq |-> i - 1, state_version |-> i, logical_ts |-> inputs[i].logical_ts,
             kind |-> inputs[i].kind, payload_hash |-> inputs[i].payload,
             prior_event_hash |-> hash[i - 1], current_event_hash |-> hash[i]]]]

InputsContiguous(s, inputs) ==
    \A i \in DOMAIN inputs :
        /\ inputs[i].session = s
        /\ inputs[i].input_seq = i - 1
        /\ inputs[i].expected_state_version = i - 1

\* _require_balanced
Balanced(postings) ==
    \A currency \in {postings[k].currency : k \in DOMAIN postings} :
        SumOf([k \in DOMAIN postings |->
                  IF postings[k].currency = currency THEN postings[k].amount ELSE 0]) = 0

\* The checks of _state_hash_commitment and _ledger_commitment. That a
\* transaction has two postings is checked where the evidence is built.
TraceHolds(s, trace) ==
    LET ledger == trace.ledger
    IN  /\ InputsContiguous(s, trace.inputs)
        /\ \A i, j \in DOMAIN trace.states :
              i < j => trace.states[i].event_seq < trace.states[j].event_seq
        /\ \A i \in DOMAIN ledger : Len(ledger[i].postings) >= 2 /\ Balanced(ledger[i].postings)
        /\ \A i, j \in DOMAIN ledger : i < j =>
              ledger[i].id # ledger[j].id /\ ledger[i].event_seq <= ledger[j].event_seq

\* Mutation: postings are sorted by the fields in the order they are written.
PostingKey_written(posting) == <<posting.currency, posting.account, posting.amount>>

\* The sort key of _ledger_commitment.
PostingKey(posting) == <<posting.account, posting.amount, posting.currency>>

KeyLess(a, b) == \E i \in 1..3 : a[i] < b[i] /\ \A j \in 1 .. i - 1 : a[j] = b[j]

\* _ledger_commitment
LedgerCommitment(ledger) ==
    <<"ledger", [i \in DOMAIN ledger |->
        LET postings == ledger[i].postings
            places == DOMAIN postings
            sorted == Sorted(postings, {kl \in places \X places :
                          KeyLess(PostingKey(postings[kl[1]]), PostingKey(postings[kl[2]]))})
        IN  <<ledger[i].event_seq, ledger[i].id,
              [k \in places |-> <<sorted[k].currency, sorted[k].account, sorted[k].amount>>]>>]>>

\* _proof
Proof(s, manifest, trace) ==
    LET kernel    == KernelEvents(trace.inputs)
        manifests == <<"manifests", <<manifest>>>>
        states    == <<"states", trace.states>>
        ledger    == LedgerCommitment(trace.ledger)
    IN  [session |-> s, manifest_hashes |-> <<manifest>>, manifest_set_hash |-> manifests,
         inputs |-> trace.inputs, kernel_events |-> kernel.events,
         state_hashes |-> trace.states, state_hashes_hash |-> states,
         ledger_transactions |-> trace.ledger, ledger_hash |-> ledger,
         metrics |-> trace.metrics,
         result_hash |-> <<"result", s, manifests, kernel.final, states, ledger,
                           trace.metrics>>]

\* The export of finalize; its hash stands for itself and leaves out who
\* finalized and when.
Export(s, u, evidence) ==
    [session |-> s, setup |-> u, ruleset |-> rulesets[u.ruleset_id],
     commitments |-> {commitments[id].commitment_hash : id \in RowOf(s)},
     revealed_nonces |-> {commitments[id].nonce : id \in RowOf(s)},
     commands |-> evidence.arrivals, domain_events |-> domain_events[s],
     proof |-> Proof(s, u.manifest, evidence.trace)]

\* Everything finalize validates between the read of the rows and the freeze.
Exportable(s, u, evidence) ==
    /\ rulesets[u.ruleset_id] = u.ruleset_hash
    /\ ArrivalsMatch(s, evidence.arrivals)
    /\ ChainHolds(domain_events[s])
    /\ \A id \in RowOf(s) : DrawExportable(commitments[id], u, evidence.episodes)
    /\ TraceHolds(s, evidence.trace)

\* A row of table commands, an export, and a finalize call with what it holds.
Command == [session: SessionId, expected: 0..MaxVersion]

Result ==
    [session: SessionId, setup: Setup, ruleset: RulesetHash,
     commitments: SUBSET CommitmentHashes, revealed_nonces: SUBSET Nonce,
     commands: Seq(Command), domain_events: Seq(Event),
     proof: {Proof(s, m, t) : s \in SessionId, m \in Manifest, t \in Trace}]

FinalizeCall ==
    [stage: {"rows", "lookup", "insert", "answered", "refused"}, session: SessionId,
     setup: Setup, answer: Result \cup {NoResult}]

ASSUME NoResultAssumption == NoResult \notin Result

-----------------------------------------------------------------------------
ResultsInit ==
    /\ CommitmentsInit
    /\ commands = {}
    /\ result_bundles = [s \in SessionId |-> NoResult]
    /\ finalizes = [f \in Finalizer |-> NoFinalize]

\* CommandStore.accept as the export sees it: a row and a version.
Accept(s, p) ==
    /\ AcceptCommand(s, p, sessions[s].version)
    /\ commands' = commands \cup {[session |-> s, expected |-> sessions[s].version]}
    /\ UNCHANGED <<commitmentVars, result_bundles, finalizes>>

Move(f, call) ==
    /\ finalizes' = [finalizes EXCEPT ![f] = call]
    /\ UNCHANGED <<vars, commitmentVars, commands, result_bundles>>

\* finalize: the session is read; the setup it pinned is kept.
FinalizeSession(f, s, p) ==
    /\ finalizes[f] = NoFinalize
    /\ Completed(s, p)
    /\ Move(f, [stage |-> "rows", session |-> s, setup |-> SetupOf(domain_events[s]),
                answer |-> NoResult])

\* finalize: ResultStore.authoritative and everything computed from it and from
\* the evidence of the call, which is first looked at here.
FinalizeRows(f, evidence) ==
    LET call == finalizes[f]
    IN  /\ call.stage = "rows"
        /\ Move(f, IF Exportable(call.session, call.setup, evidence)
                   THEN [call EXCEPT !.stage = "lookup",
                            !.answer = Export(call.session, call.setup, evidence)]
                   ELSE [call EXCEPT !.stage = "refused"])

\* Mutation: whatever is stored, the caller is answered with its own export.
Replay_own(call) == [call EXCEPT !.stage = "answered"]

\* freeze on a session that has a result: the stored one, or RESULT_CONFLICT.
Replay(call) ==
    IF result_bundles[call.session] = call.answer
    THEN [call EXCEPT !.stage = "answered", !.answer = result_bundles[call.session]]
    ELSE [call EXCEPT !.stage = "refused", !.answer = NoResult]

\* freeze: the lookup of an existing result.
FreezeLookup(f) ==
    LET call == finalizes[f]
    IN  /\ call.stage = "lookup"
        /\ Move(f, IF result_bundles[call.session] = NoResult
                   THEN [call EXCEPT !.stage = "insert"]
                   ELSE Replay(call))

\* Mutation: the session is no primary key and the later insert is the one read.
Inserts_always(s) == TRUE

\* The primary key of result_bundles.
Inserts(s) == result_bundles[s] = NoResult

\* freeze: the INSERT, or DATABASE_CONFLICT.
FreezeInsert(f) ==
    LET call == finalizes[f]
        s    == call.session
    IN  /\ call.stage = "insert"
        /\ finalizes' = [finalizes EXCEPT ![f] =
              IF Inserts(s) THEN [call EXCEPT !.stage = "answered"]
                            ELSE [call EXCEPT !.stage = "refused", !.answer = NoResult]]
        /\ result_bundles' = IF Inserts(s) THEN [result_bundles EXCEPT ![s] = call.answer]
                                           ELSE result_bundles
        /\ UNCHANGED <<vars, commitmentVars, commands>>

\* The caller took the answer or the error.
Return(f) ==
    /\ finalizes[f].stage \in {"answered", "refused"}
    /\ Move(f, NoFinalize)

\* Evidence a caller may bring: the commands it knows of in some order, some
\* list, some trace.
Evidence(s) ==
    [arrivals: SetToSeqs(CommandsOf(s)) \cup {<<>>},
     episodes: EpisodeList, trace: Trace]

FinalizeStep(f) ==
    \/ \E s \in SessionId, p \in Principal : FinalizeSession(f, s, p)
    \/ /\ finalizes[f] # NoFinalize
       /\ \/ \E evidence \in Evidence(finalizes[f].session) : FinalizeRows(f, evidence)
          \/ FreezeLookup(f)
          \/ FreezeInsert(f)
          \/ Return(f)

\* Sessions covers what is left out here: a catalogue that changes, and a
\* commit() of a session that is pinned, which is refused.
ResultsNext ==
    \/ /\ \E s \in SessionId : sessions[s].status = "SETUP"
       /\ CommitStep
       /\ UNCHANGED <<commitmentVars, resultVars>>
    \/ /\ \E s \in SessionId, p \in Principal : OwnerStep(s, p)
       /\ UNCHANGED <<commitmentVars, resultVars>>
    \/ CommitmentStep /\ UNCHANGED resultVars
    \/ \E s \in SessionId, p \in Principal : Accept(s, p)
    \/ \E f \in Finalizer : FinalizeStep(f)

ResultsSpec == ResultsInit /\ [][ResultsNext]_allVars

-----------------------------------------------------------------------------
(***************************************************************************)
(* Properties                                                              *)
(***************************************************************************)

Bundles == {result_bundles[s] : s \in SessionId} \ {NoResult}

ResultsTypeOK ==
    /\ TypeOK
    /\ Rows \subseteq Draw
    /\ prepares \subseteq [id: CommitmentId, row: Draw]
    /\ Bundles \subseteq Result
    /\ \A b \in Bundles : result_bundles[b.session] = b
    /\ commands \subseteq Command
    /\ \A d \in commands : d.expected < sessions[d.session].version
    /\ finalizes \in [Finalizer -> FinalizeCall \cup {NoFinalize}]

\* A frozen result stays complete: the log, the commands and the ruleset it
\* shows are the ones the session has now, although finalize read them in an
\* earlier transaction and froze them in a later one.
ResultCoversReplay ==
    \A b \in Bundles :
        /\ b.domain_events = domain_events[b.session]
        /\ ToSet(b.commands) = CommandsOf(b.session)
        /\ b.setup = SetupOf(domain_events[b.session])
        /\ b.ruleset = b.setup.ruleset_hash

\* "Persist once": whoever is answered, first caller or retry, however the
\* calls were interleaved, is answered with the result that is stored, and a
\* stored result never changes.
AnswersFrozen ==
    \A f \in Finalizer : finalizes[f] # NoFinalize /\ finalizes[f].stage = "answered" =>
        finalizes[f].answer = result_bundles[finalizes[f].session]

WriteOnceStep ==
    \A s \in SessionId :
        result_bundles[s] # NoResult => result_bundles'[s] = result_bundles[s]

WriteOnce == [][WriteOnceStep]_allVars

\* What the bundle publishes of a draw was drawn for this setup: the hash the
\* player was given before the session was pinned opens, with a secret that is
\* out, to the selection fields of the setup pinned later.
DrawsProven ==
    \A b \in Bundles : \A hash \in b.commitments :
        \E id \in CommitmentId :
            /\ commitments[id] # NoCommitment
            /\ commitments[id].session = b.session
            /\ commitments[id].revealed # NoSecret
            /\ hash = CommitmentHash(commitments[id].revealed, SelectionSetup(b.setup),
                                     commitments[id].eligible_set_hash, commitments[id].nonce)

\* Every proof the Python service freezes is accepted by the Rust verifier:
\* same kernel chain, same sort of the postings, same commitments, and no
\* evidence that one of them lets through and the other refuses.
VerifierAccepts == \A b \in Bundles : Verify!Accepts(b.proof)

\* A session has one draw, no place of its list is likelier than another, and
\* its secret stays with the server until the session has no future left.
DrawsSealed == ResultsTypeOK /\ OneDrawPerSession /\ DrawUnbiased /\ SecretsSealedUntilEnd

\* A frozen result shows the whole replay of its session and draws that were
\* made for its setup, and is what every caller of finalize is answered with.
ResultFaithful == ResultCoversReplay /\ DrawsProven /\ AnswersFrozen

=============================================================================
