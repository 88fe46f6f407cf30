------------------------------ MODULE Verifier ------------------------------
(***************************************************************************)
(* The offline verifier (crates/sim-cli) as operators on a proof bundle,   *)
(* with the kernel (crates/sim-core/src/kernel) it replays the inputs in.  *)
(* It shares no code with the Python service that writes the bundles: what *)
(* each of them digests, and in which order, is written out in both.       *)
(*                                                                         *)
(* A digest stands for what was digested. Texts are numbers ordered as the *)
(* texts are.                                                              *)
(***************************************************************************)
EXTENDS Integers, Sequences, Sums, Sorting

ZeroHash == <<"zero">>

\* Kernel::new
PristineKernel ==
    [next_input_seq |-> 0, next_event_seq |-> 0, state_version |-> 0,
     current_event_hash |-> ZeroHash, events |-> <<>>, ok |-> TRUE]

\* Kernel::apply: nothing changes when the input does not continue the state.
Apply(kernel, input) ==
    IF /\ kernel.ok
       /\ input.input_seq = kernel.next_input_seq
       /\ input.expected_state_version = kernel.state_version
    THEN LET version == kernel.state_version + 1
             digest == <<"event", kernel.current_event_hash, kernel.next_event_seq,
                         version, input.logical_ts, input.kind, input.payload, input>>
         IN  [next_input_seq |-> kernel.next_input_seq + 1,
              next_event_seq |-> kernel.next_event_seq + 1,
              state_version |-> version,
              current_event_hash |-> digest,
              events |-> Append(kernel.events,
                            [event_seq |-> kernel.next_event_seq, state_version |-> version,
                             logical_ts |-> input.logical_ts, kind |-> input.kind,
                             payload_hash |-> input.payload,
                             prior_event_hash |-> kernel.current_event_hash,
                             current_event_hash |-> digest]),
              ok |-> TRUE]
    ELSE [kernel EXCEPT !.ok = FALSE]

Replayed(inputs) ==
    LET kernel[i \in 0 .. Len(inputs)] ==
            IF i = 0 THEN PristineKernel ELSE Apply(kernel[i - 1], inputs[i])
    IN  kernel[Len(inputs)]

\* replay_kernel: the declared events are the ones the kernel reproduces.
ReplaysKernel(proof) ==
    /\ Len(proof.inputs) = Len(proof.kernel_events)
    /\ \A i \in DOMAIN proof.inputs : proof.inputs[i].session = proof.session
    /\ Replayed(proof.inputs).ok
    /\ Replayed(proof.inputs).events = proof.kernel_events

\* verify_state_hashes
StateHashesHold(proof) ==
    /\ \A i, j \in DOMAIN proof.state_hashes :
          i < j => proof.state_hashes[i].event_seq < proof.state_hashes[j].event_seq
    /\ proof.state_hashes_hash = <<"states", proof.state_hashes>>

\* The derived order of LedgerPosting: field by field as they are declared.
PostingLess(a, b) ==
    \/ a.account < b.account
    \/ a.account = b.account /\ a.amount < b.amount
    \/ a.account = b.account /\ a.amount = b.amount /\ a.currency < b.currency

\* ledger_commitment
LedgerDigest(transactions) ==
    <<"ledger", [i \in DOMAIN transactions |->
        LET postings == transactions[i].postings
            places == DOMAIN postings
            sorted == Sorted(postings, {kl \in places \X places :
                                           PostingLess(postings[kl[1]], postings[kl[2]])})
        IN  <<transactions[i].event_seq, transactions[i].id,
              [k \in places |-> <<sorted[k].currency, sorted[k].account, sorted[k].amount>>]>>]>>

\* The total of one currency over some postings.
CurrencyTotal(postings, currency) ==
    SumOf([k \in DOMAIN postings |->
              IF postings[k].currency = currency THEN postings[k].amount ELSE 0])

\* verify_ledger
LedgerHolds(proof) ==
    LET ledger == proof.ledger_transactions
    IN  /\ \A i \in DOMAIN ledger :
              /\ Len(ledger[i].postings) >= 2
              /\ \A k \in DOMAIN ledger[i].postings :
                    CurrencyTotal(ledger[i].postings, ledger[i].postings[k].currency) = 0
              /\ \A j \in DOMAIN ledger : i < j =>
                    /\ ledger[i].id # ledger[j].id
                    /\ ledger[i].event_seq <= ledger[j].event_seq
        /\ proof.ledger_hash = LedgerDigest(ledger)

\* verify_bundle
Accepts(proof) ==
    /\ proof.manifest_set_hash = <<"manifests", proof.manifest_hashes>>
    /\ ReplaysKernel(proof)
    /\ StateHashesHold(proof)
    /\ LedgerHolds(proof)
    /\ proof.result_hash =
          <<"result", proof.session, proof.manifest_set_hash,
            Replayed(proof.inputs).current_event_hash, proof.state_hashes_hash,
            proof.ledger_hash, proof.metrics>>

=============================================================================
