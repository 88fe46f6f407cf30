----------------------------- MODULE MCResults -----------------------------
(***************************************************************************)
(* A small instance of Results: one session that two setups compete for,   *)
(* two prepares and two finalizations in flight, an HMAC space of five     *)
(* values over lists of two episodes, evidence good and bad.               *)
(***************************************************************************)
EXTENDS Results, TLC

CONSTANTS s1, m1, r1, h1, F0, f1, f2

Request(end) == [manifest |-> m1, warmup |-> 0, play_start |-> 0, play_end |-> end,
                 ruleset_id |-> r1, ruleset_hash |-> h1, tier |-> F0,
                 allowed_tiers |-> {F0}]

MCSetup == {Request(1), Request(2)}
MCCovering == [u \in MCSetup |-> {m1}]

Listed(id, start) == [episode_id |-> id, manifest |-> m1, play_start |-> start,
                      play_end |-> start + 1]

\* One list in order, one out of order.
MCEpisodeList == {<<Listed(1, 0), Listed(2, 1)>>, <<Listed(2, 1), Listed(1, 0)>>}

\* Secret 4 is rejected at counter 0 and draws again.
MCHmac(secret, message, counter) == (secret + counter) % 5

Input(seq, version) == [session |-> s1, input_seq |-> seq, expected_state_version |-> version,
                        logical_ts |-> 0, kind |-> "command", payload |-> seq]

Posting(account, amount, currency) ==
    [account |-> account, amount |-> amount, currency |-> currency]

\* Two currencies, so that the three sort fields disagree on the order.
Fill == <<Posting(2, 5, 1), Posting(1, -5, 1), Posting(1, 3, 2), Posting(2, -3, 2)>>

Good == [inputs |-> <<Input(0, 0), Input(1, 1)>>,
         states |-> <<[event_seq |-> 0, hash |-> "a"], [event_seq |-> 1, hash |-> "b"]>>,
         ledger |-> <<[event_seq |-> 1, id |-> 1, postings |-> Fill]>>,
         metrics |-> "metrics"]

\* Other valid evidence, and evidence that is wrong in one place: a version that does not follow, a
\* transaction that balances only across its currencies.
MCTrace == {Good,
            [Good EXCEPT !.metrics = "others"],
            [Good EXCEPT !.inputs = <<Input(0, 0), Input(1, 0)>>],
            [Good EXCEPT !.ledger[1].postings = <<Posting(1, 5, 1), Posting(2, -5, 2)>>]}

\* Finalizers and commitment ids are interchangeable.
Symmetry == Permutations(Finalizer) \cup Permutations(CommitmentId)

=============================================================================
