---------------------------- MODULE MCEventStore ----------------------------
(***************************************************************************)
(* A small instance of EventStore: one committed session, two writers that *)
(* may share an idempotency key, batches of up to two events.              *)
(***************************************************************************)
EXTENDS EventStore, TLC

CONSTANTS m1, r1, h1, F0

setup == [manifest |-> m1, warmup |-> 0, play_start |-> 0, play_end |-> 1,
          ruleset_id |-> r1, ruleset_hash |-> h1, tier |-> F0,
          allowed_tiers |-> {F0}]

MCSetup == {setup}
MCCovering == [u \in MCSetup |-> {m1}]

\* Writers, keys and payload hashes are interchangeable.
Symmetry ==
    Permutations(Writer) \cup Permutations(Key) \cup Permutations(PayloadHash)

=============================================================================
