--------------------------- MODULE MCCommandIntake ---------------------------
(***************************************************************************)
(* A small instance of CommandIntake: one session with a quote before its  *)
(* play window and another inside it, so that an advance changes the quote *)
(* a price selector resolves to.                                           *)
(***************************************************************************)
EXTENDS CommandIntake, TLC

CONSTANTS m1, r1, h1, F0

setup == [manifest |-> m1, warmup |-> 1, play_start |-> 1, play_end |-> 3,
          ruleset_id |-> r1, ruleset_hash |-> h1, tier |-> F0, allowed_tiers |-> {F0}]

MCSetup == {setup}
MCCovering == [u \in MCSetup |-> {m1}]
MCQuoteTimes == {0, 2, 3}

\* Clients and keys are interchangeable.
Symmetry == Permutations(Client) \cup Permutations(Key)

=============================================================================
