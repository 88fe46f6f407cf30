----------------------------- MODULE MCSessions -----------------------------
(***************************************************************************)
(* A small instance of Sessions: requests for one window that bind the     *)
(* same ruleset id to different contents, each also with a tier that its   *)
(* ruleset does not allow.                                                 *)
(***************************************************************************)
EXTENDS Sessions, TLC

CONSTANTS m1, r1, h1, h2, F0, F1

Request(hash, tier) ==
    [manifest |-> m1, warmup |-> 0, play_start |-> 0, play_end |-> 2, ruleset_id |-> r1,
     ruleset_hash |-> hash, tier |-> tier, allowed_tiers |-> {F0}]

MCSetup == {Request(hash, tier) : hash \in RulesetHash, tier \in Tier}
MCCovering == [u \in MCSetup |-> Manifest]

\* Session ids are interchangeable in every property, and so are the contents.
Symmetry == Permutations(SessionId) \cup Permutations(RulesetHash)

=============================================================================
