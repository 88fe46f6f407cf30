------------------------- MODULE MCReplayCoordinator -------------------------
(***************************************************************************)
(* A small instance of ReplayCoordinator. Three partitions: one with an    *)
(* item in the warm-up and two at the instant that ends the window, one    *)
(* with a sequence gap before that instant, and one whose first item lies  *)
(* after the start of the window.                                          *)
(***************************************************************************)
EXTENDS ReplayCoordinator

CONSTANTS whole, gapped, late, r1, h1, F0

Request(m) ==
    [manifest |-> m, warmup |-> 1, play_start |-> 1, play_end |-> 2,
     ruleset_id |-> r1, ruleset_hash |-> h1, tier |-> F0, allowed_tiers |-> {F0}]

At(seq, ts) == [seq |-> seq, ts |-> ts]

MCSource == [m \in Manifest |->
    CASE m = whole  -> << At(0, 0), At(1, 2), At(2, 2) >>
      [] m = gapped -> << At(0, 0), At(2, 2) >>
      [] m = late   -> << At(0, 2) >>]

MCSetup == {Request(m) : m \in Manifest}
MCCovering == [u \in MCSetup |-> {u.manifest}]

=============================================================================
