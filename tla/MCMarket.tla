------------------------------ MODULE MCMarket ------------------------------
(***************************************************************************)
(* A small instance of Market: one session over three instants, a tape     *)
(* with ties, a print at the end of the window and one beyond, and clients *)
(* of two principals that differ in channel, limit and offset but share    *)
(* the cache.                                                              *)
(***************************************************************************)
EXTENDS Market, TLC

CONSTANTS s1, p1, p2, m1, r1, h1, F0, a, b, c, d

setup == [manifest |-> m1, warmup |-> 0, play_start |-> 1, play_end |-> 4,
          ruleset_id |-> r1, ruleset_hash |-> h1, tier |-> F0, allowed_tiers |-> {F0}]

MCSetup == {setup}
MCCovering == [u \in MCSetup |-> {m1}]

Tick(sequence, ts, price) == [sequence |-> sequence, ts |-> ts, price |-> price, quantity |-> sequence]

MCSource == [TRADES |-> <<Tick(1, 0, 9), Tick(2, 1, 5), Tick(4, 1, 7), Tick(5, 2, 4),
                          Tick(6, 3, 8), Tick(8, 3, 6), Tick(9, 4, 1)>>,
             BBO    |-> <<Tick(1, 2, 5), Tick(2, 4, 3)>>]

Ask(p, channel, offset, limit, interval) ==
    [session |-> s1, principal |-> p, channel |-> channel, offset |-> offset,
     limit |-> limit, interval |-> interval]

MCQuery == (a :> Ask(p1, "TRADES", 0, 2, 1)) @@ (b :> Ask(p1, "TRADES", 0, 1, 1))
           @@ (c :> Ask(p1, "CANDLES", 0, 1, 2)) @@ (d :> Ask(p2, "BBO", 1, 2, 1))

=============================================================================
