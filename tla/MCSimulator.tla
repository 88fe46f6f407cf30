---------------------------- MODULE MCSimulator -----------------------------
(***************************************************************************)
(* A session that starts long two: the requests are those the rules tell   *)
(* apart, the market moves over four prices and through each limit, and    *)
(* the venue's feed deletes a level and then crosses its own book, which   *)
(* the session sees unless its sweeps have emptied that level before.      *)
(***************************************************************************)
EXTENDS Simulator

Prices == 1 .. 4
Nowhere == 0
Never == -1

Kind(stop, limit) == [stop |-> stop, limit |-> limit]

Plain(side, quantity, kind, tif) ==
    [side |-> side, quantity |-> quantity, kind |-> kind, tif |-> tif,
     reduce_only |-> FALSE, post_only |-> FALSE, marketable_only |-> FALSE]

Requests ==
    { Plain("SELL", 2, Kind(Nowhere, Nowhere), "IOC"),
      Plain("BUY", 2, Kind(3, Nowhere), "FOK"),
      [Plain("BUY", 2, Kind(Nowhere, 3), "GTC") EXCEPT !.marketable_only = TRUE],
      [Plain("BUY", 2, Kind(3, 2), "GTC") EXCEPT !.post_only = TRUE],
      [Plain("SELL", 2, Kind(Nowhere, 3), "GTC") EXCEPT !.reduce_only = TRUE],
      [Plain("SELL", 1, Kind(2, Nowhere), "GTC") EXCEPT !.reduce_only = TRUE] }

Replacements ==
    { [quantity |-> 1, kind |-> Kind(Nowhere, 2)],
      [quantity |-> 3, kind |-> Kind(3, Nowhere)] }

Quotes ==
    { [bid |-> 1, ask |-> 2, bid_size |-> 1, ask_size |-> 2],
      [bid |-> 3, ask |-> 4, bid_size |-> 2, ask_size |-> 1] }

Bars ==
    { [open |-> 2, high |-> 3, low |-> 1],
      [open |-> 4, high |-> 4, low |-> 2],
      [open |-> 1, high |-> 1, low |-> 1] }

Trades ==
    { [price |-> 2, quantity |-> 1], [price |-> 3, quantity |-> 2] }

FirstBook == [bids |-> [p \in Prices |-> IF p = 1 THEN 2 ELSE 0],
              asks |-> [p \in Prices |-> IF p = 3 THEN 1 ELSE IF p = 4 THEN 2 ELSE 0]]

VenueFeed ==
    << [side |-> "BID", price |-> 1, quantity |-> 0],
       [side |-> "BID", price |-> 3, quantity |-> 1] >>

=============================================================================
