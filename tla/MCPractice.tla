----------------------------- MODULE MCPractice -----------------------------
(***************************************************************************)
(* A small instance of Practice: a path of four prices whose fall ruins a  *)
(* large long position and whose rise triggers stops, and requests for     *)
(* every intent, price mode and flag.                                      *)
(***************************************************************************)
EXTENDS Practice, TLC

Ask(intent, qty, mode) ==
    [intent |-> intent, qty |-> qty, mode |-> mode, stop |-> 0,
     reduceOnly |-> FALSE, makerOnly |-> FALSE, takerOnly |-> FALSE]

MCPrices == <<10, 12, 5, 9>>

MCRequest ==
    {Ask("BUY", q, "MARKET") : q \in {3, 6}}
    \cup {Ask(i, 3, "MARKET") : i \in {"SHORT", "COVER", "CLOSE", "REVERSE"}}
    \cup {Ask("BUY", 3, m) : m \in {"BID", "MID"}}
    \cup {Ask("SELL", 3, m) : m \in {"BID", "ASK"}}
    \cup {[Ask("SELL", 6, "MID") EXCEPT !.reduceOnly = TRUE],
          [Ask("BUY", 3, "ASK") EXCEPT !.makerOnly = TRUE],
          [Ask("BUY", 3, "BID") EXCEPT !.takerOnly = TRUE],
          [Ask("SELL", 6, "STOP") EXCEPT !.stop = 9, !.reduceOnly = TRUE],
          [Ask("BUY", 3, "STOP") EXCEPT !.stop = 11]}

=============================================================================
