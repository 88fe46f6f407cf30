------------------------------ MODULE MCIngest ------------------------------
(***************************************************************************)
(* A small instance of Ingest: two chunks that meet in time, a provider    *)
(* whose answers differ: one cannot be normalized, one is too large.       *)
(***************************************************************************)
EXTENDS Ingest, TLC

CONSTANTS c1, c2, r1, r2, r3, r4

MCPlan == <<c1, c2>>
MCSize == (r1 :> 1) @@ (r2 :> 2) @@ (r3 :> 5) @@ (r4 :> 1)
MCCost == (c1 :> 1) @@ (c2 :> 2)

MCEvent == [ts: 0 .. 2, sequence: 0 .. 2, tie: {0}, from: {r1, r2, r3}]

\* Both chunks hold an event at time 2, and the later chunk one that precedes
\* all of the earlier; a response shows in the events it becomes.
MCNormalize(c, r) ==
    LET event(ts, sequence) == [ts |-> ts, sequence |-> sequence, tie |-> 0, from |-> r]
    IN  IF c = c1 THEN <<event(1, 1), event(2, 2)>> ELSE <<event(2, 1), event(0, 0)>>

=============================================================================
