-------------------------------- MODULE Sums --------------------------------
(***************************************************************************)
(* Sums, written so that what a sum does when one summand changes can be   *)
(* proved as well as evaluated: of natural numbers as the size of a set,   *)
(* of a sequence of integers as a recursive function of its prefixes.      *)
(***************************************************************************)
EXTENDS Integers, Sequences, FiniteSets

\* One unit for everything that is counted at x.
Units(f) == UNION {{x} \X (1 .. f[x]) : x \in DOMAIN f}

\* The sum of the values of f, natural numbers, over its finite domain.
Total(f) == Cardinality(Units(f))

\* The sum of a sequence of integers.
SumOf(s) ==
    LET sum[i \in 0 .. Len(s)] == IF i = 0 THEN 0 ELSE sum[i - 1] + s[i]
    IN  sum[Len(s)]

=============================================================================
