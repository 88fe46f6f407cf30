------------------------------ MODULE Sorting ------------------------------
(***************************************************************************)
(* Stable sorts, as Python's sorted() and Rust's sort() are, written so    *)
(* that they can be reasoned about: every element goes to the place that   *)
(* the number of those before it gives.                                    *)
(***************************************************************************)
EXTENDS Integers, Sequences, FiniteSets

\* seq in the order of `less`, the pairs of places whose elements are in order;
\* elements that it does not tell apart stay as they were.
Sorted(seq, less) ==
    LET Before(k, l) == <<k, l>> \in less \/ (<<l, k>> \notin less /\ k < l)
        rank(k) == Cardinality({l \in DOMAIN seq : Before(l, k)})
    IN  [n \in DOMAIN seq |-> seq[CHOOSE k \in DOMAIN seq : rank(k) = n - 1]]

\* The integers of a finite set in their order: every one goes to the place
\* that the number of smaller ones gives.
Ascending(S) ==
    [n \in 1 .. Cardinality(S) |-> CHOOSE x \in S : Cardinality({y \in S : y < x}) = n - 1]

\* The elements of a finite set, each at the place that the number of those
\* ahead of it gives.
InOrder(S, ahead) ==
    [n \in 1 .. Cardinality(S) |-> CHOOSE x \in S : Cardinality(ahead[x]) = n - 1]

=============================================================================
