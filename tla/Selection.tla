------------------------------ MODULE Selection ------------------------------
(***************************************************************************)
(* Selection from a sequence by a set, written as a recursive function so  *)
(* that what it selects can be proved as well as evaluated.                *)
(***************************************************************************)
LOCAL INSTANCE Naturals
LOCAL INSTANCE Sequences

\* The elements of s that lie in T, in their order.
SelectIn(s, T) ==
    LET kept[i \in 0 .. Len(s)] ==
            IF i = 0 THEN << >>
            ELSE IF s[i] \in T THEN Append(kept[i - 1], s[i]) ELSE kept[i - 1]
    IN  kept[Len(s)]

=============================================================================
