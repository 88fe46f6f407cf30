----------------------------- MODULE Canonical -----------------------------
(***************************************************************************)
(* The order of canonical market events (workers/ingest/.../core/writer.py)*)
(* which every dataset is written in, whatever order it was fetched in.    *)
(***************************************************************************)
EXTENDS Integers, Sequences, SequencesExt, FiniteSets

\* An event without a source_sequence, which sorts as sequence 0.
NoSequence == -1
SourceSequence(e) == IF e.sequence = NoSequence THEN 0 ELSE e.sequence

\* _event_sort_key: event time, source sequence, tie breaker.
KeyBefore(a, b) ==
    LET x == SourceSequence(a)
        y == SourceSequence(b)
    IN  \/ a.ts < b.ts
        \/ a.ts = b.ts /\ x < y
        \/ a.ts = b.ts /\ x = y /\ a.tie < b.tie

\* Mutation: events stay in the order in which they were normalized.
Ordered_asFetched(events) == events

\* list.sort(key=_event_sort_key), which is stable.
Ordered(events) ==
    LET Before(i, j) == \/ KeyBefore(events[i], events[j])
                        \/ ~KeyBefore(events[j], events[i]) /\ i < j
        rank(i) == Cardinality({j \in DOMAIN events : Before(j, i)})
    IN  [k \in DOMAIN events |-> events[CHOOSE i \in DOMAIN events : rank(i) = k - 1]]

=============================================================================
