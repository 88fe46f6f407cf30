------------------------------ MODULE Quality -------------------------------
(***************************************************************************)
(* validate_events (workers/ingest/.../quality): one pass over a stream of *)
(* canonical events that decides the immutable status of a dataset. The    *)
(* issues are a set: which event shows which fault. An event's malformed   *)
(* field names its part that is not in canonical wire form, if any.        *)
(***************************************************************************)
EXTENDS Integers, Sequences, SequencesExt, FiniteSetsExt

CONSTANTS
    Tick,           \* QualityPolicy.tick_size_atoms
    Increment,      \* QualityPolicy.qty_increment_atoms
    MaxGap,         \* QualityPolicy.max_gap_ns
    MaxStaleness    \* QualityPolicy.max_quote_staleness_ns

ASSUME PolicyAssumption ==
    /\ {Tick, Increment} \subseteq Nat \ {0}
    /\ {MaxGap, MaxStaleness} \subseteq Nat

Unset == -1         \* None; times and sequences are never negative here
MalformedPart == {"none", "timestamp", "sequence", "payload", "integer", "levels"}
BookKind == {"BOOK_SNAPSHOT_L2", "BOOK_DELTA_L2"}

Degrading == {"DUPLICATE", "TIME_GAP", "SOURCE_SEQUENCE_GAP", "CROSSED_BBO",
              "STALE_QUOTE_INTERVAL"}

Issue(code, i) == [code |-> code, index |-> i]
When(condition, code, i) == IF condition THEN {Issue(code, i)} ELSE {}

-----------------------------------------------------------------------------
Prices(levels, side) == {l.price : l \in {x \in levels : x.side = side}}
Crossed(levels) ==
    /\ Prices(levels, "BUY") # {} /\ Prices(levels, "SELL") # {}
    /\ Max(Prices(levels, "BUY")) >= Min(Prices(levels, "SELL"))

\* The sides of a snapshot cannot be read: no array, or no integer in it. In a
\* quote, "integer" is a price that is there beside the other and is none.
Unreadable(e) == e.malformed \in {"integer", "levels"}

\* _increment_issues
IncrementIssues(e, i) ==
    When(e.malformed = "integer", "INVALID_INTEGER", i)
    \cup When(\E l \in e.levels : l.price % Tick # 0, "PRICE_INCREMENT", i)
    \cup When(\E l \in e.levels : l.qty % Increment # 0, "QUANTITY_INCREMENT", i)

\* Mutation: the stream is taken to continue a book that is already known.
Blank_ready ==
    [issues |-> {}, seen |-> {}, minimum |-> Unset, maximum |-> Unset,
     prior_ts |-> Unset, prior_sequence |-> Unset, prior_quote_ts |-> Unset,
     book_ready |-> TRUE]

Blank == [issues |-> {}, seen |-> {}, minimum |-> Unset, maximum |-> Unset,
          prior_ts |-> Unset, prior_sequence |-> Unset, prior_quote_ts |-> Unset,
          book_ready |-> FALSE]

SequenceIssues(v, e, i) ==
    CASE e.sequence = Unset -> {}
      [] e.sequence # Unset /\ e.malformed = "sequence" ->
            {Issue("INVALID_SEQUENCE", i)}
      [] OTHER ->
            When(v.prior_sequence # Unset /\ e.sequence # v.prior_sequence + 1,
               IF e.kind \in BookKind THEN "BOOK_SEQUENCE_GAP" ELSE "SOURCE_SEQUENCE_GAP", i)

\* The part of the pass that depends on the kind of the event.
KindIssues(v, e, i) ==
    CASE e.kind = "BOOK_SNAPSHOT_L2" ->
            When(Unreadable(e), "INVALID_BOOK", i)
            \cup When(~Unreadable(e) /\ Crossed(e.levels), "CROSSED_BOOK", i)
      [] e.kind = "BOOK_DELTA_L2" ->
            When(~v.book_ready, "DELTA_WITHOUT_SNAPSHOT", i)
      [] e.kind = "BBO" ->
            When(e.malformed = "integer", "INVALID_BBO", i)
            \cup When(e.malformed # "integer" /\ Crossed(e.levels), "CROSSED_BBO", i)
            \cup When(v.prior_quote_ts # Unset /\ e.ts - v.prior_quote_ts > MaxStaleness,
                    "STALE_QUOTE_INTERVAL", i)
      [] OTHER -> {}

ReadyAfter(v, e) ==
    v.book_ready \/ (e.kind = "BOOK_SNAPSHOT_L2" /\ ~Unreadable(e))

\* One turn of the loop. An unreadable time or payload ends the turn early.
Validate(v, e, i) ==
    LET duplicate == When(e \in v.seen, "DUPLICATE", i)
        time == When(v.prior_ts # Unset /\ e.ts < v.prior_ts, "OUT_OF_ORDER", i)
                \cup When(v.prior_ts # Unset /\ e.ts - v.prior_ts > MaxGap, "TIME_GAP", i)
        ordered == duplicate \cup time \cup SequenceIssues(v, e, i)
        sighted == [v EXCEPT !.seen = @ \cup {e}]
        timed == [sighted EXCEPT
                    !.minimum = IF @ = Unset THEN e.ts ELSE Min({@, e.ts}),
                    !.maximum = IF @ = Unset THEN e.ts ELSE Max({@, e.ts}),
                    !.prior_ts = e.ts,
                    !.prior_sequence = IF e.sequence = Unset \/ e.malformed = "sequence"
                                         THEN @ ELSE e.sequence]
    IN  CASE e.malformed = "timestamp" ->
               [sighted EXCEPT !.issues = @ \cup duplicate \cup {Issue("INVALID_TIMESTAMP", i)}]
          [] e.malformed = "payload" ->
               [timed EXCEPT !.issues = @ \cup ordered \cup {Issue("INVALID_PAYLOAD", i)}]
          [] OTHER ->
               [timed EXCEPT
                  !.issues = @ \cup ordered \cup IncrementIssues(e, i) \cup KindIssues(v, e, i),
                  !.prior_quote_ts = IF e.kind = "BBO" THEN e.ts ELSE @,
                  !.book_ready = ReadyAfter(v, e)]

Status(issues) ==
    IF \E x \in issues : x.code \notin Degrading THEN "QUARANTINED"
    ELSE IF issues # {} THEN "DEGRADED" ELSE "VALID"

\* validate_events. decision_hash is the hash of this very record.
ValidateEvents(events) ==
    LET v == FoldLeftDomain(LAMBDA w, i : Validate(w, events[i], i), Blank, events)
    IN  [status |-> Status(v.issues), row_count |-> Len(events),
         minimum |-> v.minimum, maximum |-> v.maximum,
         duplicates |-> Cardinality({x \in v.issues : x.code = "DUPLICATE"}),
         issues |-> v.issues]

=============================================================================
