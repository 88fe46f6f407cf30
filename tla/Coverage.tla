------------------------------ MODULE Coverage ------------------------------
(***************************************************************************)
(* What of a manifest can be played (apps/api/.../catalog/service.py): its *)
(* span minus the known gaps, and the setups and windows that fit into it. *)
(* Intervals are half open. The catalogue's own state, which manifests are *)
(* registered and revoked, is in Sessions.                                 *)
(***************************************************************************)
EXTENDS Integers, Sequences, SequencesExt, FiniteSetsExt, Sorting

Interval(from, to) == [start |-> from, end |-> to]

\* The gaps that meet the span, cut to it, in the order sorted() gives them.
Clipped(span, gaps) ==
    LET meeting == {g \in gaps : g.end > span.start /\ g.start < span.end}
        cut == {Interval(Max({span.start, g.start}), Min({span.end, g.end})) : g \in meeting}
        ahead(x) == {y \in cut : y.start < x.start \/ (y.start = x.start /\ y.end < x.end)}
    IN  InOrder(cut, [x \in cut |-> ahead(x)])

\* Mutation: merging a gap that lies inside the previous one shortens it.
Merge_last(merged, g) ==
    IF g.start >= g.end THEN merged
    ELSE IF merged # <<>> /\ g.start <= Last(merged).end
      THEN Append(Front(merged), Interval(Last(merged).start, g.end))
      ELSE Append(merged, g)

\* The next gap is empty, grows the last one or stands for itself.
Merge(merged, g) ==
    IF g.start >= g.end THEN merged
    ELSE IF merged # <<>> /\ g.start <= Last(merged).end
      THEN Append(Front(merged), Interval(Last(merged).start, Max({Last(merged).end, g.end})))
      ELSE Append(merged, g)

MergedGaps(clipped) ==
    LET merged[i \in 0 .. Len(clipped)] ==
          IF i = 0 THEN <<>> ELSE Merge(merged[i - 1], clipped[i])
    IN  merged[Len(clipped)]

\* What lies between the cursor and the next gap is covered.
Cut(state, g) ==
    [pieces |-> IF state.cursor < g.start THEN Append(state.pieces, Interval(state.cursor, g.start))
                                          ELSE state.pieces,
     cursor |-> Max({state.cursor, g.end})]

CutGaps(span, merged) ==
    LET state[i \in 0 .. Len(merged)] ==
          IF i = 0 THEN [pieces |-> <<>>, cursor |-> span.start] ELSE Cut(state[i - 1], merged[i])
    IN  state[Len(merged)]

\* _subtract_gaps
SubtractGaps(span, gaps) ==
    LET end == CutGaps(span, MergedGaps(Clipped(span, gaps)))
    IN  IF end.cursor < span.end THEN Append(end.pieces, Interval(end.cursor, span.end))
                                 ELSE end.pieces

\* CoverageCatalog.segments of one manifest that is VALID or DEGRADED.
Segments(manifest) ==
    IF manifest.status \in {"VALID", "DEGRADED"}
      THEN ToSet(SubtractGaps(manifest.span, manifest.gaps)) ELSE {}

\* _segment_meets_policy, as far as it depends on the quality decision.
MeetsPolicy(manifest, requirement) ==
    manifest.status # "DEGRADED" \/ requirement.allow_degraded

\* eligible_setups: one segment holds the warm-up and the play.
EligibleSetups(manifest, requirement, play_start) ==
    {s \in Segments(manifest) :
        /\ MeetsPolicy(manifest, requirement)
        /\ s.start <= play_start - requirement.warmup
        /\ s.end >= play_start + requirement.duration}

Earliest(s, requirement) == s.start + requirement.warmup

\* eligible_windows: the play starts each segment allows.
EligibleWindows(manifest, requirement) ==
    {w \in {Interval(Earliest(s, requirement), s.end - requirement.duration) :
              s \in Segments(manifest)} :
        MeetsPolicy(manifest, requirement) /\ w.start <= w.end}

=============================================================================
