---------------------------- MODULE Entitlement -----------------------------
(***************************************************************************)
(* Which daily objects a Tardis entitlement lets a request plan, and which *)
(* execution tier it may claim for an interval of days                     *)
(* (workers/ingest/.../adapters/tardis).                                   *)
(***************************************************************************)
EXTENDS Bars

\* TardisCoverage.supports: exported_until, when there is one, ends the coverage.
Supports(e, data_type, day) ==
    /\ data_type \in e.data_types
    /\ e.since <= day /\ day <= Min({e.to, e.exported})

\* TardisEntitlement.permits: the public sample is the first day of a month.
Permits(e, data_type, day) ==
    /\ data_type \in e.allowed /\ Supports(e, data_type, day)
    /\ e.sample_only => day \in MonthStart

FirstDay(request) == request.start \div DayLength

\* Mutation: the end of the request is taken to be inside it.
LastDay_inclusive(request) == request.end \div DayLength

LastDay(request) == (request.end - 1) \div DayLength

\* TardisAdapter.plan: one chunk per day. Plannable is the case it does not raise.
PlannedDays(request) == FirstDay(request) .. LastDay(request)
Plannable(e, data_type, request) ==
    /\ request.start >= 0 /\ request.start < request.end
    /\ \A day \in PlannedDays(request) : Permits(e, data_type, day)

\* capabilities_for_interval: a tier needs its data on every day.
Complete(e, data_type, from, to) == \A day \in from .. to : Permits(e, data_type, day)
TierFor(e, from, to) ==
    LET has(data_type) == Complete(e, data_type, from, to)
    IN  CASE has("incremental_book_L2") -> "F2"
          [] ~has("incremental_book_L2") /\ has("trades")
               /\ (has("quotes") \/ has("book_ticker")) -> "F1"
          [] ~has("incremental_book_L2") /\ has("trades")
               /\ ~(has("quotes") \/ has("book_ticker")) -> "F0T"
          [] OTHER -> "none"

=============================================================================
