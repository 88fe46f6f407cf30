----------------------------- MODULE ReplayClock -----------------------------
(***************************************************************************)
(* What the control plane promises of a replay session, with no tables, no *)
(* log, no versions and no catalogue: a clock that starts at the beginning *)
(* of a window it can never change, moves forward only while the session   *)
(* runs, never past the end of the window, and stops for good at exactly   *)
(* the end. A fork is a second clock that shows what the first one shows.  *)
(* Sessions implements this specification: there the clock is nowhere      *)
(* stored, it is what a reader folds out of the event log.                 *)
(***************************************************************************)
EXTENDS Integers

CONSTANTS
    Session,
    Window,         \* the windows [first, last] a session may be pinned to
    NoWindow

VARIABLE clock      \* [status, window, time] of every session

Absent == [status |-> "NONE", window |-> NoWindow, time |-> 0]
Open == [status |-> "SETUP", window |-> NoWindow, time |-> 0]

Init == clock = [s \in Session |-> Absent]

Become(s, status) == clock' = [clock EXCEPT ![s].status = status]

Create(s) ==
    /\ clock[s] = Absent
    /\ clock' = [clock EXCEPT ![s] = Open]

Pin(s, w) ==
    /\ clock[s] = Open
    /\ clock' = [clock EXCEPT
          ![s] = [status |-> "COMMITTED", window |-> w, time |-> w.first]]

Run(s) == clock[s].status \in {"COMMITTED", "PAUSED"} /\ Become(s, "RUNNING")

Hold(s) == clock[s].status = "RUNNING" /\ Become(s, "PAUSED")

Tick(s) ==
    /\ clock[s].status = "RUNNING"
    /\ \E t \in clock[s].time + 1 .. clock[s].window.last :
          clock' = [clock EXCEPT ![s].time = t]

Finish(s) ==
    /\ clock[s].status \in {"RUNNING", "PAUSED"}
    /\ clock[s].time = clock[s].window.last
    /\ Become(s, "COMPLETED")

\* A child that shows the parent's time; it is COMMITTED while nothing past
\* the start has been shown, otherwise PAUSED.
Branch(s, child) ==
    /\ clock[s].status \in {"COMMITTED", "RUNNING", "PAUSED"}
    /\ clock[child] = Absent
    /\ clock' = [clock EXCEPT ![child] =
          [clock[s] EXCEPT !.status =
              IF clock[s].time = clock[s].window.first
              THEN "COMMITTED" ELSE "PAUSED"]]

\* Every step moves the clock of one session.
Next ==
    \E s \in Session :
        /\ clock'[s] # clock[s]
        /\ \/ Create(s)
           \/ \E w \in Window : Pin(s, w)
           \/ Run(s)
           \/ Hold(s)
           \/ Tick(s)
           \/ Finish(s)
           \/ \E parent \in Session : Branch(parent, s)

Spec == Init /\ [][Next]_clock

=============================================================================
