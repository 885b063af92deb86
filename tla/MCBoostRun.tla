----------------------------- MODULE MCBoostRun -----------------------------
(***************************************************************************)
(* BoostRun for TLC: the instrument traded and another one held by hand.   *)
(***************************************************************************)
EXTENDS BoostRun

Latched == [NoIncident EXCEPT !.latched = TRUE]

Halted == [Latched EXCEPT !.incident = <<"engine-state", <<"earlier">>>>, !.state = "halted"]

Start(mode, a, sessions, kinds, n) ==
    [mode |-> mode, approval |-> a, held |-> IF a.latched THEN Boosted ELSE Keep,
     sessions |-> sessions, kinds |-> kinds, extras |-> n]

MCStarts ==
    {Start("paper", NoIncident, 3, {"fill", "reject", "venue", "restart"}, 1),
     Start("paper", NoIncident, 2, {"fill", "reject", "venue", "again", "restart"}, 2),
     Start("paper", NoIncident, 3, {"fill", "reject", "session", "restart"}, 2),
     Start("paper", Latched, 3, {"fill", "reject", "unsent", "restart", "kill"}, 2),
     Start("paper", Latched, 2, {"fill", "broker", "kill"}, 2),
     Start("paper", Halted, 2, {"fill", "reject", "broker", "unsent", "restart"}, 2),
     Start("paper", [Halted EXCEPT !.attempted = TRUE], 2, {"fill", "broker", "restart"}, 2),
     Start("paper", Latched, 2, {"fill", "hand", "reconcile", "corporate"}, 2),
     Start("paper", Latched, 2, {"fill", "hand"}, 3),
     Start("dry-run", NoIncident, 2, Kinds, 1),
     Start("dry-run", Halted, 2, {"fill", "broker", "kill", "restart"}, 2),
     Start("paper", NoIncident, 4, {"reject", "venue"}, 1)}

\* The sale of an urgent alarm is retired as never sent while the sale of a later one waits.
SilentStarts == {Start("paper", Latched, 3, {"broker", "unsent"}, 5)}
=============================================================================
