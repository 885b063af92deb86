---------------------------- MODULE MCDurableRun ----------------------------
(* Small instances of DurableRun. *)
EXTENDS DurableRun, TLC

\* Inputs and starts are interchangeable; records are too when none is misdated.
Symmetry == Permutations(Inputs) \cup Permutations(Starts)
=============================================================================
