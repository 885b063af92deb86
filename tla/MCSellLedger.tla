---------------------------- MODULE MCSellLedger ----------------------------
(* Small instances of SellLedger. *)
EXTENDS SellLedger, TLC

CONSTANTS a, b, h

Symmetry == Permutations({a, b})
=============================================================================
