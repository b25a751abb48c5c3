---------------------------- MODULE MCTurnRates ----------------------------
(* TurnRates for TLC: windows of two and three frames, twelve units to     *)
(* the circle, so that a turn can be half of it, and an impossible one.    *)
EXTENDS TurnRates
=============================================================================
