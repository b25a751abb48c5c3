--------------------------- MODULE MCTimerQueue ----------------------------
(* Instances of TimerQueue for TLC.                                        *)
EXTENDS TimerQueue

MCDelays == {0, 2}
=============================================================================
