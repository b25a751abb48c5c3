-------------------------- MODULE MCAggressiveOBFM --------------------------
(* AggressiveOBFM for TLC: angles on either side of every threshold that   *)
(* matters in some phase, ranges in each window and gate.                  *)
EXTENDS AggressiveOBFM

MCDeltas == {-4, -3, 0, 4}

MCSituations ==
  {s \in [sight : BOOLEAN, d : {200, 4000, 6000, 9500}, ata : {10, 13, 20, 25, 30, 90},
          fast : BOOLEAN, speed : {"slow", "even", "fast"}] :
     /\ ~s.sight => s.d = 200 /\ s.ata = 90
     /\ s.fast => s.d = 4000 /\ s.speed = "slow"}
=============================================================================
