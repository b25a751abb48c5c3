---------------------------- MODULE CombatFrames ----------------------------
(***************************************************************************)
(* What a frame of the combat tree promises those of its leaves that keep  *)
(* data of their own from frame to frame.                                  *)
(*                                                                         *)
(* A fresh frame ticks all services of UpdateCombatInformation. After them *)
(* at most one reader is ticked: the turn-rate sampler in SetBFMMode_HABFM *)
(* or Task_AggressiveOBFM, which either commands ("pressed") or declines.  *)
(* A frame that resumes a RUNNING manoeuvre ticks neither. A frame leaves  *)
(* a manoeuvre RUNNING or not, but never when Task_AggressiveOBFM has      *)
(* commanded.                                                              *)
(***************************************************************************)
VARIABLES
  place,     \* "out" between frames, "update" before and "fight" after the services
  running,   \* the root is RUNNING between frames
  resumed,   \* this frame, or the last one, began with a RUNNING root
  reader     \* who of the readers has been ticked in it

fvars == <<place, running, resumed, reader>>

Readers == {"sampler", "pressed", "declined"}

FInit ==
  /\ place = "out"
  /\ running = FALSE
  /\ resumed = FALSE
  /\ reader = "nobody"

Begin ==
  /\ place = "out"
  /\ place' = IF running THEN "fight" ELSE "update"
  /\ resumed' = running
  /\ reader' = "nobody"
  /\ UNCHANGED running

Refresh ==
  /\ place = "update"
  /\ place' = "fight"
  /\ UNCHANGED <<running, resumed, reader>>

Read(r) ==
  /\ place = "fight"
  /\ ~resumed
  /\ reader = "nobody"
  /\ reader' = r
  /\ UNCHANGED <<place, running, resumed>>

End ==
  /\ place = "fight"
  /\ place' = "out"
  /\ running' \in IF reader = "pressed" THEN {FALSE} ELSE BOOLEAN
  /\ UNCHANGED <<resumed, reader>>

FNext ==
  \/ Begin \/ Refresh \/ End
  \/ \E r \in Readers : Read(r)

FSpec == FInit /\ [][FNext]_fvars
=============================================================================
