------------------------------- MODULE MCHost -------------------------------
(* The instance of Host for TLC.                                           *)
EXTENDS Host
=============================================================================
