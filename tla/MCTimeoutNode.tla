--------------------------- MODULE MCTimeoutNode ---------------------------
(* Instances of TimeoutNode for TLC.                                       *)
EXTENDS TimeoutNode

AllResults == {"RUNNING", "SUCCESS", "FAILURE", "throw"}
NoThrow == {"RUNNING", "SUCCESS", "FAILURE"}
=============================================================================
