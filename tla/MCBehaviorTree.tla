--------------------------- MODULE MCBehaviorTree ---------------------------
(* Instances of BehaviorTree for TLC: every tree of one shape, a control   *)
(* node over a control node and an action, with a decorator below.         *)
EXTENDS BehaviorTree

MCChildren ==
  [n \in {"r", "a", "b", "d", "w", "x", "y"} |->
     CASE n = "r" -> <<"a", "b">>
       [] n = "a" -> <<"d", "x", "w">>
       [] n = "d" -> <<"y">>
       [] OTHER -> <<>>]

MCCount == [n \in DOMAIN MCChildren |-> IF n = "r" THEN 1 ELSE 2]

Trees(R, A, D) ==
  {[n \in DOMAIN MCChildren |->
      CASE n = "r" -> k[1] [] n = "a" -> k[2] [] n = "d" -> k[3]
        [] n = "b" -> IF k[1] = "Parallel" THEN "Stateful" ELSE "Sync"
        [] OTHER -> "Stateful"] : k \in R \X A \X D}

AllControl == {"Sequence", "Fallback", "SequenceStar", "ReactiveSequence",
               "ReactiveFallback", "Parallel", "Switch"}
AllDecorator == {"Inverter", "ForceSuccess", "ForceFailure", "Repeat",
                 "RetryUntilSuccesful", "CanRetry", "SubTree",
                 "BlackboardCheck", "Timeout"}

MCKinds == Trees(AllControl, AllControl, AllDecorator)
MemoryKinds == Trees({"Sequence", "Fallback"}, Memory, AllDecorator)

MCResults == [n \in {"b", "w", "x", "y"} |-> {"RUNNING", "SUCCESS", "FAILURE"}]
=============================================================================
