--------------------------- MODULE MCConstruction ---------------------------
(* The instance of Construction for TLC.                                   *)
EXTENDS Construction

MCRegistered ==
  [Sequence |-> "control", Parallel |-> "control", Inverter |-> "decorator",
   Task |-> "leaf", SubTree |-> "subtree", SubTreeWrapper |-> "subtree"]

Plain(tag) == [tag |-> tag, id |-> "none", alias |-> "none"]
Called(tag, id) == [tag |-> tag, id |-> id, alias |-> "none"]
Named(tag, alias) == [tag |-> tag, id |-> "none", alias |-> alias]

MCLabels ==
  {Plain("Sequence"), Named("Sequence", "alias"), Plain("Parallel"),
   Plain("Inverter"), Called("Decorator", "Inverter"), Called("Decorator", "Task"),
   Plain("Task"), Called("Action", "Task"), Called("Action", "typo"),
   Called("Condition", "Task"), Called("SubTree", "sub"), Called("SubTree", "main"),
   Plain("SubTree"), Called("SubTreeWrapper", "sub"), Plain("SubTreeWrapper"),
   Plain("sub"), Named("sub", "alias"), Plain("typo")}

MCSecondary ==
  {[name |-> "none", file |-> "none"]} \cup [name : {"sub", "main"}, file : {"opened", "included"}]
=============================================================================
