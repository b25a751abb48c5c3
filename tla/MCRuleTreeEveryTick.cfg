CONSTANTS
  Children <- RuleChildren
  Root = "MainCombatSequence"
  Kinds <- RuleKinds
  Throwing = {}
  Count <- RuleCount
  Results <- RuleResults
  HostHalts = FALSE
SPECIFICATION RSpec
INVARIANT EveryTickRechecks
