CONSTANTS
  Children <- RuleChildren
  Root = "MainCombatSequence"
  Kinds <- RuleKinds
  Throwing = {}
  Count <- RuleCount
  Results <- RuleResults
  HostHalts = FALSE
SPECIFICATION RFairSpec
INVARIANT RulePriority
INVARIANT OneCommand
INVARIANT VPOwned
INVARIANT CounterAttackAtOnce
INVARIANT ActionsStartAnew
PROPERTY GroundCheckRecurs
PROPERTY ImplementsFrames
