----------------------------- MODULE MCRuleTree -----------------------------
(* RuleTree for TLC: the shipped tree itself.                              *)
EXTENDS RuleTree
=============================================================================
