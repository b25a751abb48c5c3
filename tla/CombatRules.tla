----------------------------- MODULE CombatRules -----------------------------
(***************************************************************************)
(* Rule_STIL_ATK.xml as constants: the composites with their children in   *)
(* order, and what kind of leaf each of the others is. Instance names are  *)
(* those of the document; a Timeout is named by its limit.                 *)
(***************************************************************************)
EXTENDS Naturals

\* The services, in their order.
\* Mutant: the angle-off comes before the vectors it is taken from.
UpdateAngleFirst ==
  <<"SelectTarget", "DistanceUpdate", "CheckSight", "AngleOffUpdate",
    "DirectionVectorUpdate", "AspectAngleUpdate", "EnergyCompare", "PredictManeuver">>
Update == <<"SelectTarget", "DistanceUpdate", "CheckSight", "DirectionVectorUpdate",
            "AngleOffUpdate", "AspectAngleUpdate", "EnergyCompare", "PredictManeuver">>

Inner ==
  [MainCombatSequence    |-> <<"UpdateCombatInformation", "SelectAndExecuteBFM">>,
   UpdateCombatInformation |-> Update,
   SelectAndExecuteBFM   |-> <<"GroundAvoidance_Branch", "OBFM_Branch", "HABFM_Branch",
                               "DBFM_Branch", "SCISSORS_Branch", "NormalTracking">>,
   GroundAvoidance_Branch |-> <<"DECO_AltitudeCheck", "Task_ClimbToSafeAltitude">>,
   OBFM_Branch           |-> <<"SetBFMMode_OBFM", "OBFM_Action">>,
   OBFM_Action           |-> <<"Task_AggressiveOBFM", "Task_CornerLeadPursuit",
                               "Timeout_3500", "Task_FollowTarget">>,
   Timeout_3500          |-> <<"Task_LeadPursuit">>,
   HABFM_Branch          |-> <<"SetBFMMode_HABFM", "HABFM_Action">>,
   HABFM_Action          |-> <<"Timeout_1C", "Timeout_2C", "Task_MinimizeAngleOff">>,
   Timeout_1C            |-> <<"Task_OneCircleAttack">>,
   Timeout_2C            |-> <<"Task_TwoCircleAttack">>,
   DBFM_Branch           |-> <<"SetBFMMode_DBFM", "DBFM_Action">>,
   DBFM_Action           |-> <<"CanRetry", "Task_EvasiveRoll", "Task_CounterTurn">>,
   CanRetry              |-> <<"Timeout_4000">>,
   Timeout_4000          |-> <<"DECO_CounterAttackCheck">>,
   DECO_CounterAttackCheck |-> <<"Task_RollReverseAttack">>,
   SCISSORS_Branch       |-> <<"SetBFMMode_SCISSORS", "SCISSORS_Action">>,
   SCISSORS_Action       |-> <<"Task_ScissorBreakTurn", "Task_ScissorRollBack",
                               "Task_EvasiveScissors">>,
   NormalTracking        |-> <<"Task_FollowTarget_2", "Task_Pure">>]

Fallbacks == {"SelectAndExecuteBFM", "OBFM_Action", "HABFM_Action", "DBFM_Action",
              "SCISSORS_Action", "NormalTracking"}
Timeouts == {"Timeout_3500", "Timeout_1C", "Timeout_2C", "Timeout_4000"}
Services == {Update[i] : i \in DOMAIN Update}
Tests == {"DECO_AltitudeCheck", "SetBFMMode_OBFM", "SetBFMMode_HABFM",
          "SetBFMMode_DBFM", "SetBFMMode_SCISSORS"}
\* The StatefulActionNodes.
Manoeuvres == {"Task_LeadPursuit", "Task_OneCircleAttack", "Task_TwoCircleAttack"}
\* Tasks that decline outside their window.
Picky == {"Task_AggressiveOBFM", "Task_CornerLeadPursuit", "Task_MinimizeAngleOff"}

RuleNodes ==
  DOMAIN Inner \cup UNION {{Inner[n][i] : i \in DOMAIN Inner[n]} : n \in DOMAIN Inner}

RuleChildren == [n \in RuleNodes |-> IF n \in DOMAIN Inner THEN Inner[n] ELSE <<>>]
=============================================================================
