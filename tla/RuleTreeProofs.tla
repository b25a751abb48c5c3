--------------------------- MODULE RuleTreeProofs ---------------------------
(***************************************************************************)
(* Theorems about the combat tree. Its steps are steps of the engine, so   *)
(* the invariant of BehaviorTreeProofs holds of it; what is added here is  *)
(* the shape of the document: which results a node can come to, and where  *)
(* a tick goes when a task has given its command.                          *)
(***************************************************************************)
EXTENDS RuleTree, BehaviorTreeProofs

Select == "SelectAndExecuteBFM"
Ground == "GroundAvoidance_Branch"

\* Nodes that always succeed, that never fail, and that never are RUNNING.
Sure == Services \cup (Tasks \ (Manoeuvres \cup Picky))
          \cup {"UpdateCombatInformation", "NormalTracking", "DBFM_Action",
                "SCISSORS_Action"}
Firm == Sure \cup {"OBFM_Action", Select, Root}
Quick == Sure \cup Tests \cup Picky
          \cup {Ground, "DBFM_Branch", "SCISSORS_Branch", "CanRetry",
                "Timeout_4000", "DECO_CounterAttackCheck"}

\* The tasks and what is above them.
Spine == Nodes \ (Services \cup Tests \cup {"UpdateCombatInformation"})

\* The nodes that tick their children in turn.
InTurn == DOMAIN Inner \ (Timeouts \cup Single)
Last(p) == Children[p][Len(Children[p])]
-----------------------------------------------------------------------------
(* The parts of the invariant.                                             *)

Answers ==
  \A n \in Nodes : /\ n \in Quick => heard[n] # "RUNNING"
                   /\ n \in Firm => heard[n] # "FAILURE"

\* A manoeuvre that has decided is looked at at once, and reset.
Anew == \A m \in Manoeuvres : status[m] \in Decided => at = m /\ back # "none"

\* Children behind the current one do not run.
Beyond ==
  \A p \in InTurn : \A d \in Kids(p) : Pos[d] > idx[p] + 1 => status[d] # "RUNNING"

\* The counter-attack does not outlast its tick, and its gate fails only when
\* there is none.
CounterQuiet ==
  /\ idx["CanRetry"] = 0
  /\ idx["Timeout_4000"] # 2
  /\ status["DECO_CounterAttackCheck"] # "RUNNING"
  /\ \A n \in {"CanRetry", "Timeout_4000"} : status[n] = "RUNNING" => n \in Path
  /\ at \in {"Timeout_4000", "DECO_CounterAttackCheck"} /\ back = "FAILURE" => ~counter

\* The timer of l has put an old command back.
Undone(l) == \E n \in Timeouts : idx[n] = 2 /\ First(n) = l

\* When the task l has given its command, the tick goes straight back to the
\* root; no other manoeuvre runs, and only the timer of l takes the command away.
Rising(l) ==
  /\ flown = {l}
  /\ at \in ({l} \cup Above[l]) /\ at \in Spine
  /\ back \in {"SUCCESS", "RUNNING"}
  /\ back = "SUCCESS" => vp = l
  /\ back = "RUNNING" => l \in Manoeuvres /\ (vp = l \/ Undone(l))
  /\ \A m \in Manoeuvres : status[m] = "RUNNING" => m = l /\ back = "RUNNING"

Flight ==
  /\ seen \subseteq Leaves /\ flown \subseteq seen
  /\ at # "outside" /\ flown # {} => \E l \in Tasks : Rising(l)
  /\ at \in Spine /\ back \in {"SUCCESS", "RUNNING"} => flown # {}
  /\ "Task_ClimbToSafeAltitude" \in seen => "Task_ClimbToSafeAltitude" \in flown

\* In a tick that starts at the root, what has been heard was ticked in it.
Checked ==
  ~resumed =>
    /\ \A l \in Services \cup {"DECO_AltitudeCheck"} : heard[l] # "none" => l \in seen
    /\ heard["UpdateCombatInformation"] = "SUCCESS" => Services \subseteq seen
    /\ heard[Ground] = "FAILURE" => "DECO_AltitudeCheck" \in seen
    /\ at = Root /\ back # "none" => Services \subseteq seen

\* The current children are behind the sampler and the aggressive task.
Past ==
  /\ idx[Root] = 1
  /\ \/ idx[Select] = 1 /\ idx["OBFM_Branch"] = 1 /\ idx["OBFM_Action"] >= 2
     \/ /\ idx[Select] = 2
        /\ idx["HABFM_Branch"] = 1 \/ (at = "HABFM_Branch" /\ back = "FAILURE")
     \/ idx[Select] >= 3

Reading ==
  /\ at = "outside" /\ status[Root] = "RUNNING" => Past
  /\ at # "outside" /\ resumed /\ flown = {} => Past
  /\ at # "outside" /\ flown # {} /\ back = "RUNNING" => Past
  /\ at # "outside" /\ flown = {} /\ "SetBFMMode_HABFM" \in seen => idx[Select] >= 2
  /\ at # "outside" /\ flown = {} /\ "Task_AggressiveOBFM" \in seen =>
       "OBFM_Action" \in Ticked /\ heard["Task_AggressiveOBFM"] = "FAILURE"

RInv ==
  /\ IInv /\ Answers /\ Anew /\ Beyond /\ CounterQuiet
  /\ Flight /\ Checked /\ Reading
-----------------------------------------------------------------------------
(* The document.                                                           *)

LEMMA Document ==
  /\ Nodes = RuleNodes
  /\ DOMAIN Inner \subseteq Nodes
  /\ \A p \in DOMAIN Inner : Children[p] = Inner[p]
  /\ \A n \in Nodes \ DOMAIN Inner : Children[n] = <<>>
<1>1. Nodes = RuleNodes
  BY RuleAssumption DEF Nodes, RuleChildren
<1>2. DOMAIN Inner \subseteq RuleNodes
  BY DEF RuleNodes
<1> QED
  BY <1>1, <1>2, RuleAssumption DEF RuleChildren

LEMMA InnerNodes ==
  DOMAIN Inner =
    {"MainCombatSequence", "UpdateCombatInformation", "SelectAndExecuteBFM",
     "GroundAvoidance_Branch", "OBFM_Branch", "OBFM_Action", "Timeout_3500",
     "HABFM_Branch", "HABFM_Action", "Timeout_1C", "Timeout_2C", "DBFM_Branch",
     "DBFM_Action", "CanRetry", "Timeout_4000", "DECO_CounterAttackCheck",
     "SCISSORS_Branch", "SCISSORS_Action", "NormalTracking"}
  BY DEF Inner

\* The family of each node that has one.
Family(p, s) ==
  /\ Children[p] = s /\ Kids(p) = {s[i] : i \in 1 .. Len(s)}
  /\ \A i \in 1 .. Len(s) : s[i] \in Nodes \ {Root} /\ Parent[s[i]] = p /\ Pos[s[i]] = i

LEMMA FamilyOf ==
  ASSUME NEW p \in DOMAIN Inner
  PROVE  Family(p, Inner[p])
<1>1. p \in Nodes /\ Children[p] = Inner[p]
  BY Document
<1>2. \A i \in 1 .. Len(Children[p]) :
        Children[p][i] \in Nodes \ {Root} /\ Parent[Children[p][i]] = p
        /\ Pos[Children[p][i]] = i
  BY <1>1, ChildAt
<1>3. DOMAIN Children[p] = 1 .. Len(Children[p])
  BY <1>1, Children1
<1> QED
  BY <1>1, <1>2, <1>3 DEF Family, Kids

LEMMA Families ==
  /\ Family("MainCombatSequence", <<"UpdateCombatInformation", "SelectAndExecuteBFM">>)
  /\ Family("UpdateCombatInformation", Update)
  /\ Family("SelectAndExecuteBFM",
            <<"GroundAvoidance_Branch", "OBFM_Branch", "HABFM_Branch",
              "DBFM_Branch", "SCISSORS_Branch", "NormalTracking">>)
  /\ Family("GroundAvoidance_Branch", <<"DECO_AltitudeCheck", "Task_ClimbToSafeAltitude">>)
  /\ Family("OBFM_Branch", <<"SetBFMMode_OBFM", "OBFM_Action">>)
  /\ Family("OBFM_Action",
            <<"Task_AggressiveOBFM", "Task_CornerLeadPursuit",
              "Timeout_3500", "Task_FollowTarget">>)
  /\ Family("Timeout_3500", <<"Task_LeadPursuit">>)
  /\ Family("HABFM_Branch", <<"SetBFMMode_HABFM", "HABFM_Action">>)
  /\ Family("HABFM_Action", <<"Timeout_1C", "Timeout_2C", "Task_MinimizeAngleOff">>)
  /\ Family("Timeout_1C", <<"Task_OneCircleAttack">>)
  /\ Family("Timeout_2C", <<"Task_TwoCircleAttack">>)
  /\ Family("DBFM_Branch", <<"SetBFMMode_DBFM", "DBFM_Action">>)
  /\ Family("DBFM_Action", <<"CanRetry", "Task_EvasiveRoll", "Task_CounterTurn">>)
  /\ Family("CanRetry", <<"Timeout_4000">>)
  /\ Family("Timeout_4000", <<"DECO_CounterAttackCheck">>)
  /\ Family("DECO_CounterAttackCheck", <<"Task_RollReverseAttack">>)
  /\ Family("SCISSORS_Branch", <<"SetBFMMode_SCISSORS", "SCISSORS_Action">>)
  /\ Family("SCISSORS_Action",
            <<"Task_ScissorBreakTurn", "Task_ScissorRollBack", "Task_EvasiveScissors">>)
  /\ Family("NormalTracking", <<"Task_FollowTarget_2", "Task_Pure">>)
  BY FamilyOf, InnerNodes DEF Inner

Sequences1 == DOMAIN Inner \ (Fallbacks \cup Timeouts \cup Single)

LEMMA Classes ==
  /\ Fallbacks \cup Timeouts \cup Single \subseteq DOMAIN Inner
  /\ Manoeuvres \cap DOMAIN Inner = {}
  /\ \A k \in Kinds :
       /\ \A n \in Fallbacks : k[n] = "Fallback"
       /\ \A n \in Timeouts : k[n] = "Timeout"
       /\ \A n \in Single : k[n] = n
       /\ \A n \in Sequences1 : k[n] = "Sequence"
       /\ \A n \in Manoeuvres \cap Nodes : k[n] = "Stateful"
       /\ \A n \in Nodes \ (DOMAIN Inner \cup Manoeuvres) : k[n] = "Sync"
<1>1. /\ Fallbacks \cup Timeouts \cup Single \subseteq DOMAIN Inner
      /\ Manoeuvres \cap DOMAIN Inner = {}
  BY InnerNodes DEF Fallbacks, Timeouts, Single, Manoeuvres
<1>2. /\ Fallbacks \cap Timeouts = {} /\ Fallbacks \cap Single = {}
      /\ Timeouts \cap Single = {}
  BY DEF Fallbacks, Timeouts, Single
<1> DEFINE class(n) ==
      CASE n \in Fallbacks -> "Fallback"
        [] n \in Timeouts -> "Timeout"
        [] n \in Single -> n
        [] n \in DOMAIN Inner \ (Fallbacks \cup Timeouts \cup Single) -> "Sequence"
        [] n \in Manoeuvres -> "Stateful"
        [] OTHER -> "Sync"
<1>3. \A k \in Kinds : \A n \in Nodes : k[n] = class(n)
  BY Document, RuleAssumption DEF RuleKinds
<1>4. ASSUME NEW k \in Kinds, NEW n \in Fallbacks PROVE k[n] = "Fallback"
  <2>1. class(n) = "Fallback"
    BY <1>1, <1>2
  <2> QED
    BY <1>1, <1>3, <2>1, Document
<1>5. ASSUME NEW k \in Kinds, NEW n \in Timeouts PROVE k[n] = "Timeout"
  <2>1. class(n) = "Timeout"
    BY <1>1, <1>2
  <2> QED
    BY <1>1, <1>3, <2>1, Document
<1>6. ASSUME NEW k \in Kinds, NEW n \in Single PROVE k[n] = n
  <2>1. class(n) = n
    BY <1>1, <1>2
  <2> QED
    BY <1>1, <1>3, <2>1, Document
<1>7. ASSUME NEW k \in Kinds, NEW n \in Sequences1 PROVE k[n] = "Sequence"
  <2>1. class(n) = "Sequence"
    BY <1>1, <1>2 DEF Sequences1
  <2> QED
    BY <1>1, <1>3, <2>1, Document DEF Sequences1
<1>8. ASSUME NEW k \in Kinds, NEW n \in Manoeuvres \cap Nodes PROVE k[n] = "Stateful"
  <2>1. class(n) = "Stateful"
    BY <1>1, <1>2
  <2> QED
    BY <1>3, <2>1
<1>9. ASSUME NEW k \in Kinds, NEW n \in Nodes \ (DOMAIN Inner \cup Manoeuvres)
      PROVE  k[n] = "Sync"
  <2>1. class(n) = "Sync"
    BY <1>1, <1>2
  <2> QED
    BY <1>3, <2>1
<1> QED
  BY <1>1, <1>4, <1>5, <1>6, <1>7, <1>8, <1>9

LEMMA LeavesAre ==
  /\ Leaves = Nodes \ DOMAIN Inner
  /\ Manoeuvres \subseteq Leaves /\ Services \subseteq Leaves
  /\ Tests \subseteq Leaves /\ Picky \subseteq Leaves
<1>1. \A p \in DOMAIN Inner : Inner[p] # <<>>
  BY InnerNodes DEF Inner, Update
<1>2. Leaves = Nodes \ DOMAIN Inner
  BY <1>1, Document DEF Leaves
<1>3. Manoeuvres \cap DOMAIN Inner = {} /\ Services \cap DOMAIN Inner = {}
      /\ Tests \cap DOMAIN Inner = {} /\ Picky \cap DOMAIN Inner = {}
  BY InnerNodes DEF Manoeuvres, Services, Update, Tests, Picky
<1>4. Manoeuvres \subseteq Nodes
  BY Families DEF Family, Manoeuvres
<1>5. Tests \subseteq Nodes /\ Picky \subseteq Nodes
  BY Families DEF Family, Tests, Picky
<1>6. Services \subseteq Nodes
  BY Families DEF Family, Services, Update
<1> QED
  BY <1>2, <1>3, <1>4, <1>5, <1>6

LEMMA RuleContained == Contained
<1> SUFFICES ASSUME NEW k \in Kinds, NEW n \in Nodes \ Leaves,
                    k[n] = "DECO_CounterAttackCheck"
             PROVE  k[First(n)] = "Sync"
  BY RuleAssumption DEF Contained
<1>1. n \in DOMAIN Inner
  BY LeavesAre
<1>2. n = "DECO_CounterAttackCheck"
  BY <1>1, Classes, Document DEF Single, Sequences1
<1>3. First(n) = "Task_RollReverseAttack" /\ First(n) \in Nodes
  BY <1>2, Families DEF Family, First
<1>4. First(n) \notin DOMAIN Inner \cup Manoeuvres
  BY <1>3, InnerNodes DEF Manoeuvres
<1> QED
  BY <1>3, <1>4, Classes

LEMMA LeafResults ==
  ASSUME NEW l \in Leaves
  PROVE  /\ l \in Manoeuvres => Results[l] = {"RUNNING", "SUCCESS", "FAILURE"}
         /\ l \in Tests \cup Picky => Results[l] = Decided
         /\ l \in Services \cup (Tasks \ (Manoeuvres \cup Picky)) => Results[l] = {"SUCCESS"}
<1> DEFINE r(n) == CASE n \in Manoeuvres -> {"RUNNING", "SUCCESS", "FAILURE"}
                     [] n \in Tests \cup Picky -> Decided
                     [] OTHER -> {"SUCCESS"}
<1>1. l \in RuleNodes \ DOMAIN Inner
  BY LeavesAre, Document
<1>2. Results[l] = r(l)
  BY <1>1, RuleAssumption DEF RuleResults
<1>3. Manoeuvres \cap (Tests \cup Picky) = {} /\ Services \cap Manoeuvres = {}
      /\ Services \cap (Tests \cup Picky) = {}
  BY DEF Manoeuvres, Tests, Picky, Services, Update
<1>4. l \in Manoeuvres => r(l) = {"RUNNING", "SUCCESS", "FAILURE"}
  BY <1>3
<1>5. l \in Tests \cup Picky => r(l) = Decided
  BY <1>3
<1>6. l \in Services \cup (Tasks \ (Manoeuvres \cup Picky)) => r(l) = {"SUCCESS"}
  BY <1>3 DEF Tasks
<1> QED
  BY <1>2, <1>4, <1>5, <1>6

\* A node with children is one of the document's, and they are leaves or are, too.
LEMMA ParentInner ==
  ASSUME NEW n \in Nodes \ {Root}
  PROVE  Parent[n] \in DOMAIN Inner /\ n \in Kids(Parent[n])
<1>1. Parent[n] \in Nodes /\ n \in Kids(Parent[n])
  BY ParentOf
<1>2. ASSUME Parent[n] \notin DOMAIN Inner PROVE FALSE
  <2>1. Children[Parent[n]] = <<>>
    BY <1>1, <1>2, Document
  <2> QED
    BY <1>1, <2>1 DEF Kids
<1> QED
  BY <1>1, <1>2

LEMMA Lasts ==
  /\ Last("MainCombatSequence") = "SelectAndExecuteBFM"
  /\ Last("SelectAndExecuteBFM") = "NormalTracking"
  /\ Last("GroundAvoidance_Branch") = "Task_ClimbToSafeAltitude"
  /\ Last("OBFM_Branch") = "OBFM_Action"
  /\ Last("OBFM_Action") = "Task_FollowTarget"
  /\ Last("HABFM_Branch") = "HABFM_Action"
  /\ Last("DBFM_Branch") = "DBFM_Action"
  /\ Last("DBFM_Action") = "Task_CounterTurn"
  /\ Last("SCISSORS_Branch") = "SCISSORS_Action"
  /\ Last("SCISSORS_Action") = "Task_EvasiveScissors"
  /\ Last("NormalTracking") = "Task_Pure"
<1>1. Last("MainCombatSequence") = Children["MainCombatSequence"][2]
  BY Families DEF Family, Last
<1>2. Last("GroundAvoidance_Branch") = Children["GroundAvoidance_Branch"][2]
  BY Families DEF Family, Last
<1>3. Last("OBFM_Branch") = Children["OBFM_Branch"][2]
  BY Families DEF Family, Last
<1>4. Last("HABFM_Branch") = Children["HABFM_Branch"][2]
  BY Families DEF Family, Last
<1>5. Last("DBFM_Branch") = Children["DBFM_Branch"][2]
  BY Families DEF Family, Last
<1>6. Last("SCISSORS_Branch") = Children["SCISSORS_Branch"][2]
  BY Families DEF Family, Last
<1>7. Last("NormalTracking") = Children["NormalTracking"][2]
  BY Families DEF Family, Last
<1>8. Last("DBFM_Action") = Children["DBFM_Action"][3]
  BY Families DEF Family, Last
<1>9. Last("SCISSORS_Action") = Children["SCISSORS_Action"][3]
  BY Families DEF Family, Last
<1>10. Last("OBFM_Action") = Children["OBFM_Action"][4]
  BY Families DEF Family, Last
<1>11. Last("SelectAndExecuteBFM") = Children["SelectAndExecuteBFM"][6]
  BY Families DEF Family, Last
<1> QED
  BY <1>1, <1>2, <1>3, <1>4, <1>5, <1>6, <1>7, <1>8, <1>9, <1>10, <1>11,
     Families DEF Family

\* Tasks that always succeed.
Willing == {"Task_ClimbToSafeAltitude", "Task_FollowTarget", "Task_RollReverseAttack",
            "Task_EvasiveRoll", "Task_CounterTurn", "Task_ScissorBreakTurn",
            "Task_ScissorRollBack", "Task_EvasiveScissors", "Task_FollowTarget_2",
            "Task_Pure"}

LEMMA WillingTasks == Willing \subseteq Tasks \ (Manoeuvres \cup Picky)
<1>1. Willing \subseteq Nodes
  BY Families DEF Family, Willing
<1>2. Willing \cap (DOMAIN Inner \cup Manoeuvres \cup Picky \cup Services \cup Tests) = {}
  BY InnerNodes DEF Willing, Manoeuvres, Picky, Services, Tests, Update
<1> QED
  BY <1>1, <1>2, LeavesAre DEF Tasks

\* Who is never RUNNING has no child that is.
LEMMA QuickKids ==
  ASSUME NEW p \in DOMAIN Inner, p \in Quick
  PROVE  Kids(p) \subseteq Quick
<1>1. p \in {"UpdateCombatInformation", "NormalTracking", "DBFM_Action", "SCISSORS_Action",
             Ground, "DBFM_Branch", "SCISSORS_Branch", "CanRetry",
             "Timeout_4000", "DECO_CounterAttackCheck"}
  BY LeavesAre, Document DEF Quick, Sure, Tasks
<1>2. CASE p = "UpdateCombatInformation"
  BY <1>2, Families DEF Family, Quick, Sure, Services
<1>3. CASE p \in {"NormalTracking", "SCISSORS_Action", Ground, "SCISSORS_Branch",
                  "DBFM_Branch", "DBFM_Action"}
  <2>1. Kids(p) \subseteq
          Willing \cup Tests \cup {"DBFM_Action", "SCISSORS_Action", "CanRetry"}
    BY <1>3, Families DEF Family, Ground, Tests, Willing
  <2> QED
    BY <2>1, WillingTasks DEF Quick, Sure
<1>4. CASE p \in {"CanRetry", "Timeout_4000"}
  BY <1>4, Families DEF Family, Quick
<1>5. CASE p = "DECO_CounterAttackCheck"
  <2>1. Kids(p) = {"Task_RollReverseAttack"}
    BY <1>5, Families DEF Family
  <2> QED
    BY <2>1, WillingTasks DEF Quick, Sure, Willing
<1> QED
  BY <1>1, <1>2, <1>3, <1>4, <1>5

\* Who never fails ticks its children in turn, and the last of them never fails,
\* in a Sequence none of them.
LEMMA FirmKids ==
  ASSUME NEW p \in DOMAIN Inner, p \in Firm
  PROVE  /\ p \in InTurn /\ Last(p) \in Firm
         /\ p \notin Fallbacks => Kids(p) \subseteq Firm
<1>1. p \in {"UpdateCombatInformation", "NormalTracking", "DBFM_Action", "SCISSORS_Action",
             "OBFM_Action", Select, Root}
  BY LeavesAre, Document DEF Firm, Sure, Tasks
<1>2. p \in InTurn
  BY <1>1, RuleAssumption DEF InTurn, Timeouts, Single, Select
<1>3. CASE p = "UpdateCombatInformation"
  <2>1. Kids(p) = {Update[i] : i \in 1 .. 8} /\ Last(p) = Update[8]
    BY <1>3, Families DEF Family, Last, Update
  <2>2. Kids(p) \subseteq Services /\ Last(p) \in Services
    BY <2>1 DEF Services, Update
  <2> QED
    BY <1>2, <2>2 DEF Firm, Sure
<1>4. CASE p \in {"NormalTracking", "SCISSORS_Action", "DBFM_Action", "OBFM_Action"}
  <2>1. Last(p) \in Willing /\ p \in Fallbacks
    BY <1>4, Lasts DEF Willing, Fallbacks
  <2> QED
    BY <1>2, <2>1, WillingTasks DEF Firm, Sure
<1>5. CASE p = Select
  <2>1. Last(p) = "NormalTracking" /\ p \in Fallbacks
    BY <1>5, Lasts DEF Select, Fallbacks
  <2> QED
    BY <1>2, <2>1 DEF Firm, Sure
<1>6. CASE p = Root
  <2>1. Kids(p) = {"UpdateCombatInformation", Select} /\ Last(p) = Select
    BY <1>6, Families, Lasts, RuleAssumption DEF Family, Select
  <2> QED
    BY <1>2, <2>1 DEF Firm, Sure
<1> QED
  BY <1>1, <1>3, <1>4, <1>5, <1>6

\* What is above a task is the last child in every Sequence it stands in.
LEMMA SpineUp ==
  ASSUME NEW n \in Spine, n # Root
  PROVE  /\ Parent[n] \in Spine \cap DOMAIN Inner /\ n \in Kids(Parent[n])
         /\ Parent[n] \in Sequences1 => n = Last(Parent[n])
<1>1. n \in Nodes \ {Root}
  BY DEF Spine
<1> DEFINE p == Parent[n]
<1>2. p \in DOMAIN Inner /\ n \in Kids(p)
  BY <1>1, ParentInner
<1>3. DOMAIN Inner \cap (Services \cup Tests) = {}
  BY LeavesAre
<1>4. p # "UpdateCombatInformation"
  <2>1. p = "UpdateCombatInformation" => n \in Services
    BY <1>2, Families DEF Family, Services
  <2> QED
    BY <2>1 DEF Spine
<1>5. p \in Spine
  BY <1>2, <1>3, <1>4, Document DEF Spine
<1>6. ASSUME p \in Sequences1 PROVE n = Last(p)
  <2>1. p \in {"MainCombatSequence", Ground, "OBFM_Branch", "HABFM_Branch", "DBFM_Branch",
               "SCISSORS_Branch"}
    BY <1>4, <1>6, InnerNodes DEF Sequences1, Fallbacks, Timeouts, Single, Ground
  <2>2. n \in Tests \cup {"UpdateCombatInformation", Last(p)}
    BY <1>2, <2>1, Families, Lasts DEF Family, Ground, Tests
  <2> QED
    BY <2>2 DEF Spine
<1> QED
  BY <1>2, <1>5, <1>6

\* And the other children on the way are never RUNNING.
LEMMA SpineDown ==
  ASSUME NEW p \in Spine \cap DOMAIN Inner, NEW c \in Kids(p)
  PROVE  \/ c \in Spine
         \/ p \in Sequences1 /\ c # Last(p) /\ c \in Quick
<1>1. p \notin Sequences1 => c \in Spine
  <2>1. ASSUME p \notin Sequences1 PROVE p \in Fallbacks \cup Timeouts \cup Single
    BY <2>1 DEF Sequences1
  <2>2. ASSUME p \in Fallbacks \cup Timeouts \cup Single
        PROVE  c \notin Services \cup Tests \cup {"UpdateCombatInformation"}
    <3>1. \A q \in {"UpdateCombatInformation", "MainCombatSequence", Ground, "OBFM_Branch",
                    "HABFM_Branch", "DBFM_Branch", "SCISSORS_Branch"} :
            q \notin Fallbacks \cup Timeouts \cup Single
      BY DEF Fallbacks, Timeouts, Single, Ground
    <3>2. \A d \in Services \cup Tests \cup {"UpdateCombatInformation"} :
            Parent[d] \in {"UpdateCombatInformation", "MainCombatSequence", Ground, "OBFM_Branch",
                          "HABFM_Branch", "DBFM_Branch", "SCISSORS_Branch"}
      <4>1. \A d \in Services : Parent[d] = "UpdateCombatInformation"
        BY Families DEF Family, Services
      <4>2. \A d \in Tests \cup {"UpdateCombatInformation"} :
              Parent[d] \in {"MainCombatSequence", Ground, "OBFM_Branch",
                            "HABFM_Branch", "DBFM_Branch", "SCISSORS_Branch"}
        BY Families DEF Family, Tests, Ground
      <4> QED
        BY <4>1, <4>2
    <3>3. Parent[c] = p
      BY KidOf, Document
    <3> QED
      BY <2>2, <3>1, <3>2, <3>3
  <2>3. c \in Nodes
    BY Document, Children1
  <2> QED
    BY <2>1, <2>2, <2>3 DEF Spine
<1>2. ASSUME p \in Sequences1 PROVE c = Last(p) \/ c \in Tests \cup {"UpdateCombatInformation"}
  <2>1. p \in {"MainCombatSequence", Ground, "OBFM_Branch", "HABFM_Branch", "DBFM_Branch",
               "SCISSORS_Branch"}
    BY <1>2, InnerNodes DEF Sequences1, Fallbacks, Timeouts, Single, Ground, Spine
  <2> QED
    BY <2>1, Families, Lasts DEF Family, Ground, Tests
<1>3. p \in Sequences1 => Last(p) \in Spine
  <2>1. p \in Sequences1 => p \in {"MainCombatSequence", Ground, "OBFM_Branch", "HABFM_Branch", "DBFM_Branch",
               "SCISSORS_Branch"}
    BY InnerNodes DEF Sequences1, Fallbacks, Timeouts, Single, Ground, Spine
  <2>2. p \in Sequences1 =>
          Last(p) \in {Select, "Task_ClimbToSafeAltitude", "OBFM_Action", "HABFM_Action",
                       "DBFM_Action", "SCISSORS_Action"}
    BY <2>1, Lasts DEF Ground, Select
  <2>3. {Select, "Task_ClimbToSafeAltitude", "OBFM_Action", "HABFM_Action",
         "DBFM_Action", "SCISSORS_Action"} \cap (Services \cup Tests \cup {"UpdateCombatInformation"}) = {}
    BY DEF Services, Update, Tests, Select
  <2>4. {Select, "Task_ClimbToSafeAltitude", "OBFM_Action", "HABFM_Action",
         "DBFM_Action", "SCISSORS_Action"} \subseteq Nodes
    BY Families DEF Family, Select
  <2> QED
    BY <2>2, <2>3, <2>4 DEF Spine
<1>4. c \in Tests \cup {"UpdateCombatInformation"} => c \in Quick /\ c \notin Spine
  BY DEF Quick, Sure, Spine
<1> QED
  BY <1>1, <1>2, <1>3, <1>4
-----------------------------------------------------------------------------
(* The steps of the tree.                                                  *)

\* The classes of the nodes, in a state.
LEMMA KindFacts ==
  ASSUME IInv
  PROVE  /\ kind \in Kinds
         /\ \A n \in InTurn : kind[n] \in {"Sequence", "Fallback"} /\ n \in DOMAIN Inner
         /\ \A n \in InTurn : Advancing(n) = IF n \in Fallbacks THEN "FAILURE" ELSE "SUCCESS"
         /\ \A n \in Timeouts : kind[n] = "Timeout" /\ n \in DOMAIN Inner
         /\ kind["CanRetry"] = "CanRetry" /\ "CanRetry" \in DOMAIN Inner
         /\ kind["DECO_CounterAttackCheck"] = "DECO_CounterAttackCheck"
         /\ "DECO_CounterAttackCheck" \in DOMAIN Inner
         /\ \A n \in Manoeuvres : kind[n] = "Stateful"
         /\ \A n \in Leaves \ Manoeuvres : kind[n] = "Sync"
         /\ DOMAIN Inner = InTurn \cup Timeouts \cup {"CanRetry", "DECO_CounterAttackCheck"}
<1>1. kind \in Kinds
  BY DEF IInv, TypeOK
<1>2. \A n \in InTurn : (n \in Fallbacks /\ kind[n] = "Fallback")
                        \/ (n \notin Fallbacks /\ kind[n] = "Sequence")
  BY <1>1, Classes DEF InTurn, Sequences1
<1>3. \A n \in InTurn : kind[n] \in {"Sequence", "Fallback"} /\ n \in DOMAIN Inner
  BY <1>2 DEF InTurn
<1>4. \A n \in InTurn : Advancing(n) = IF n \in Fallbacks THEN "FAILURE" ELSE "SUCCESS"
  BY <1>2 DEF Advancing
<1>5. \A n \in Timeouts : kind[n] = "Timeout" /\ n \in DOMAIN Inner
  BY <1>1, Classes
<1>6. \A n \in Single : kind[n] = n /\ n \in DOMAIN Inner
  BY <1>1, Classes
<1>7. \A n \in Manoeuvres : kind[n] = "Stateful"
  BY <1>1, Classes, LeavesAre
<1>8. \A n \in Leaves \ Manoeuvres : kind[n] = "Sync"
  BY <1>1, Classes, LeavesAre
<1>9. DOMAIN Inner = InTurn \cup Timeouts \cup Single
  BY Classes DEF InTurn
<1> QED
  BY <1>1, <1>3, <1>4, <1>5, <1>6, <1>7, <1>8, <1>9 DEF Single

Ghosts == <<blackboard, resumed, seen, flown>>

\* The node n gives up without its child: a Timeout whose timer has fired, or the
\* gate.
Fails(n) ==
  /\ \/ n \in Timeouts /\ idx[n] = 2
     \/ n = "DECO_CounterAttackCheck" /\ ~counter
  /\ back = "none"
  /\ \E S \in SUBSET Kids(n) : Return(n, "FAILURE", S, 0, {})
  /\ UNCHANGED Ghosts

\* The node n ticks the child that is its turn.
Enters(n) ==
  /\ n \in DOMAIN Inner /\ back = "none"
  /\ at' = IF n \in InTurn THEN Children[n][idx[n] + 1] ELSE First(n)
  /\ back' = "none"
  /\ heard' = Forget({}, {})
  /\ status' = [status EXCEPT ![n] = IF n = "DECO_CounterAttackCheck" THEN @ ELSE "RUNNING"]
  /\ idx' = [idx EXCEPT ![n] = IF n \in Timeouts THEN 1 ELSE @]
  /\ UNCHANGED <<kind, skip, Ghosts>>

\* The parent of c hands on what c has come to, and forgets when it is decided.
Passes(c) ==
  LET p == Parent[c]
      done == back \in Decided
  IN  /\ c # Root /\ back # "none"
      /\ Return(p, back, IF done THEN Kids(p) ELSE {}, IF done THEN 0 ELSE idx[p], {})
      /\ p \in InTurn /\ back = Advancing(p) => c = Last(p)
      /\ UNCHANGED Ghosts

\* The parent of c goes on to the next child.
GoesOn(c) ==
  LET p == Parent[c] IN
  /\ c # Root /\ p \in InTurn /\ c # Last(p) /\ back = Advancing(p)
  /\ at' = Sibling(c) /\ back' = "none"
  /\ heard' = Forget({c}, {})
  /\ idx' = [idx EXCEPT ![p] = @ + 1]
  /\ UNCHANGED <<kind, status, skip, Ghosts>>

LEMMA DownStep ==
  ASSUME IInv, at \in Nodes, back = "none", HostStep
  PROVE  \/ at \in Leaves /\ Act(at)
         \/ Fails(at)
         \/ Enters(at)
<1>1. (at \in Leaves /\ Act(at)) \/ Moves(at)
  BY TreeAssumption DEF HostStep, Begins, TickRoot, Ends, RootReturns
<1> SUFFICES ASSUME Moves(at)
             PROVE  Fails(at) \/ Enters(at)
  BY <1>1
<1>2. at \notin Leaves /\ at \in DOMAIN Inner /\ UNCHANGED Ghosts
  BY KindFacts, LeavesAre DEF Moves, Ticks, Leaf, Ghosts
<1>3. \/ TickMemory(at) \/ TickWrapper(at) \/ TickTimeout(at)
      \/ TickExpired(at) \/ GateOpens(at) \/ GateCloses(at)
  <2>1. ~TickLeaf(at) /\ ~Throw(at)
    BY <1>2 DEF Moves, TickLeaf, Throw
  <2>2. ~TickReactive(at) /\ ~TickParallel(at) /\ ~TickSwitch(at)
    BY <1>2, KindFacts DEF TickReactive, TickParallel, TickSwitch, Ticks, Reactive
  <2>3. /\ ~ChildRunning(at) /\ ~ReactiveRunning(at) /\ ~NextChild(at) /\ ~AllAdvanced(at)
        /\ ~Decides(at) /\ ~ParallelHears(at) /\ ~SwitchHears(at) /\ ~TickAgain(at)
        /\ ~RetryNextTick(at) /\ ~DecoratorDecides(at)
    BY DEF ChildRunning, ReactiveRunning, NextChild, AllAdvanced, Decides, ParallelHears,
           SwitchHears, TickAgain, RetryNextTick, DecoratorDecides, Hears, Decided, Advancing
  <2> QED
    BY <2>1, <2>2, <2>3 DEF Moves, Step
<1>4. Over = {}
  BY DEF Over
<1>5. idx[at] \in Nat /\ idx = [idx EXCEPT ![at] = @]
  BY DEF IInv
<1>6. CASE TickMemory(at)
  <2>1. at \in InTurn /\ at \notin Timeouts /\ at # "DECO_CounterAttackCheck"
    BY <1>2, <1>6, KindFacts DEF TickMemory, Ticks, Memory, InTurn, Single
  <2> QED
    BY <1>2, <1>4, <1>5, <1>6, <2>1 DEF TickMemory, Descend, Enters
<1>7. CASE TickWrapper(at)
  <2>1. at = "CanRetry" /\ at \notin InTurn /\ at \notin Timeouts /\ kind[at] = "CanRetry"
    BY <1>2, <1>7, KindFacts DEF TickWrapper, Ticks, Wrapper, InTurn, Single, Timeouts
  <2> QED
    BY <1>2, <1>4, <1>5, <1>7, <2>1 DEF TickWrapper, Descend, Enters
<1>8. CASE TickTimeout(at)
  <2>1. at \in Timeouts /\ at \notin InTurn /\ at # "DECO_CounterAttackCheck"
    BY <1>2, <1>8, KindFacts DEF TickTimeout, Ticks, InTurn, Timeouts
  <2> QED
    BY <1>2, <1>4, <1>8, <2>1 DEF TickTimeout, Descend, Enters
<1>9. CASE TickExpired(at)
  <2>1. at \in Timeouts
    BY <1>2, <1>9, KindFacts DEF TickExpired, Ticks
  <2>2. \E S \in SUBSET Kids(at) : Return(at, "FAILURE", S, 0, {})
    <3>1. Return(at, "FAILURE", {}, 0, {})
      BY <1>9 DEF TickExpired
    <3>2. {} \in SUBSET Kids(at)
      OBVIOUS
    <3> QED
      BY <3>1, <3>2
  <2> QED
    BY <1>2, <1>9, <2>1, <2>2 DEF TickExpired, Fails
<1>10. CASE GateOpens(at)
  <2>1. at = "DECO_CounterAttackCheck" /\ at \notin InTurn /\ at \notin Timeouts
        /\ kind[at] # "BlackboardCheck"
    BY <1>2, <1>10, KindFacts DEF GateOpens, Ticks, Gate, InTurn, Timeouts, Single
  <2> QED
    BY <1>2, <1>4, <1>5, <1>10, <2>1 DEF GateOpens, Descend, Enters
<1>11. CASE GateCloses(at)
  <2>1. at = "DECO_CounterAttackCheck"
    BY <1>2, <1>11, KindFacts DEF GateCloses, Ticks, Gate
  <2>2. back' = "FAILURE"
    BY <1>2, <1>11, <2>1, KindFacts DEF GateCloses, Return, Mismatch
  <2>3. ~counter
    BY <1>11, <2>2 DEF Moves, GateCloses, Opens
  <2>4. {c \in Kids(at) : kind[at] = "BlackboardCheck" \/ status[c] \in Decided} \in SUBSET Kids(at)
    OBVIOUS
  <2>5. kind[at] # "BlackboardCheck"
    BY <1>2, <2>1, KindFacts
  <2> QED
    BY <1>2, <1>11, <2>1, <2>3, <2>4, <2>5 DEF GateCloses, Mismatch, Fails
<1> QED
  BY <1>3, <1>6, <1>7, <1>8, <1>9, <1>10, <1>11

LEMMA LastPlace ==
  ASSUME NEW c \in Nodes \ {Root}
  PROVE  IsLast(c) <=> c = Last(Parent[c])
<1> DEFINE p == Parent[c]
<1>1. p \in Nodes /\ c \in Kids(p)
  BY ParentOf
<1>2. Pos[c] \in 1 .. Len(Children[p]) /\ Children[p][Pos[c]] = c
  BY <1>1, KidOf
<1>3. Len(Children[p]) \in Nat
  BY <1>1, Children1
<1>4. Pos[Children[p][Len(Children[p])]] = Len(Children[p])
  BY <1>1, <1>2, <1>3, ChildAt
<1> QED
  BY <1>2, <1>4 DEF IsLast, Last

\* A node that ticks one child has one.
LEMMA OneChild ==
  ASSUME NEW p \in Timeouts \cup {"CanRetry", "DECO_CounterAttackCheck"}
  PROVE  Kids(p) = {First(p)} /\ p \notin InTurn
<1>1. p \in DOMAIN Inner
  BY Classes DEF Single
<1>2. p \notin InTurn
  BY DEF InTurn, Single
<1> QED
  BY <1>1, <1>2, Families DEF Family, First, Timeouts

LEMMA UpStep ==
  ASSUME IInv, CounterQuiet, at \in Nodes \ {Root}, back # "none", HostStep
  PROVE  Passes(at) \/ GoesOn(at)
<1> DEFINE p == Parent[at]
<1>1. Moves(at)
  BY TreeAssumption DEF HostStep, Begins, TickRoot, Ends, RootReturns, Act, TickLeaf, Ticks
<1>2. p \in DOMAIN Inner /\ p \in Nodes /\ at \in Kids(p) /\ UNCHANGED Ghosts
  BY <1>1, ParentInner, Document DEF Moves, Ghosts
<1>3. kind[p] \in {"Sequence", "Fallback", "Timeout", "CanRetry", "DECO_CounterAttackCheck"}
  BY <1>2, KindFacts
<1>4. \/ ChildRunning(at) \/ NextChild(at) \/ AllAdvanced(at)
      \/ Decides(at) \/ RetryNextTick(at) \/ DecoratorDecides(at)
  <2>1. /\ ~TickLeaf(at) /\ ~Throw(at) /\ ~TickMemory(at) /\ ~TickReactive(at)
        /\ ~TickParallel(at) /\ ~TickSwitch(at) /\ ~TickWrapper(at) /\ ~TickTimeout(at)
        /\ ~TickExpired(at) /\ ~GateOpens(at) /\ ~GateCloses(at)
    BY DEF TickLeaf, Throw, TickMemory, TickReactive, TickParallel, TickSwitch, TickWrapper,
           TickTimeout, TickExpired, GateOpens, GateCloses, Ticks
  <2>2. ~ReactiveRunning(at) /\ ~ParallelHears(at) /\ ~SwitchHears(at) /\ ~TickAgain(at)
    BY <1>3 DEF ReactiveRunning, ParallelHears, SwitchHears, TickAgain, Hears, Reactive
  <2> QED
    BY <1>1, <2>1, <2>2 DEF Moves, Step
<1>5. p \in InTurn <=> kind[p] \in {"Sequence", "Fallback"}
  BY <1>2, KindFacts DEF Timeouts, InTurn, Single
<1>6. p \notin InTurn => Kids(p) = {at}
  BY <1>2, KindFacts, OneChild
<1>7. IsLast(at) <=> at = Last(p)
  BY LastPlace
<1> HIDE DEF p
<1>8. CASE ChildRunning(at)
  <2>1. back = "RUNNING" /\ Return(p, "RUNNING", {}, idx[p], {})
    BY <1>8 DEF ChildRunning, Hears, p
  <2>2. p \in InTurn => back # Advancing(p)
    BY <2>1, KindFacts
  <2> QED
    BY <1>2, <2>1, <2>2 DEF Passes, Decided, p
<1>9. CASE NextChild(at)
  <2>1. p \in InTurn
    BY <1>3, <1>5, <1>9 DEF NextChild, Hears, Memory, Reactive, p
  <2>2. Over = {at} /\ kind[p] \in Memory
    <3>1. back \in Decided /\ back = Advancing(p)
      BY <1>9, <2>1, KindFacts DEF NextChild, Hears, Decided, p
    <3>2. kind[at] # "SequenceStar"
      BY KindFacts, LeavesAre, Classes DEF Timeouts
    <3> QED
      BY <1>5, <2>1, <3>1, <3>2 DEF Over, Decided, Memory
  <2> QED
    BY <1>2, <1>7, <1>9, <2>1, <2>2 DEF NextChild, Descend, Hears, GoesOn, p
<1>10. CASE AllAdvanced(at)
  <2>1. p \in InTurn
    BY <1>3, <1>5, <1>10 DEF AllAdvanced, Hears, Memory, Reactive, p
  <2>2. back \in Decided
    BY <1>10, <2>1, KindFacts DEF AllAdvanced, Hears, Decided, p
  <2>3. Return(p, back, Kids(p), 0, {}) /\ at = Last(p)
    BY <1>7, <1>10 DEF AllAdvanced, Restart, p
  <2> QED
    BY <1>2, <2>2, <2>3 DEF Passes, Decided, p
<1>11. CASE Decides(at)
  <2>1. p \in InTurn /\ back \in Decided /\ back # Advancing(p)
    BY <1>3, <1>5, <1>11 DEF Decides, Hears, Memory, Reactive, p
  <2>2. Return(p, back, Kids(p), 0, {})
    BY <1>3, <1>11 DEF Decides, p
  <2> QED
    BY <1>2, <2>1, <2>2 DEF Passes, Decided, p
<1>12. CASE RetryNextTick(at)
  <2>1. kind[p] = "CanRetry" /\ back = "FAILURE" /\ MayRetry(p) /\ back' = "RUNNING"
    BY <1>12 DEF RetryNextTick, Hears, Return, p
  <2>2. counter
    BY <1>1, <1>12, <2>1 DEF Moves, RetryNextTick, Hears, p
  <2>3. p = "CanRetry"
    BY <1>2, <2>1, KindFacts
  <2>4. at = "Timeout_4000"
    BY <1>2, <2>3, Families DEF Family
  <2> QED
    BY <2>1, <2>2, <2>4 DEF CounterQuiet
<1>13. CASE DecoratorDecides(at)
  <2>1. p \notin InTurn /\ back \in Decided
    BY <1>5, <1>13 DEF DecoratorDecides, Hears, Decorator, Wrapper, Gate, p
  <2>2. kind[p] \in {"Timeout", "CanRetry", "DECO_CounterAttackCheck"}
    BY <1>3, <1>5, <2>1
  <2> DEFINE r == CASE kind[p] = "Inverter" -> Flip(back)
                    [] kind[p] = "ForceSuccess" -> "SUCCESS"
                    [] kind[p] = "ForceFailure" -> "FAILURE"
                    [] OTHER -> back
  <2>3. Return(p, r, Resets(at), 0, {})
    BY <1>13 DEF DecoratorDecides, p
  <2>4. r = back
    BY <2>2
  <2>5. Resets(at) = Kids(p)
    BY <1>6, <2>1 DEF Resets
  <2> HIDE DEF r
  <2>6. Return(p, back, Kids(p), 0, {})
    BY <2>3, <2>4, <2>5
  <2> QED
    BY <1>2, <2>1, <2>6 DEF Passes, Decided, p
<1> QED
  BY <1>4, <1>8, <1>9, <1>10, <1>11, <1>12, <1>13

LEMMA Steps ==
  ASSUME IInv, CounterQuiet, RNext
  PROVE  \/ Begins
         \/ at = Root /\ back # "none" /\ Ends
         \/ \E n \in Timeouts : TimesOut(n)
         \/ at \in Leaves /\ Act(at)
         \/ at \in DOMAIN Inner /\ (Fails(at) \/ Enters(at))
         \/ at \in Nodes \ {Root} /\ back # "none" /\ (Passes(at) \/ GoesOn(at))
<1>1. CASE TimerStep
  BY <1>1 DEF TimerStep
<1>2. CASE HostStep /\ at \in Nodes /\ back = "none"
  <2>1. Enters(at) => at \in DOMAIN Inner
    BY DEF Enters
  <2>2. Fails(at) => at \in DOMAIN Inner
    BY KindFacts DEF Fails
  <2> QED
    BY <1>2, <2>1, <2>2, DownStep
<1>3. CASE HostStep /\ at \in Nodes \ {Root} /\ back # "none"
  BY <1>3, UpStep
<1>4. CASE HostStep /\ at = Root /\ back # "none"
  <2>1. ~Act(Root)
    BY <1>4 DEF Act, TickLeaf, Ticks
  <2>2. ~Begins
    BY <1>4, RootFacts DEF Begins, TickRoot
  <2>3. ~Moves(Root)
    BY <1>4 DEF Moves, Step, TickLeaf, Throw, TickMemory, TickReactive, TickParallel,
                TickSwitch, TickWrapper, TickTimeout, TickExpired, GateOpens, GateCloses,
                Ticks, ChildRunning, ReactiveRunning, NextChild, AllAdvanced, Decides,
                ParallelHears, SwitchHears, TickAgain, RetryNextTick, DecoratorDecides, Hears
  <2> QED
    BY <1>4, <2>1, <2>2, <2>3 DEF HostStep
<1>5. CASE HostStep /\ at = "outside"
  BY <1>5, RootFacts, TreeAssumption DEF HostStep, Ends, RootReturns, Leaves
<1>6. at \in Nodes \cup {"outside"}
  BY DEF IInv, TypeOK
<1> QED
  BY <1>1, <1>2, <1>3, <1>4, <1>5, <1>6 DEF RNext

LEMMA EngineStep ==
  ASSUME IInv, RNext
  PROVE  IInv'
<1>1. at \in Leaves /\ Act(at) => Next
  BY DEF Act, Next, Step, Leaves
<1>2. at \in Nodes /\ Moves(at) => Next
  BY DEF Moves, Next
<1>3. Begins \/ Ends => Next
  BY DEF Begins, Ends, Next, Host
<1>4. ASSUME NEW n \in Timeouts, TimesOut(n) PROVE Next
  <2>1. n \in Nodes
    BY Classes, Document
  <2> QED
    BY <1>4, <2>1 DEF TimesOut, Next
<1>5. Next
  BY <1>1, <1>2, <1>3, <1>4 DEF RNext, HostStep, TimerStep
<1> QED
  BY <1>5, RuleContained, NextIInv

\* What a result given to the parent leaves elsewhere.
LEMMA ReturnFrame ==
  ASSUME IInv, NEW n \in Nodes, NEW S \in SUBSET Kids(n), NEW r, NEW i, NEW k,
         Return(n, r, S, i, k)
  PROVE  /\ at' = n /\ back' = r
         /\ status'[n] = r /\ heard'[n] = r /\ idx'[n] = i
         /\ \A m \in Nodes \ {n} :
              /\ status'[m] = IF Reaches(S, m) THEN "IDLE" ELSE status[m]
              /\ idx'[m] = IF Halts(S, m) THEN 0 ELSE idx[m]
              /\ heard'[m] \in {heard[m], "none"}
              /\ Reaches(S, m) => n \in Above[m]
<1>1. status \in [Nodes -> Status] /\ idx \in [Nodes -> Nat]
      /\ heard \in [Nodes -> Status \cup {"none"}]
  BY DEF IInv, TypeOK
<1>2. at' = n /\ back' = r
      /\ status'[n] = r /\ heard'[n] = r /\ idx'[n] = i
  BY <1>1 DEF Return, StatusAfter, IdxAfter, HeardAfter, Forget
<1>3. \A m \in Nodes \ {n} : status'[m] = IF Reaches(S, m) THEN "IDLE" ELSE status[m]
  BY DEF Return, StatusAfter
<1>4. \A m \in Nodes \ {n} : idx'[m] = IF Halts(S, m) THEN 0 ELSE idx[m]
  BY DEF Return, IdxAfter
<1>5. \A m \in Nodes \ {n} : heard'[m] \in {heard[m], "none"}
  BY DEF Return, HeardAfter, Forget
<1>6. \A m \in Nodes : Reaches(S, m) => n \in Above[m] /\ m # n
  BY ReachesBelow
<1> QED
  BY <1>2, <1>3, <1>4, <1>5, <1>6

\* Who loses its progress has its children IDLE.
LEMMA ReturnForgets ==
  ASSUME IInv, NEW n \in Nodes, NEW S \in SUBSET Kids(n), NEW r, NEW i, NEW k,
         Return(n, r, S, i, k), NEW m \in Nodes \ {n}, idx'[m] # idx[m]
  PROVE  \A d \in Kids(m) : status'[d] = "IDLE"
<1> SUFFICES ASSUME NEW d \in Kids(m) PROVE status'[d] = "IDLE"
  OBVIOUS
<1>1. Reaches(S, m) /\ status[m] = "RUNNING"
  BY ReturnFrame DEF Halts
<1>2. d \in Nodes /\ Reaches(S, d) /\ d # n
  BY <1>1, ReachesDown, ReachesBelow, AboveKid
<1> QED
  BY <1>2, ReturnFrame

LEMMA ActFrame ==
  ASSUME IInv, Anew, NEW l \in Leaves, Act(l)
  PROVE  /\ l \in Nodes /\ at = l /\ back = "none" /\ back' \in Results[l]
         /\ at' = l /\ status'[l] = back' /\ heard'[l] = back' /\ back' # "none"
         /\ \A m \in Nodes \ {l} : /\ status'[m] = status[m] /\ idx'[m] = idx[m]
                                   /\ heard'[m] = heard[m]
         /\ back' = "RUNNING" => l \in Manoeuvres
<1>1. l \in Nodes /\ at = l /\ back = "none" /\ kind[l] \in Leaf
  BY DEF Act, TickLeaf, Ticks, Leaves
<1>2. ~(kind[l] = "Stateful" /\ status[l] \in Decided)
  BY <1>1, KindFacts DEF Anew
<1>3. PICK r \in Results[l] : (kind[l] = "Sync" => r # "RUNNING") /\ Return(l, r, {}, 0, {})
  BY <1>2 DEF Act, TickLeaf
<1> DEFINE S == {}
           i == 0
           k == {}
<1>4. S \in SUBSET Kids(l) /\ Return(l, r, S, i, k)
  BY <1>3
<1>6. \A m \in Nodes : ~Reaches(S, m) /\ ~Halts(S, m)
  BY DEF Reaches, Halts
<1> HIDE DEF S, i
<1>5. /\ at' = l /\ back' = r /\ status'[l] = r /\ heard'[l] = r
      /\ \A m \in Nodes \ {l} : /\ status'[m] = IF Reaches(S, m) THEN "IDLE" ELSE status[m]
                                /\ idx'[m] = IF Halts(S, m) THEN 0 ELSE idx[m]
  <2>1. l \in Nodes /\ S \in SUBSET Kids(l) /\ Return(l, r, S, i, k)
    BY <1>1, <1>4 DEF S, k
  <2> HIDE DEF k
  <2> QED
    BY <2>1, ReturnFrame
<1>7. Over = {}
  BY <1>1 DEF Over
<1>8. \A m \in Nodes \ {l} : heard'[m] = heard[m]
  <2>1. heard' = [heard EXCEPT ![l] = r]
    BY <1>3, <1>7, NoHalt DEF Return, HeardAfter
  <2> QED
    BY <2>1 DEF IInv, TypeOK
<1>9. r # "none"
  BY <1>3, KindAssumption
<1>10. r = "RUNNING" => l \in Manoeuvres
  BY <1>3, KindFacts
<1> QED
  BY <1>1, <1>3, <1>5, <1>6, <1>8, <1>9, <1>10

LEMMA EnterFrame ==
  ASSUME IInv, NEW n, at = n, Enters(n)
  PROVE  /\ n \in Nodes /\ at' \in Kids(n) /\ at' \in Nodes \ {Root}
         /\ back = "none" /\ back' = "none"
         /\ heard' = heard
         /\ \A m \in Nodes \ {n} : status'[m] = status[m] /\ idx'[m] = idx[m]
         /\ n \in InTurn => idx'[n] = idx[n] /\ Pos[at'] = idx[n] + 1
<1>1. n \in Nodes /\ n \in DOMAIN Inner
  BY Document DEF Enters
<1>2. CASE n \in InTurn
  <2>1. idx[n] < Len(Children[n]) /\ idx[n] \in Nat /\ Len(Children[n]) \in Nat
    BY <1>1, <1>2, KindFacts, Children1 DEF IInv, Local, InOrder, Memory
  <2>2. idx[n] + 1 \in 1 .. Len(Children[n])
    BY <2>1
  <2>3. at' = Children[n][idx[n] + 1]
    BY <1>2 DEF Enters
  <2>4. n \notin Timeouts
    BY <1>2 DEF InTurn
  <2>5. idx'[n] = idx[n]
    BY <1>1, <2>4 DEF Enters, IInv
  <2> QED
    BY <1>1, <2>2, <2>3, <2>5, ChildAt, NoHalt DEF Enters
<1>3. CASE n \notin InTurn
  <2>1. Kids(n) = {First(n)}
    BY <1>1, <1>3, KindFacts, OneChild
  <2>2. at' = First(n)
    BY <1>3 DEF Enters
  <2> QED
    BY <1>1, <1>3, <2>1, <2>2, Children1, NoHalt DEF Enters
<1> QED
  BY <1>2, <1>3

LEMMA GoesOnFrame ==
  ASSUME IInv, NEW c \in Nodes \ {Root}, at = c, back # "none", GoesOn(c)
  PROVE  /\ Parent[c] \in InTurn /\ Parent[c] \in Nodes /\ c \in Kids(Parent[c])
         /\ at' \in Kids(Parent[c]) /\ at' \in Nodes \ {Root} /\ back' = "none"
         /\ heard[c] = Advancing(Parent[c]) /\ heard[c] = back
         /\ Pos[c] = idx[Parent[c]] + 1 /\ Pos[at'] = idx[Parent[c]] + 2
         /\ idx'[Parent[c]] = idx[Parent[c]] + 1
         /\ \A m \in Nodes \ {Parent[c]} : idx'[m] = idx[m]
         /\ status' = status
         /\ \A m \in Nodes : heard'[m] \in {heard[m], "none"}
         /\ \A m \in Nodes \ Kids(c) : heard'[m] = heard[m]
<1> DEFINE p == Parent[c]
<1>1. /\ p \in Nodes /\ c \in Kids(p) /\ c \in Ticked /\ heard[c] = back
      /\ Pos[c] \in 1 .. Len(Children[p]) /\ Len(Children[p]) \in Nat /\ idx[p] \in Nat
  BY HearsFacts
<1>2. p \in InTurn /\ kind[p] \in Memory /\ back = Advancing(p)
  BY KindFacts DEF GoesOn, Memory
<1>3. Pos[c] = idx[p] + 1
  BY <1>1, <1>2 DEF IInv, Local, InOrder
<1>4. Pos[c] # Len(Children[p])
  BY LastPlace DEF GoesOn, IsLast
<1>5. Pos[c] + 1 \in 1 .. Len(Children[p])
  BY <1>1, <1>4
<1>6. at' = Children[p][Pos[c] + 1]
  BY DEF GoesOn, Sibling
<1>7. at' \in Kids(p) /\ at' \in Nodes \ {Root} /\ Pos[at'] = Pos[c] + 1
  <2> DEFINE i == Pos[c] + 1
  <2> HIDE DEF i
  <2> QED
    BY <1>1, <1>5, <1>6, ChildAt DEF i
<1>8. Pos[at'] = idx[p] + 2
  BY <1>1, <1>3, <1>7
<1>9. idx'[p] = idx[p] + 1 /\ \A m \in Nodes \ {p} : idx'[m] = idx[m]
  BY <1>1 DEF GoesOn, IInv
<1>10. \A m \in Nodes : ~Halts({}, m)
  BY DEF Halts, Reaches
<1>11. /\ \A m \in Nodes : heard'[m] \in {heard[m], "none"}
       /\ \A m \in Nodes \ Kids(c) : heard'[m] = heard[m]
  <2>1. \A m \in Nodes : heard'[m] = IF m # Root /\ Parent[m] = c THEN "none" ELSE heard[m]
    <3>1. heard' = Forget({c}, {})
      BY DEF GoesOn
    <3>2. \A m \in Nodes : m # Root => ~Halts({}, Parent[m])
      BY <1>10, ParentOf
    <3> QED
      BY <3>1, <3>2 DEF Forget
  <2>2. \A m \in Nodes \ {Root} : Parent[m] = c => m \in Kids(c)
    BY KidsAre
  <2> QED
    BY <2>1, <2>2
<1> QED
  BY <1>1, <1>2, <1>3, <1>7, <1>8, <1>9, <1>11 DEF GoesOn

LEMMA PassFrame ==
  ASSUME IInv, NEW c \in Nodes \ {Root}, at = c, back # "none", Passes(c)
  PROVE  /\ Parent[c] \in Nodes /\ Parent[c] \in DOMAIN Inner /\ c \in Kids(Parent[c])
         /\ heard[c] = back /\ status[c] = back /\ back \in {"RUNNING"} \cup Decided
         /\ at' = Parent[c] /\ back' = back
         /\ status'[Parent[c]] = back /\ heard'[Parent[c]] = back
         /\ \A m \in Nodes \ {Parent[c]} :
              /\ status'[m] \in {status[m], "IDLE"} /\ idx'[m] \in {idx[m], 0}
              /\ heard'[m] \in {heard[m], "none"}
              /\ Parent[c] \notin Above[m] => status'[m] = status[m] /\ idx'[m] = idx[m]
              /\ idx'[m] = idx[m] \/ \A d \in Kids(m) : status'[d] = "IDLE"
         /\ back \in Decided =>
              /\ idx'[Parent[c]] = 0
              /\ \A d \in Kids(Parent[c]) : status'[d] = "IDLE"
         /\ back = "RUNNING" =>
              /\ \A m \in Nodes \ {Parent[c]} :
                   status'[m] = status[m] /\ heard'[m] = heard[m]
              /\ \A m \in Nodes : idx'[m] = idx[m]
<1> DEFINE p == Parent[c]
           S == IF back \in Decided THEN Kids(p) ELSE {}
           i == IF back \in Decided THEN 0 ELSE idx[p]
<1>1. /\ p \in Nodes /\ c \in Kids(p) /\ heard[c] = back /\ status[c] = back
      /\ back \in {"RUNNING"} \cup Decided /\ p \notin Over
  BY HearsFacts
<1>2. p \in DOMAIN Inner
  BY ParentInner
<1>3. S \in SUBSET Kids(p) /\ Return(p, back, S, i, {})
  BY DEF Passes
<1> HIDE DEF S, i, p
<1>4. /\ at' = p /\ back' = back
      /\ status'[p] = back /\ heard'[p] = back /\ idx'[p] = i
      /\ \A m \in Nodes \ {p} :
           /\ status'[m] = IF Reaches(S, m) THEN "IDLE" ELSE status[m]
           /\ idx'[m] = IF Halts(S, m) THEN 0 ELSE idx[m]
           /\ heard'[m] \in {heard[m], "none"}
           /\ Reaches(S, m) => p \in Above[m]
  BY <1>1, <1>3, ReturnFrame
<1>5. /\ \A m \in Nodes \ {p} :
           /\ status'[m] \in {status[m], "IDLE"} /\ idx'[m] \in {idx[m], 0}
           /\ heard'[m] \in {heard[m], "none"}
           /\ p \notin Above[m] => status'[m] = status[m] /\ idx'[m] = idx[m]
           /\ idx'[m] = idx[m] \/ \A d \in Kids(m) : status'[d] = "IDLE"
  <2>1. \A m \in Nodes \ {p} :
          idx'[m] = idx[m] \/ \A d \in Kids(m) : status'[d] = "IDLE"
    BY <1>1, <1>3, ReturnForgets
  <2> QED
    BY <1>4, <2>1 DEF Halts
<1>6. ASSUME back \in Decided
      PROVE  idx'[p] = 0 /\ \A d \in Kids(p) : status'[d] = "IDLE"
  <2>1. idx'[p] = 0 /\ S = Kids(p)
    BY <1>4, <1>6 DEF i, S
  <2>2. \A d \in Kids(p) : d \in Nodes \ {p} /\ Reaches(S, d)
    BY <1>1, <2>1, AboveKid DEF Reaches
  <2> QED
    BY <1>4, <2>1, <2>2
<1>7. ASSUME back = "RUNNING"
      PROVE  /\ \A m \in Nodes \ {p} : status'[m] = status[m] /\ heard'[m] = heard[m]
             /\ \A m \in Nodes : idx'[m] = idx[m]
  <2>1. S = {} /\ i = idx[p]
    BY <1>7 DEF S, i, Decided
  <2>2. \A m \in Nodes : ~Reaches(S, m) /\ ~Halts(S, m)
    BY <2>1 DEF Reaches, Halts
  <2>3. Over = {}
    BY <1>7 DEF Over
  <2>4. heard' = [heard EXCEPT ![p] = back]
    BY <1>3, <2>1, <2>3, NoHalt DEF Return, HeardAfter
  <2>5. \A m \in Nodes \ {p} : heard'[m] = heard[m]
    BY <2>4 DEF IInv, TypeOK
  <2> QED
    BY <1>4, <2>1, <2>2, <2>5
<1> QED
  BY <1>1, <1>2, <1>4, <1>5, <1>6, <1>7 DEF p

LEMMA FailFrame ==
  ASSUME IInv, at \in DOMAIN Inner, Fails(at)
  PROVE  /\ at \in Nodes /\ at' = at /\ back = "none" /\ back' = "FAILURE"
         /\ status'[at] = "FAILURE" /\ heard'[at] = "FAILURE" /\ idx'[at] = 0
         /\ \A m \in Nodes \ {at} :
              /\ status'[m] \in {status[m], "IDLE"} /\ idx'[m] \in {idx[m], 0}
              /\ heard'[m] \in {heard[m], "none"}
              /\ at \notin Above[m] => status'[m] = status[m] /\ idx'[m] = idx[m]
              /\ idx'[m] = idx[m] \/ \A d \in Kids(m) : status'[d] = "IDLE"
<1>1. at \in Nodes
  BY Document
<1>2. PICK S \in SUBSET Kids(at) : Return(at, "FAILURE", S, 0, {})
  BY DEF Fails
<1>3. /\ at' = at /\ back' = "FAILURE"
      /\ status'[at] = "FAILURE" /\ heard'[at] = "FAILURE" /\ idx'[at] = 0
      /\ \A m \in Nodes \ {at} :
           /\ status'[m] = IF Reaches(S, m) THEN "IDLE" ELSE status[m]
           /\ idx'[m] = IF Halts(S, m) THEN 0 ELSE idx[m]
           /\ heard'[m] \in {heard[m], "none"}
           /\ Reaches(S, m) => at \in Above[m]
           /\ idx'[m] = idx[m] \/ \A d \in Kids(m) : status'[d] = "IDLE"
  <2> DEFINE n == at
  <2>1. n \in Nodes /\ Return(n, "FAILURE", S, 0, {}) /\ S \in SUBSET Kids(n)
    BY <1>1, <1>2
  <2> HIDE DEF n
  <2>2. /\ at' = n /\ back' = "FAILURE"
        /\ status'[n] = "FAILURE" /\ heard'[n] = "FAILURE" /\ idx'[n] = 0
        /\ \A m \in Nodes \ {n} :
             /\ status'[m] = IF Reaches(S, m) THEN "IDLE" ELSE status[m]
             /\ idx'[m] = IF Halts(S, m) THEN 0 ELSE idx[m]
             /\ heard'[m] \in {heard[m], "none"}
             /\ Reaches(S, m) => n \in Above[m]
    BY <2>1, ReturnFrame
  <2>3. \A m \in Nodes \ {n} :
          idx'[m] = idx[m] \/ \A d \in Kids(m) : status'[d] = "IDLE"
    BY <2>1, ReturnForgets
  <2> QED
    BY <2>2, <2>3 DEF n
<1> QED
  BY <1>1, <1>3 DEF Fails, Halts

LEMMA TimesOutFrame ==
  ASSUME IInv, CounterQuiet, NEW n \in Timeouts, TimesOut(n)
  PROVE  /\ n \in Nodes /\ First(n) \in Manoeuvres /\ Kids(n) = {First(n)}
         /\ n # "Timeout_4000" /\ ~(at # "outside" /\ n \in Above[at])
         /\ at' = at /\ back' = back /\ heard' = heard
         /\ status[First(n)] = "RUNNING" /\ status'[First(n)] = "IDLE"
         /\ \A m \in Nodes \ {First(n)} : status'[m] = status[m]
         /\ idx'[n] = 2 /\ idx'[First(n)] = 0
         /\ \A m \in Nodes \ {n, First(n)} : idx'[m] = idx[m]
<1> DEFINE m == First(n)
<1>1. n \in Nodes /\ Kids(n) = {m} /\ m \in Nodes /\ m # n
  BY Classes, Document, OneChild, AboveKid
<1>2. /\ status[m] = "RUNNING" /\ ~(at # "outside" /\ n \in Above[at])
      /\ at' = at /\ back' = back /\ status' = StatusAfter({m})
      /\ idx' = [IdxAfter({m}) EXCEPT ![n] = 2] /\ heard' = Forget({}, {m})
  BY <1>1 DEF TimesOut, Expire
<1>3. n # "Timeout_4000"
  <2> SUFFICES ASSUME n = "Timeout_4000" PROVE FALSE
    OBVIOUS
  <2>1. m = "DECO_CounterAttackCheck"
    BY <1>1, Families DEF Family, First
  <2> QED
    BY <1>2, <2>1 DEF CounterQuiet
<1>4. m \in Manoeuvres
  BY <1>1, <1>3, Families DEF Family, First, Timeouts, Manoeuvres
<1>5. Kids(m) = {}
  BY <1>4, LeavesAre DEF Leaves, Kids
<1>6. \A x \in Nodes : Reaches({m}, x) <=> x = m
  <2>1. ASSUME NEW x \in Nodes, Reaches({m}, x), x # m PROVE FALSE
    <3>1. m \in Above[x]
      BY <2>1 DEF Reaches
    <3> QED
      BY <1>5, <3>1, AboveVia
  <2> QED
    BY <2>1 DEF Reaches
<1>7. \A x \in Nodes : Halts({m}, x) <=> x = m
  BY <1>2, <1>6 DEF Halts
<1>8. heard' = heard
  <2>1. \A x \in Nodes : x # Root => ~Halts({m}, Parent[x])
    <3> SUFFICES ASSUME NEW x \in Nodes \ {Root}, Parent[x] = m PROVE FALSE
      BY <1>7, ParentOf
    <3> QED
      BY <1>5, ParentOf
  <2> QED
    BY <1>2, <2>1 DEF Forget, IInv, TypeOK
<1> HIDE DEF m
<1>9. status'[m] = "IDLE" /\ \A x \in Nodes \ {m} : status'[x] = status[x]
  BY <1>1, <1>2, <1>6 DEF StatusAfter
<1>10. idx'[n] = 2 /\ idx'[m] = 0 /\ \A x \in Nodes \ {n, m} : idx'[x] = idx[x]
  BY <1>1, <1>2, <1>7 DEF IdxAfter
<1> QED
  BY <1>1, <1>2, <1>3, <1>4, <1>8, <1>9, <1>10 DEF m

LEMMA BeginFrame ==
  ASSUME IInv, Begins
  PROVE  /\ at = "outside" /\ back = "none" /\ at' = Root /\ back' = "none"
         /\ heard' = heard /\ status' = status /\ idx' = idx
<1>1. at = "outside" /\ Over = {}
  BY OutsideFacts DEF Begins, TickRoot
<1> QED
  BY <1>1, NoHalt, OutsideFacts DEF Begins, TickRoot, Descend

LEMMA EndFrame ==
  ASSUME IInv, Ends
  PROVE  /\ at = Root /\ back # "none" /\ at' = "outside" /\ back' = "none"
         /\ idx' = idx /\ \A m \in Nodes \ {Root} : status'[m] = status[m]
         /\ status'[Root] = (IF status[Root] \in Decided THEN "IDLE" ELSE status[Root])
         /\ \A m \in Nodes : heard'[m] \in {heard[m], "none"}
<1>1. \A m \in Nodes : heard'[m] \in {heard[m], "none"}
  BY DEF Ends, RootReturns, Forget
<1>2. Root \in Nodes /\ status \in [Nodes -> Status]
  BY RootFacts DEF IInv, TypeOK
<1> QED
  BY <1>1, <1>2 DEF Ends, RootReturns

\* How a node comes to a result.
Result(m) ==
  \/ m \in Leaves /\ at = m /\ Act(m)
  \/ m \in DOMAIN Inner /\ at = m /\ Fails(m)
  \/ at \in Nodes \ {Root} /\ back # "none" /\ m = Parent[at] /\ Passes(at)

LEMMA AnyStep ==
  ASSUME IInv, Anew, CounterQuiet, RNext, NEW m \in Nodes
  PROVE  /\ \/ heard'[m] \in {heard[m], "none"}
            \/ at' = m /\ back' = heard'[m] /\ Result(m)
         /\ m \in Leaves =>
              \/ status'[m] \in {status[m], "IDLE"}
              \/ at = m /\ at' = m /\ back' = status'[m] /\ Act(m)
<1>0. \A p \in DOMAIN Inner : p \notin Leaves
  BY LeavesAre
<1>1. CASE Begins
  BY <1>1, BeginFrame
<1>2. CASE Ends
  <2>1. Root \notin Leaves
    BY <1>0, InnerNodes, RuleAssumption
  <2> QED
    BY <1>2, <2>1, EndFrame
<1>3. ASSUME NEW n \in Timeouts, TimesOut(n)
      PROVE  heard' = heard /\ status'[m] \in {status[m], "IDLE"}
  BY <1>3, TimesOutFrame
<1>4. CASE at \in Leaves /\ Act(at)
  <2> DEFINE l == at
  <2>1. l \in Leaves /\ Act(l)
    BY <1>4
  <2> HIDE DEF l
  <2>2. /\ at = l /\ at' = l /\ status'[l] = back' /\ heard'[l] = back'
        /\ \A x \in Nodes \ {l} : status'[x] = status[x] /\ heard'[x] = heard[x]
    BY <2>1, ActFrame
  <2> QED
    BY <2>1, <2>2 DEF Result
<1>5. CASE at \in DOMAIN Inner /\ Fails(at)
  BY <1>0, <1>5, FailFrame DEF Result
<1>6. CASE at \in DOMAIN Inner /\ Enters(at)
  <2> DEFINE n == at
  <2>1. at = n /\ n \in DOMAIN Inner /\ Enters(n)
    BY <1>6
  <2> HIDE DEF n
  <2>2. heard' = heard /\ \A x \in Nodes \ {n} : status'[x] = status[x]
    BY <2>1, EnterFrame
  <2> QED
    BY <1>0, <2>1, <2>2
<1>7. CASE at \in Nodes \ {Root} /\ back # "none" /\ Passes(at)
  <2> DEFINE c == at
  <2>1. at = c /\ c \in Nodes \ {Root} /\ back # "none" /\ Passes(c)
    BY <1>7
  <2> HIDE DEF c
  <2>2. /\ Parent[c] \in DOMAIN Inner /\ at' = Parent[c] /\ back' = back
        /\ heard'[Parent[c]] = back
        /\ \A x \in Nodes \ {Parent[c]} :
              status'[x] \in {status[x], "IDLE"} /\ heard'[x] \in {heard[x], "none"}
    BY <2>1, PassFrame
  <2> QED
    BY <1>0, <2>1, <2>2 DEF Result
<1>8. CASE at \in Nodes \ {Root} /\ back # "none" /\ GoesOn(at)
  <2> DEFINE c == at
  <2>1. at = c /\ c \in Nodes \ {Root} /\ back # "none" /\ GoesOn(c)
    BY <1>8
  <2> HIDE DEF c
  <2>2. status' = status /\ \A x \in Nodes : heard'[x] \in {heard[x], "none"}
    BY <2>1, GoesOnFrame
  <2> QED
    BY <2>2
<1> QED
  BY <1>1, <1>2, <1>3, <1>4, <1>5, <1>6, <1>7, <1>8, Steps
-----------------------------------------------------------------------------
(* Each part of the invariant is kept.                                     *)

LEMMA AnswersKept ==
  ASSUME IInv, Anew, CounterQuiet, Answers, RNext
  PROVE  Answers'
<1> SUFFICES ASSUME NEW m \in Nodes
             PROVE  /\ m \in Quick => heard'[m] # "RUNNING"
                    /\ m \in Firm => heard'[m] # "FAILURE"
  BY DEF Answers
<1>1. CASE heard'[m] \in {heard[m], "none"}
  BY <1>1 DEF Answers
<1>2. CASE m \in Leaves /\ at = m /\ Act(m) /\ heard'[m] = back'
  <2>1. back' \in Results[m] /\ (back' = "RUNNING" => m \in Manoeuvres)
    BY <1>2, ActFrame
  <2>2. m \in Quick => m \notin Manoeuvres
    BY Classes DEF Quick, Sure, Manoeuvres, Tests, Picky, Services, Update, Ground
  <2>3. m \in Firm => Results[m] = {"SUCCESS"}
    <3>1. m \in Firm => m \in Services \cup (Tasks \ (Manoeuvres \cup Picky))
      BY <1>2, InnerNodes, LeavesAre, RuleAssumption DEF Firm, Sure, Select
    <3> QED
      BY <1>2, <3>1, LeafResults
  <2> QED
    BY <1>2, <2>1, <2>2, <2>3
<1>3. CASE m \in DOMAIN Inner /\ at = m /\ Fails(m) /\ heard'[m] = back'
  <2>1. heard'[m] = "FAILURE"
    BY <1>3, FailFrame
  <2>2. m \notin InTurn
    BY <1>3 DEF Fails, InTurn, Single
  <2> QED
    BY <1>3, <2>1, <2>2, FirmKids
<1>4. CASE at \in Nodes \ {Root} /\ back # "none" /\ m = Parent[at] /\ Passes(at)
           /\ heard'[m] = back'
  <2> DEFINE c == at
  <2>1. at = c /\ c \in Nodes \ {Root} /\ back # "none" /\ Passes(c) /\ m = Parent[c]
    BY <1>4
  <2> HIDE DEF c
  <2>2. m \in DOMAIN Inner /\ c \in Kids(m) /\ heard[c] = back /\ heard'[m] = back
        /\ back \in {"RUNNING"} \cup Decided
    BY <2>1, PassFrame
  <2>3. m \in Quick => heard'[m] # "RUNNING"
    BY <2>1, <2>2, QuickKids DEF Answers
  <2>4. ASSUME m \in Firm, back = "FAILURE" PROVE FALSE
    <3>1. m \in InTurn /\ Last(m) \in Firm /\ (m \notin Fallbacks => Kids(m) \subseteq Firm)
      BY <2>2, <2>4, FirmKids
    <3>2. m \in Fallbacks => c = Last(m)
      BY <2>1, <2>4, <3>1, KindFacts DEF Passes
    <3> QED
      BY <2>1, <2>2, <2>4, <3>1, <3>2 DEF Answers
  <2> QED
    BY <2>2, <2>3, <2>4
<1> QED
  BY <1>1, <1>2, <1>3, <1>4, AnyStep DEF Result

LEMMA AnewKept ==
  ASSUME IInv, Anew, CounterQuiet, RNext
  PROVE  Anew'
<1> SUFFICES ASSUME NEW m \in Manoeuvres, status'[m] \in Decided
             PROVE  at' = m /\ back' # "none"
  BY DEF Anew
<1>1. m \in Leaves /\ m \in Nodes
  BY LeavesAre DEF Leaves
<1>2. CASE at = m /\ at' = m /\ back' = status'[m] /\ Act(m)
  BY <1>2 DEF Decided
<1>3. CASE status'[m] \in {status[m], "IDLE"}
  <2>1. status[m] \in Decided /\ at = m /\ back # "none" /\ m # Root
    BY <1>1, <1>3, LeavesAre, InnerNodes, RuleAssumption DEF Anew, Decided
  <2>2. ASSUME Passes(m) PROVE FALSE
    <3>1. status[m] = back
      BY <1>1, <2>1, <2>2, PassFrame
    <3>2. status'[m] = "IDLE"
      BY <1>1, <2>1, <2>2, <3>1, PassFrame
    <3> QED
      BY <3>2 DEF Decided
  <2>3. ~GoesOn(m)
    <3>1. Parent[m] \in Timeouts
      BY Families DEF Family, Manoeuvres, Timeouts
    <3> QED
      BY <3>1 DEF GoesOn, InTurn
  <2>4. CASE \E n \in Timeouts : TimesOut(n)
    BY <2>1, <2>4, TimesOutFrame
  <2>5. ~Begins /\ ~Ends /\ ~Act(m) /\ m \notin DOMAIN Inner
    BY <1>1, <2>1, BeginFrame, EndFrame, LeavesAre DEF Act, TickLeaf, Ticks
  <2> QED
    BY <1>1, <2>1, <2>2, <2>3, <2>4, <2>5, Steps
<1> QED
  BY <1>1, <1>2, <1>3, AnyStep

\* A child on the way of the tick is the current one.
LEMMA Current ==
  ASSUME IInv, NEW p \in InTurn, NEW c \in Kids(p), c \in Ticked
  PROVE  Pos[c] = idx[p] + 1 /\ idx[p] \in Nat /\ p \in Nodes
<1>1. p \in Nodes /\ kind[p] \in Memory
  BY KindFacts, Document DEF Memory
<1> QED
  BY <1>1 DEF IInv, Local, InOrder

LEMMA BeyondKept ==
  ASSUME IInv, Anew, CounterQuiet, Beyond, RNext
  PROVE  Beyond'
<1> SUFFICES ASSUME NEW p \in InTurn, NEW d \in Kids(p), Pos[d] > idx'[p] + 1,
                    status'[d] = "RUNNING"
             PROVE  FALSE
  BY DEF Beyond
<1>1. p \in Nodes /\ p \notin Leaves /\ p \notin Timeouts
  BY KindFacts, Document, LeavesAre DEF InTurn
<1>2. d \in Nodes \ {Root} /\ Parent[d] = p /\ d # p /\ Pos[d] \in Nat /\ d \notin Above[p]
  BY <1>1, KidOf, AboveKid, Children1
<1>3. idx[p] \in Nat
  BY <1>1 DEF IInv
<1>4. ASSUME status[d] = "RUNNING" PROVE ~(Pos[d] > idx[p] + 1)
  BY <1>4 DEF Beyond
<1>5. ASSUME d \in Ticked PROVE ~(Pos[d] > idx[p] + 1)
  BY <1>2, <1>3, <1>5, Current
<1>6. idx'[p] # idx[p]
  <2> SUFFICES ASSUME idx'[p] = idx[p] PROVE FALSE
    OBVIOUS
  <2>1. status[d] # "RUNNING" /\ d \notin Ticked
    BY <1>4, <1>5
  <2>2. at # d
    BY <1>2, <2>1 DEF Ticked
  <2>3. CASE Begins \/ Ends \/ \E n \in Timeouts : TimesOut(n)
    BY <1>2, <2>1, <2>3, BeginFrame, EndFrame, TimesOutFrame
  <2>4. CASE at \in Leaves /\ Act(at)
    BY <1>2, <2>1, <2>2, <2>4, AnyStep, ActFrame
  <2>5. CASE at \in DOMAIN Inner /\ Fails(at)
    BY <1>2, <2>1, <2>2, <2>5, FailFrame
  <2>6. CASE at \in DOMAIN Inner /\ Enters(at)
    BY <1>2, <2>1, <2>2, <2>6, EnterFrame
  <2>7. CASE at \in Nodes \ {Root} /\ back # "none" /\ GoesOn(at)
    BY <1>2, <2>1, <2>7, GoesOnFrame
  <2>8. CASE at \in Nodes \ {Root} /\ back # "none" /\ Passes(at)
    <3>1. d = Parent[at]
      BY <1>2, <2>1, <2>8, PassFrame
    <3>2. Parent[at] \in Path
      BY <2>8, HearsFacts
    <3> QED
      BY <2>1, <3>1, <3>2 DEF Ticked
  <2> QED
    BY <2>3, <2>4, <2>5, <2>6, <2>7, <2>8, Steps
<1>7. ~Begins /\ ~Ends
  BY <1>6, BeginFrame, EndFrame
<1>8. ~(\E n \in Timeouts : TimesOut(n))
  BY <1>1, <1>6, TimesOutFrame, LeavesAre
<1>9. ~(at \in Leaves /\ Act(at))
  BY <1>1, <1>6, ActFrame
<1>10. ~(at \in DOMAIN Inner /\ Fails(at))
  <2> SUFFICES ASSUME at \in DOMAIN Inner, Fails(at) PROVE FALSE
    OBVIOUS
  <2>1. p # at
    BY <1>1 DEF Fails, InTurn, Single
  <2> QED
    BY <1>1, <1>6, <2>1, FailFrame
<1>11. ~(at \in DOMAIN Inner /\ Enters(at))
  BY <1>1, <1>6, EnterFrame
<1>12. ASSUME at \in Nodes \ {Root}, back # "none", Passes(at) PROVE FALSE
  <2>1. CASE p # Parent[at]
    BY <1>1, <1>6, <1>12, <2>1, PassFrame
  <2>2. CASE p = Parent[at]
    BY <1>1, <1>6, <1>12, <2>2, PassFrame
  <2> QED
    BY <2>1, <2>2
<1>13. ASSUME at \in Nodes \ {Root}, back # "none", GoesOn(at) PROVE FALSE
  <2>1. p = Parent[at] /\ idx'[p] = idx[p] + 1 /\ status'[d] = status[d]
    BY <1>1, <1>6, <1>13, GoesOnFrame
  <2>2. ~(Pos[d] > idx[p] + 1)
    BY <1>4, <2>1
  <2> QED
    BY <1>2, <1>3, <2>1, <2>2
<1> QED
  BY <1>7, <1>8, <1>9, <1>10, <1>11, <1>12, <1>13, Steps

\* Where the nodes over the counter-attack stand.
LEMMA CounterNodes ==
  /\ {"CanRetry", "Timeout_4000", "DECO_CounterAttackCheck"} \subseteq Nodes \cap DOMAIN Inner
  /\ {"CanRetry", "Timeout_4000", "DECO_CounterAttackCheck"} \cap (InTurn \cup Leaves) = {}
  /\ {"CanRetry", "Timeout_4000", "DECO_CounterAttackCheck"} \subseteq Quick \ {Root}
  /\ "Timeout_4000" \in Timeouts /\ "CanRetry" \notin Timeouts
  /\ "DECO_CounterAttackCheck" \notin Timeouts
  /\ Kids("Timeout_4000") = {"DECO_CounterAttackCheck"}
  /\ Kids("DECO_CounterAttackCheck") = {"Task_RollReverseAttack"}
  /\ "Task_RollReverseAttack" \in Firm
<1>1. {"CanRetry", "Timeout_4000", "DECO_CounterAttackCheck"} \subseteq Nodes \cap DOMAIN Inner
  BY InnerNodes, Document
<1>2. {"CanRetry", "Timeout_4000", "DECO_CounterAttackCheck"} \cap (InTurn \cup Leaves) = {}
  BY <1>1, LeavesAre DEF InTurn, Timeouts, Single
<1>3. {"CanRetry", "Timeout_4000", "DECO_CounterAttackCheck"} \subseteq Quick \ {Root}
  BY RuleAssumption DEF Quick
<1>4. "Timeout_4000" \in Timeouts /\ "CanRetry" \notin Timeouts
      /\ "DECO_CounterAttackCheck" \notin Timeouts
  BY DEF Timeouts
<1>5. /\ Kids("Timeout_4000") = {"DECO_CounterAttackCheck"}
      /\ Kids("DECO_CounterAttackCheck") = {"Task_RollReverseAttack"}
  BY Families DEF Family
<1>6. "Task_RollReverseAttack" \in Firm
  BY WillingTasks DEF Willing, Firm, Sure
<1> QED
  BY <1>1, <1>2, <1>3, <1>4, <1>5, <1>6

LEMMA CounterProgress ==
  ASSUME IInv, Anew, CounterQuiet, RNext
  PROVE  idx'["CanRetry"] = 0 /\ idx'["Timeout_4000"] # 2
<1> DEFINE R == "CanRetry"
           T == "Timeout_4000"
<1>1. /\ R \in Nodes /\ T \in Nodes /\ T \in Timeouts /\ R \notin Timeouts /\ R # T
      /\ R \notin Leaves /\ T \notin Leaves /\ R \notin InTurn /\ T \notin InTurn
      /\ R # "DECO_CounterAttackCheck"
  BY CounterNodes
<1>2. idx[R] = 0 /\ idx[T] # 2 /\ idx \in [Nodes -> Nat]
  BY DEF CounterQuiet, IInv
<1> HIDE DEF R, T
<1>3. CASE Begins \/ Ends
  BY <1>2, <1>3, BeginFrame, EndFrame DEF R, T
<1>4. ASSUME NEW n \in Timeouts, TimesOut(n)
      PROVE  idx'[R] = idx[R] /\ idx'[T] = idx[T]
  <2>1. First(n) \in Leaves /\ n # T
    BY <1>4, TimesOutFrame, LeavesAre DEF T
  <2> QED
    BY <1>1, <1>4, <2>1, TimesOutFrame
<1>5. CASE at \in Leaves /\ Act(at)
  BY <1>1, <1>2, <1>5, ActFrame DEF R, T
<1>6. CASE at \in DOMAIN Inner /\ Fails(at)
  <2>1. at # R
    BY <1>1, <1>6 DEF Fails
  <2>2. idx'[R] \in {idx[R], 0} /\ idx'[T] \in {idx[T], 0}
    BY <1>1, <1>6, <2>1, FailFrame
  <2> QED
    BY <1>2, <2>2 DEF R, T
<1>7. CASE at \in DOMAIN Inner /\ Enters(at)
  <2>1. idx' = [idx EXCEPT ![at] = IF at \in Timeouts THEN 1 ELSE @]
    BY <1>7 DEF Enters
  <2>2. idx'[R] = idx[R] /\ (idx'[T] = 1 \/ idx'[T] = idx[T])
    BY <1>1, <1>2, <2>1
  <2> QED
    BY <1>2, <2>2 DEF R, T
<1>8. CASE at \in Nodes \ {Root} /\ back # "none" /\ Passes(at)
  <2>1. \A m \in {R, T} : idx'[m] \in {idx[m], 0}
    <3> SUFFICES ASSUME NEW m \in {R, T} PROVE idx'[m] \in {idx[m], 0}
      OBVIOUS
    <3>1. m \in Nodes
      BY <1>1
    <3>2. CASE m # Parent[at]
      BY <1>8, <3>1, <3>2, PassFrame
    <3>3. CASE m = Parent[at]
      BY <1>8, <3>1, <3>3, PassFrame
    <3> QED
      BY <3>2, <3>3
  <2> QED
    BY <1>2, <2>1 DEF R, T
<1>9. CASE at \in Nodes \ {Root} /\ back # "none" /\ GoesOn(at)
  BY <1>1, <1>2, <1>9, GoesOnFrame DEF R, T
<1> QED
  BY <1>2, <1>3, <1>4, <1>5, <1>6, <1>7, <1>8, <1>9, Steps DEF R, T

LEMMA CounterStatus ==
  ASSUME IInv, Anew, Answers, CounterQuiet, RNext
  PROVE  /\ status'["DECO_CounterAttackCheck"] # "RUNNING"
         /\ \A n \in {"CanRetry", "Timeout_4000"} : status'[n] = "RUNNING" => n \in Path'
<1> DEFINE D == "DECO_CounterAttackCheck"
<1> SUFFICES ASSUME NEW m \in {"CanRetry", "Timeout_4000", D}, status'[m] = "RUNNING"
             PROVE  m # D /\ m \in Path'
  OBVIOUS
<1>1. m \in Nodes \ {Root} /\ m \in DOMAIN Inner /\ m \in Quick /\ m \notin Leaves
  BY CounterNodes
<1>2. status[m] = "RUNNING" => at \in Nodes /\ m # D /\ m \in Above[at]
  BY DEF CounterQuiet, Path, IInv, TypeOK
<1>3. ~Begins /\ ~Ends
  <2>1. Begins => status'[m] = status[m] /\ at \notin Nodes
    BY BeginFrame, TreeAssumption
  <2>2. Ends => status'[m] = status[m] /\ Above[at] = {}
    BY <1>1, EndFrame, RootFacts
  <2> QED
    BY <1>2, <2>1, <2>2
<1>4. CASE \E n \in Timeouts : TimesOut(n)
  <2>1. status[m] = "RUNNING" /\ at' = at
    BY <1>1, <1>4, TimesOutFrame
  <2> QED
    BY <1>2, <2>1, TreeAssumption DEF Path
<1>5. CASE at \in Leaves /\ Act(at)
  <2>1. status[m] = "RUNNING" /\ at' = at
    BY <1>1, <1>5, ActFrame
  <2> QED
    BY <1>2, <2>1, TreeAssumption DEF Path
<1>6. CASE at \in DOMAIN Inner /\ Fails(at)
  <2>1. status[m] = "RUNNING" /\ at' = at
    BY <1>1, <1>6, FailFrame
  <2> QED
    BY <1>2, <2>1, TreeAssumption DEF Path
<1>7. CASE at \in DOMAIN Inner /\ Enters(at)
  <2>1. at \in Nodes /\ at' \in Kids(at) /\ at' # "outside"
    BY <1>7, EnterFrame, TreeAssumption
  <2>2. Above[at'] = {at} \cup Above[at]
    BY <2>1, AboveKid
  <2>3. CASE m = at
    <3>1. m # D
      <4>1. m = D => status'[m] = status[m]
        BY <1>1, <1>7, <2>3 DEF Enters, IInv, TypeOK
      <4> QED
        BY <1>2, <4>1
    <3> QED
      BY <2>1, <2>2, <2>3, <3>1 DEF Path
  <2>4. CASE m # at
    <3>1. status[m] = "RUNNING"
      BY <1>1, <1>7, <2>4, EnterFrame
    <3> QED
      BY <1>2, <2>1, <2>2, <3>1 DEF Path
  <2> QED
    BY <2>3, <2>4
<1>8. CASE at \in Nodes \ {Root} /\ back # "none" /\ Passes(at)
  <2>1. /\ Parent[at] \in Nodes /\ at \in Kids(Parent[at]) /\ heard[at] = back
        /\ at' = Parent[at] /\ status'[Parent[at]] = back
    BY <1>8, PassFrame
  <2>2. m # Parent[at]
    <3>1. m = Parent[at] => at \in Quick
      BY <1>1, <2>1, QuickKids
    <3> QED
      BY <1>8, <2>1, <3>1 DEF Answers
  <2>3. status[m] = "RUNNING"
    BY <1>1, <1>8, <2>2, PassFrame
  <2>4. Above[at] = {Parent[at]} \cup Above[Parent[at]]
    BY <2>1, AboveKid
  <2> QED
    BY <1>2, <2>1, <2>2, <2>3, <2>4, TreeAssumption DEF Path
<1>9. CASE at \in Nodes \ {Root} /\ back # "none" /\ GoesOn(at)
  <2>1. /\ Parent[at] \in Nodes /\ at \in Kids(Parent[at]) /\ at' \in Kids(Parent[at])
        /\ status[m] = "RUNNING" /\ at' \in Nodes
    BY <1>9, GoesOnFrame
  <2>2. Above[at'] = Above[at]
    <3>1. \A d \in Kids(Parent[at]) : Above[d] = {Parent[at]} \cup Above[Parent[at]]
      BY <2>1, AboveKid
    <3> QED
      BY <2>1, <3>1
  <2> QED
    BY <1>2, <2>1, <2>2, TreeAssumption DEF Path
<1> QED
  BY <1>3, <1>4, <1>5, <1>6, <1>7, <1>8, <1>9, Steps

LEMMA CounterKept ==
  ASSUME IInv, Anew, Answers, CounterQuiet, RNext
  PROVE  CounterQuiet'
<1>1. ASSUME at' \in {"Timeout_4000", "DECO_CounterAttackCheck"}, back' = "FAILURE"
      PROVE  ~counter'
  <2>1. at' \notin Leaves /\ at' # "outside" /\ at' # Root
    BY <1>1, CounterNodes
  <2>2. CASE \E n \in Timeouts : TimesOut(n)
    <3>1. at' = at /\ back' = back /\ counter' = counter
      BY <2>2, TimesOutFrame DEF TimesOut
    <3> QED
      BY <1>1, <3>1 DEF CounterQuiet
  <2>3. ~(at \in Leaves /\ Act(at))
    BY <2>1, ActFrame
  <2>4. CASE at \in DOMAIN Inner /\ Fails(at)
    <3>1. at' = at /\ counter' = counter
      BY <2>4, FailFrame DEF Fails, Ghosts, blackboard
    <3>2. at # "Timeout_4000"
      BY <2>4, CounterNodes DEF Fails, CounterQuiet
    <3>3. at = "DECO_CounterAttackCheck" => ~counter
      BY <2>4, CounterNodes DEF Fails
    <3> QED
      BY <1>1, <3>1, <3>2, <3>3
  <2>5. CASE at \in Nodes \ {Root} /\ back # "none" /\ Passes(at)
    <3>1. at \in Kids(at') /\ heard[at] = back /\ back = "FAILURE" /\ counter' = counter
      BY <1>1, <2>5, PassFrame DEF Passes, Ghosts, blackboard
    <3>2. at' # "DECO_CounterAttackCheck"
      BY <2>5, <3>1, CounterNodes DEF Answers
    <3>3. at = "DECO_CounterAttackCheck"
      BY <1>1, <3>1, <3>2, CounterNodes
    <3> QED
      BY <3>1, <3>3 DEF CounterQuiet
  <2>6. ~Begins /\ ~Ends
    BY <2>1, BeginFrame, EndFrame
  <2>7. ~(at \in DOMAIN Inner /\ Enters(at))
    BY <1>1 DEF Enters
  <2>8. ~(at \in Nodes \ {Root} /\ back # "none" /\ GoesOn(at))
    BY <1>1 DEF GoesOn
  <2> QED
    BY <2>2, <2>3, <2>4, <2>5, <2>6, <2>7, <2>8, Steps
<1> QED
  BY <1>1, CounterProgress, CounterStatus DEF CounterQuiet

LEMMA RootTicked ==
  ASSUME NEW n \in Nodes
  PROVE  n = Root \/ Root \in Above[n]
<1> DEFINE S == {n} \cup Above[n]
<1>1. S \in SUBSET Nodes /\ S # {}
  BY AboveNodes
<1>2. PICK m \in S : m = Root \/ Parent[m] \notin S
  BY <1>1, Topmost
<1>3. ASSUME m # Root PROVE Parent[m] \in S
  <2>0. m \in Nodes \ {Root} /\ m \in S
    BY <1>1, <1>3
  <2> HIDE DEF S
  <2>1. m \in Nodes /\ Parent[m] \in Above[m]
    BY <2>0, AboveIs
  <2>2. Above[m] \subseteq Above[n]
    BY <2>0, AboveTransitive DEF S
  <2> QED
    BY <2>1, <2>2 DEF S
<1> QED
  BY <1>2, <1>3

\* While a tick goes on, a manoeuvre that runs is below the node at which it is.
LEMMA Lone ==
  ASSUME IInv, Beyond, at \in Nodes, NEW m \in Manoeuvres, status[m] = "RUNNING"
  PROVE  at = m \/ (at \in Above[m] /\ status[at] = "RUNNING")
<1>1. m \in Leaves /\ m \in Nodes /\ at # "outside" /\ Path = Above[at]
  BY LeavesAre, TreeAssumption DEF Leaves, Path
<1>2. m \notin Path
  <2>1. Kids(m) = {}
    BY <1>1 DEF Leaves, Kids
  <2> QED
    BY <1>1, <2>1, AboveVia
<1> SUFFICES ASSUME at # m PROVE at \in Above[m] /\ status[at] = "RUNNING"
  OBVIOUS
<1> DEFINE S == {d \in Nodes : d \notin Ticked /\ status[d] = "RUNNING"
                               /\ (d = m \/ d \in Above[m])}
<1>3. S \in SUBSET Nodes /\ m \in S
  BY <1>1, <1>2 DEF Ticked
<1>4. PICK d \in S : d = Root \/ Parent[d] \notin S
  BY <1>3, Topmost
<1>5. d # Root
  BY <1>1, RootTicked DEF Ticked
<1> DEFINE p == Parent[d]
<1>6. p \in DOMAIN Inner /\ p \in Nodes /\ d \in Kids(p) /\ p \in Above[m]
  <2>1. d \in Nodes \ {Root} /\ p \in Above[d]
    BY <1>5, AboveIs
  <2>2. Above[d] \subseteq Above[m]
    BY <1>1, AboveTransitive
  <2> QED
    BY <2>1, <2>2, ParentInner, Document
<1>7. d \notin Ticked /\ status[d] = "RUNNING" /\ p \notin S
  BY <1>4, <1>5
<1> HIDE DEF S, p
<1>8. CASE p \in Path
  <2>1. PICK c \in Kids(p) : c \in Ticked
    BY <1>1, <1>8, AboveVia DEF Ticked
  <2>2. p \notin Over
    BY <1>1, <1>8, NotAboveItself DEF Over
  <2>3. CASE p \in InTurn
    <3>1. Pos[c] = idx[p] + 1 /\ idx[p] \in Nat
      BY <2>1, <2>3, Current
    <3>2. Pos[d] \in Nat /\ (Pos[d] = Pos[c] => d = c)
      BY <1>6, <2>1, KidOf, Children1
    <3>3. ~(Pos[d] > idx[p] + 1)
      BY <1>6, <1>7, <2>3 DEF Beyond
    <3>4. ~(Pos[d] <= idx[p])
      BY <1>6, <1>7, <2>2, <2>3, KindFacts DEF IInv, Local, InOrder, Memory, Passed
    <3> QED
      BY <1>7, <2>1, <3>1, <3>2, <3>3, <3>4
  <2>4. CASE p \notin InTurn
    BY <1>6, <1>7, <2>1, <2>4, KindFacts, OneChild
  <2> QED
    BY <2>3, <2>4
<1>9. CASE p \notin Path
  <2>1. status[p] = "RUNNING"
    BY <1>6, <1>7, <1>9 DEF IInv, Local, Closed
  <2>2. p \in Ticked
    BY <1>6, <1>7, <2>1 DEF S
  <2> QED
    BY <1>6, <1>9, <2>1, <2>2 DEF Ticked
<1> QED
  BY <1>8, <1>9

LEMMA TaskNodes ==
  ASSUME NEW l \in Leaves
  PROVE  l \in Spine <=> l \in Tasks
<1>1. l \in Nodes /\ l # "UpdateCombatInformation"
  BY InnerNodes, LeavesAre
<1> QED
  BY <1>1 DEF Spine, Tasks

LEMMA FlightKept ==
  ASSUME IInv, Anew, Answers, Beyond, CounterQuiet, Flight, RNext
  PROVE  Flight'
<1> DEFINE climb == "Task_ClimbToSafeAltitude"
<1>1. ASSUME back = "none", at \in Nodes PROVE flown = {} /\ climb \notin seen
  <2>1. at # "outside"
    BY <1>1, TreeAssumption
  <2> QED
    BY <1>1, <2>1 DEF Flight, Rising
<1>2. climb \in Tasks /\ climb \in Leaves /\ Results[climb] = {"SUCCESS"}
  BY WillingTasks, LeafResults DEF Willing, Tasks
<1> HIDE DEF climb
<1>3. CASE Begins
  <2>1. at' = Root /\ back' = "none" /\ seen' = {} /\ flown' = {}
    BY <1>3, BeginFrame DEF Begins
  <2> QED
    BY <2>1 DEF Flight
<1>4. CASE Ends
  <2>1. at' = "outside" /\ at' \notin Spine /\ seen' = seen /\ flown' = flown
    BY <1>4, EndFrame, TreeAssumption DEF Ends, Spine
  <2> QED
    BY <2>1 DEF Flight
<1>5. ASSUME NEW n \in Timeouts, TimesOut(n) PROVE Flight'
  <2> DEFINE m == First(n)
  <2>1. /\ m \in Manoeuvres /\ n \in Nodes /\ at' = at /\ back' = back
        /\ seen' = seen /\ flown' = flown /\ idx'[n] = 2
        /\ status[m] = "RUNNING" /\ \A x \in Nodes : status'[x] \in {status[x], "IDLE"}
    BY <1>5, TimesOutFrame DEF TimesOut
  <2>2. ASSUME NEW l \in Tasks, Rising(l) PROVE Rising(l)'
    <3>1. m = l /\ back = "RUNNING"
      BY <2>1, <2>2 DEF Rising
    <3>2. Undone(l)'
      BY <2>1, <3>1 DEF Undone, First
    <3>3. \A x \in Manoeuvres : status'[x] = "RUNNING" => x = l /\ back' = "RUNNING"
      BY <2>1, <2>2, LeavesAre DEF Rising, Leaves
    <3> QED
      BY <2>1, <2>2, <3>1, <3>2, <3>3 DEF Rising
  <2> HIDE DEF m
  <2> QED
    BY <2>1, <2>2 DEF Flight
<1>6. ASSUME NEW l \in Leaves, Act(l) PROVE Flight'
  <2>1. /\ l \in Nodes /\ at = l /\ back = "none" /\ at' = l /\ status'[l] = back'
        /\ back' \in Results[l] /\ (back' = "RUNNING" => l \in Manoeuvres)
        /\ \A m \in Nodes \ {l} : status'[m] = status[m]
    BY <1>6, ActFrame
  <2>2. flown = {} /\ climb \notin seen
    BY <1>1, <2>1
  <2>3. /\ seen' = seen \cup {l}
        /\ flown' = IF l \in Tasks /\ back' # "FAILURE" THEN {l} ELSE {}
        /\ vp' = IF l \in Tasks THEN Command(l, back') ELSE vp
    BY <1>6, <2>2 DEF Act
  <2>4. back' \in {"RUNNING", "SUCCESS", "FAILURE"}
    BY <2>1, KindAssumption
  <2>5. ASSUME l \in Tasks, back' # "FAILURE" PROVE Rising(l)'
    <3>1. at' \in Spine
      BY <2>1, <2>5, TaskNodes
    <3>2. vp' = l
      BY <2>3, <2>5 DEF Command
    <3>3. ASSUME NEW m \in Manoeuvres, status'[m] = "RUNNING"
          PROVE  m = l /\ back' = "RUNNING"
      <4>1. ASSUME m # l PROVE FALSE
        <5>1. status[m] = "RUNNING" /\ m \in Nodes
          BY <2>1, <3>3, <4>1, LeavesAre DEF Leaves
        <5>2. l \in Above[m]
          BY <2>1, <4>1, <5>1, Lone
        <5>3. Kids(l) = {}
          BY <1>6 DEF Leaves, Kids
        <5> QED
          BY <5>1, <5>2, <5>3, AboveVia
      <4> QED
        BY <2>1, <3>3, <4>1
    <3> QED
      BY <2>1, <2>3, <2>4, <2>5, <3>1, <3>2, <3>3 DEF Rising
  <2>6. seen' \subseteq Leaves /\ flown' \subseteq seen'
    BY <1>6, <2>2, <2>3 DEF Flight
  <2>7. climb \in seen' => climb \in flown'
    BY <1>2, <2>1, <2>2, <2>3
  <2>8. at' \in Spine /\ back' \in {"SUCCESS", "RUNNING"} => flown' # {}
    BY <2>1, <2>3, TaskNodes
  <2>9. flown' # {} => l \in Tasks /\ back' # "FAILURE"
    BY <2>3
  <2> QED
    BY <2>5, <2>6, <2>7, <2>8, <2>9 DEF Flight, climb
<1>7. CASE at \in DOMAIN Inner /\ (Fails(at) \/ Enters(at))
  <2>1. back = "none" /\ at \in Nodes /\ seen' = seen /\ flown' = flown
        /\ back' \in {"FAILURE", "none"}
    BY <1>7, Document, FailFrame DEF Fails, Enters, Ghosts
  <2>2. flown = {} /\ climb \notin seen
    BY <1>1, <2>1
  <2> QED
    BY <2>1, <2>2 DEF Flight, climb
<1>8. ASSUME NEW c \in Nodes \ {Root}, at = c, back # "none", Passes(c) \/ GoesOn(c)
      PROVE  Flight'
  <2> DEFINE p == Parent[c]
  <2>1. seen' = seen /\ flown' = flown /\ vp' = vp /\ c # "outside"
    BY <1>8, TreeAssumption DEF Passes, GoesOn, Ghosts, blackboard
  <2>2. ASSUME NEW l \in Tasks, Rising(l) PROVE Passes(c) /\ Rising(l)'
    <3>1. c \in Spine /\ c \in ({l} \cup Above[l]) /\ back \in {"SUCCESS", "RUNNING"}
      BY <1>8, <2>2 DEF Rising
    <3>2. p \in Spine /\ p \in DOMAIN Inner /\ c \in Kids(p) /\ (p \in Sequences1 => c = Last(p))
      BY <1>8, <3>1, SpineUp
    <3>3. ~GoesOn(c)
      <4> SUFFICES ASSUME p \in InTurn, c # Last(p), back = Advancing(p) PROVE FALSE
        BY DEF GoesOn
      <4>1. p \in Fallbacks
        BY <3>2 DEF InTurn, Sequences1
      <4> QED
        BY <3>1, <4>1, KindFacts
    <3>4. Passes(c)
      BY <1>8, <3>3
    <3>5. /\ at' = p /\ back' = back /\ p \in Nodes
          /\ \A x \in Nodes \ {p} : status'[x] \in {status[x], "IDLE"}
          /\ back = "RUNNING" => \A x \in Nodes : idx'[x] = idx[x]
      BY <1>8, <3>4, PassFrame
    <3>6. p \in Above[l]
      <4>1. p \in Above[c] /\ l \in Nodes
        BY <1>8, AboveIs DEF Tasks, Leaves
      <4> QED
        BY <3>1, <4>1, AboveTransitive
    <3>7. \A x \in Manoeuvres : status'[x] = "RUNNING" => x = l /\ back' = "RUNNING"
      <4>1. \A x \in Manoeuvres : x \in Nodes \ {p}
        BY <3>2, LeavesAre DEF Leaves
      <4> QED
        BY <2>2, <3>5, <4>1 DEF Rising
    <3>8. back = "RUNNING" => (Undone(l) => Undone(l)')
      BY <3>5, Classes, Document DEF Undone, First
    <3> QED
      BY <2>1, <2>2, <3>2, <3>4, <3>5, <3>6, <3>7, <3>8 DEF Rising
  <2>3. ASSUME at' \in Spine, back' \in {"SUCCESS", "RUNNING"} PROVE flown # {}
    <3>1. Passes(c)
      BY <1>8, <2>3 DEF GoesOn
    <3>2. /\ at' = p /\ back' = back /\ p \in DOMAIN Inner /\ c \in Kids(p) /\ heard[c] = back
      BY <1>8, <3>1, PassFrame
    <3>3. c \in Spine \/ (p \in Sequences1 /\ c # Last(p) /\ c \in Quick)
      BY <2>3, <3>2, SpineDown
    <3>4. ~(p \in Sequences1 /\ c # Last(p) /\ c \in Quick)
      <4> SUFFICES ASSUME p \in Sequences1, c # Last(p), c \in Quick PROVE FALSE
        OBVIOUS
      <4>1. back = "SUCCESS"
        BY <2>3, <3>2 DEF Answers
      <4>2. p \in InTurn /\ p \notin Fallbacks
        BY DEF InTurn, Sequences1
      <4>3. back = Advancing(p)
        BY <4>1, <4>2, KindFacts
      <4> QED
        BY <3>1, <4>2, <4>3 DEF Passes
    <3> QED
      BY <1>8, <2>3, <3>2, <3>3, <3>4 DEF Flight
  <2> HIDE DEF p
  <2>4. at' # "outside" /\ flown' # {} => \E l \in Tasks : Rising(l)'
    BY <1>8, <2>1, <2>2 DEF Flight
  <2> QED
    BY <2>1, <2>3, <2>4 DEF Flight
<1>9. at \in Leaves => at \in Nodes
  BY DEF Leaves
<1> QED
  BY <1>3, <1>4, <1>5, <1>6, <1>7, <1>8, Steps

\* Within a tick, what has been ticked stays ticked.
LEMMA SeenGrows ==
  ASSUME RNext
  PROVE  \/ Begins
         \/ resumed' = resumed /\ seen \subseteq seen'
<1>1. ASSUME NEW l \in Leaves, Act(l) PROVE resumed' = resumed /\ seen \subseteq seen'
  BY <1>1 DEF Act
<1>2. ASSUME NEW n \in Nodes, Moves(n) PROVE resumed' = resumed /\ seen \subseteq seen'
  BY <1>2 DEF Moves
<1>3. ASSUME NEW n \in Timeouts, TimesOut(n) PROVE resumed' = resumed /\ seen \subseteq seen'
  BY <1>3 DEF TimesOut
<1> QED
  BY <1>1, <1>2, <1>3 DEF RNext, HostStep, TimerStep, Ends

\* A Sequence that has just come to a result keeps its class's promise.
LEMMA SequenceKept ==
  ASSUME IInv', NEW p \in InTurn \ Fallbacks, at' = p, back' = heard'[p], back' # "none"
  PROVE  LET h(i) == heard'[Children[p][i]]
             list == DOMAIN Children[p]
         IN  IF back' = "SUCCESS" THEN \A i \in list : h(i) = "SUCCESS"
             ELSE \E i \in list : h(i) = back' /\ \A j \in 1 .. i - 1 : h(j) = "SUCCESS"
<1>1. /\ p \in Nodes /\ p # "outside" /\ kind' \in Kinds
  BY TreeAssumption, Document DEF InTurn, IInv, TypeOK
<1>2. kind'[p] = "Sequence"
  BY <1>1, Classes DEF InTurn, Sequences1
<1>3. ~Skipped(p)'
  <2> SUFFICES ASSUME p # Root, p \in skip'[Parent[p]] PROVE FALSE
    BY DEF Skipped
  <2>1. Parent[p] \in DOMAIN Inner /\ Parent[p] \in Nodes
    BY <1>1, ParentInner, Document
  <2>2. kind'[Parent[p]] # "Parallel"
    <3>1. DOMAIN Inner = Sequences1 \cup Fallbacks \cup Timeouts \cup Single
      BY Classes DEF Sequences1
    <3> QED
      BY <1>1, <2>1, <3>1, Classes DEF Single
  <2>3. skip'[Parent[p]] = {}
    BY <2>1, <2>2 DEF IInv, Local, Unused
  <2> QED
    BY <2>3
<1>4. Verdicts'
  BY DEF IInv
<1>5. SequencePromise(at, back)'
  BY <1>1, <1>2, <1>3, <1>4 DEF Verdicts, Promise, Memory
<1>6. Advancing(at)' = "SUCCESS"
  BY <1>2 DEF Advancing
<1> QED
  BY <1>5, <1>6 DEF SequencePromise

LEMMA CheckedKept ==
  ASSUME IInv, Anew, CounterQuiet, Checked, RNext, IInv', Answers'
  PROVE  Checked'
<1> DEFINE alt == "DECO_AltitudeCheck"
           upd == "UpdateCombatInformation"
<1>1. /\ upd \in InTurn \ Fallbacks /\ Ground \in InTurn \ Fallbacks
      /\ Services \cup {alt} \subseteq Leaves /\ upd \in Nodes /\ Ground \in Nodes
  BY InnerNodes, Document, LeavesAre DEF InTurn, Fallbacks, Timeouts, Single, Ground, Tests
<1>2. /\ \A l \in Services : l \in Kids(upd) /\ \E i \in DOMAIN Children[upd] : Children[upd][i] = l
      /\ alt \in Kids(Ground) /\ Children[Ground][1] = alt /\ Len(Children[Ground]) = 2
  BY Families DEF Family, Ground, Services
<1>3. CASE Begins
  <2> SUFFICES ASSUME status[Root] # "RUNNING"
               PROVE  \A m \in Services \cup {alt, upd, Ground} : heard'[m] = "none"
    BY <1>3, BeginFrame, RuleAssumption DEF Begins, Checked
  <2>1. at = "outside" /\ heard' = heard
    BY <1>3, BeginFrame
  <2>2. Path = {} /\ Over = {} /\ \A m \in Nodes : status[m] # "RUNNING"
    BY <2>1, OutsideFacts, RunningPath
  <2>3. \A p \in InTurn : \A d \in Kids(p) : heard[d] = "none"
    <3> SUFFICES ASSUME NEW p \in InTurn, NEW d \in Kids(p) PROVE heard[d] = "none"
      OBVIOUS
    <3>1. p \in Nodes /\ kind[p] \in {"Sequence", "Fallback"}
      BY KindFacts, Document
    <3> QED
      BY <2>2, <3>1 DEF IInv, Local, Quiet
  <2>4. upd \in Kids(Root) /\ Root \in InTurn /\ Ground \in Kids(Select) /\ Select \in InTurn
    BY Families, InnerNodes, RuleAssumption
       DEF Family, Select, Ground, InTurn, Timeouts, Single
  <2> QED
    BY <1>1, <1>2, <2>1, <2>3, <2>4
<1>4. CASE resumed' = resumed /\ seen \subseteq seen'
  <2> SUFFICES ASSUME ~resumed
               PROVE  /\ \A l \in Services \cup {alt} : heard'[l] # "none" => l \in seen'
                      /\ heard'[upd] = "SUCCESS" => Services \subseteq seen'
                      /\ heard'[Ground] = "FAILURE" => alt \in seen'
                      /\ at' = Root /\ back' # "none" => Services \subseteq seen'
    BY <1>4 DEF Checked
  <2>1. ASSUME NEW l \in Services \cup {alt}, heard'[l] # "none" PROVE l \in seen'
    <3>1. l \in Leaves /\ l \in Nodes /\ l \notin DOMAIN Inner
      BY <1>1, LeavesAre
    <3>2. CASE heard'[l] \in {heard[l], "none"}
      BY <1>4, <2>1, <3>2 DEF Checked
    <3>3. CASE Result(l)
      BY <3>1, <3>3, ParentInner DEF Result, Act
    <3> QED
      BY <3>1, <3>2, <3>3, AnyStep
  <2>2. ASSUME heard'[upd] = "SUCCESS" PROVE Services \subseteq seen'
    <3>1. CASE heard'[upd] \in {heard[upd], "none"}
      BY <1>4, <2>2, <3>1 DEF Checked
    <3>2. CASE at' = upd /\ back' = heard'[upd]
      <4>1. \A i \in DOMAIN Children[upd] : heard'[Children[upd][i]] = "SUCCESS"
        BY <1>1, <2>2, <3>2, SequenceKept
      <4> QED
        BY <1>2, <2>1, <4>1
    <3> QED
      BY <1>1, <3>1, <3>2, AnyStep
  <2>3. ASSUME heard'[Ground] = "FAILURE" PROVE alt \in seen'
    <3>1. CASE heard'[Ground] \in {heard[Ground], "none"}
      BY <1>4, <2>3, <3>1 DEF Checked
    <3>2. CASE at' = Ground /\ back' = heard'[Ground]
      <4>1. PICK i \in DOMAIN Children[Ground] :
               /\ heard'[Children[Ground][i]] = "FAILURE"
               /\ \A j \in 1 .. i - 1 : heard'[Children[Ground][j]] = "SUCCESS"
        BY <1>1, <2>3, <3>2, SequenceKept
      <4>2. i \in 1 .. 2
        BY <1>1, <1>2, Children1
      <4>3. heard'[Children[Ground][1]] # "none"
        BY <4>1, <4>2
      <4> QED
        BY <1>2, <2>1, <4>3
    <3> QED
      BY <1>1, <3>1, <3>2, AnyStep
  <2>4. ASSUME at' = Root, back' # "none" PROVE Services \subseteq seen'
    <3>1. Root \in InTurn \ Fallbacks /\ back' = heard'[Root]
      BY <2>4, InnerNodes, RuleAssumption
         DEF InTurn, Fallbacks, Timeouts, Single, IInv, Focus
    <3>2. /\ Children[Root][1] = upd /\ DOMAIN Children[Root] = 1 .. 2
      BY Families, RootFacts, RuleAssumption DEF Family
    <3>3. heard'[upd] \notin {"RUNNING", "FAILURE"}
      BY <1>1 DEF Answers, Quick, Firm, Sure
    <3>4. back' \in {"SUCCESS", "RUNNING", "FAILURE"}
      BY <2>4 DEF IInv, TypeOK, Status
    <3>5. \/ \A i \in 1 .. 2 : heard'[Children[Root][i]] = "SUCCESS"
          \/ \E i \in 1 .. 2 : /\ heard'[Children[Root][i]] \in {"RUNNING", "FAILURE"}
                              /\ \A j \in 1 .. i - 1 : heard'[Children[Root][j]] = "SUCCESS"
      BY <2>4, <3>1, <3>2, <3>4, SequenceKept
    <3>6. heard'[Children[Root][1]] = "SUCCESS"
      BY <3>2, <3>3, <3>5
    <3> QED
      BY <2>2, <3>2, <3>6
  <2> QED
    BY <2>1, <2>2, <2>3, <2>4
<1> QED
  BY <1>3, <1>4, SeenGrows

\* The nodes that Reading is about, and what is above them.
Posts == {Root, Select, "OBFM_Branch", "OBFM_Action", "HABFM_Branch"}

LEMMA Branches ==
  /\ Posts \subseteq InTurn \cap Nodes
  /\ Select \in Kids(Root) /\ Pos[Select] = 2
  /\ "OBFM_Branch" \in Kids(Select) /\ Pos["OBFM_Branch"] = 2
  /\ "HABFM_Branch" \in Kids(Select) /\ Pos["HABFM_Branch"] = 3
  /\ "OBFM_Action" \in Kids("OBFM_Branch") /\ Pos["OBFM_Action"] = 2
  /\ "HABFM_Action" \in Kids("HABFM_Branch") /\ Pos["HABFM_Action"] = 2
  /\ "SetBFMMode_HABFM" \in Kids("HABFM_Branch") /\ Pos["SetBFMMode_HABFM"] = 1
  /\ "Task_AggressiveOBFM" \in Kids("OBFM_Action") /\ Pos["Task_AggressiveOBFM"] = 1
  /\ "Timeout_3500" \in Kids("OBFM_Action") /\ Pos["Timeout_3500"] = 3
  /\ {"Timeout_1C", "Timeout_2C"} \subseteq Kids("HABFM_Action")
  /\ "HABFM_Action" \in Nodes
  /\ Kids("Timeout_3500") = {"Task_LeadPursuit"}
  /\ Kids("Timeout_1C") = {"Task_OneCircleAttack"}
  /\ Kids("Timeout_2C") = {"Task_TwoCircleAttack"}
<1>1. Posts \subseteq InTurn
  BY InnerNodes, RuleAssumption DEF Posts, Select, InTurn, Timeouts, Single
<1>2. Posts \subseteq Nodes /\ "HABFM_Action" \in Nodes
  BY <1>1, InnerNodes, Document DEF InTurn
<1>3. /\ Select \in Kids(Root) /\ Pos[Select] = 2
      /\ "OBFM_Branch" \in Kids(Select) /\ Pos["OBFM_Branch"] = 2
      /\ "HABFM_Branch" \in Kids(Select) /\ Pos["HABFM_Branch"] = 3
  BY Families, RuleAssumption DEF Family, Select
<1>4. /\ "OBFM_Action" \in Kids("OBFM_Branch") /\ Pos["OBFM_Action"] = 2
      /\ "HABFM_Action" \in Kids("HABFM_Branch") /\ Pos["HABFM_Action"] = 2
      /\ "SetBFMMode_HABFM" \in Kids("HABFM_Branch") /\ Pos["SetBFMMode_HABFM"] = 1
      /\ "Task_AggressiveOBFM" \in Kids("OBFM_Action") /\ Pos["Task_AggressiveOBFM"] = 1
      /\ "Timeout_3500" \in Kids("OBFM_Action") /\ Pos["Timeout_3500"] = 3
  BY Families DEF Family
<1>5. /\ {"Timeout_1C", "Timeout_2C"} \subseteq Kids("HABFM_Action")
      /\ Kids("Timeout_3500") = {"Task_LeadPursuit"}
      /\ Kids("Timeout_1C") = {"Task_OneCircleAttack"}
      /\ Kids("Timeout_2C") = {"Task_TwoCircleAttack"}
  BY Families DEF Family
<1> QED
  BY <1>1, <1>2, <1>3, <1>4, <1>5

LEMMA AbovePosts ==
  /\ Above[Root] = {} /\ Above[Select] = {Root}
  /\ Above["OBFM_Branch"] = {Root, Select}
  /\ Above["HABFM_Branch"] = {Root, Select}
  /\ Above["OBFM_Action"] = {Root, Select, "OBFM_Branch"}
<1>1. Above[Root] = {} /\ Root \in Nodes
  BY RootFacts
<1>2. Above[Select] = {Root} /\ Select \in Nodes
  BY <1>1, Branches, AboveKid
<1>3. /\ Above["OBFM_Branch"] = {Root, Select} /\ "OBFM_Branch" \in Nodes
      /\ Above["HABFM_Branch"] = {Root, Select}
  BY <1>2, Branches, AboveKid
<1>4. Above["OBFM_Action"] = {Root, Select, "OBFM_Branch"}
  BY <1>3, Branches, AboveKid
<1> QED
  BY <1>1, <1>2, <1>3, <1>4

\* Who is ticked has its parent waiting.
LEMMA TickedUp ==
  ASSUME IInv, NEW p \in Nodes, NEW d \in Kids(p), d \in Ticked
  PROVE  p \in Ticked
  BY TickedBelow DEF IInv, Ticked

LEMMA Places ==
  ASSUME IInv, at \in Nodes
  PROVE  /\ Select \in Ticked => idx[Root] = 1
         /\ "OBFM_Branch" \in Ticked => idx[Select] = 1 /\ Select \in Ticked
         /\ "HABFM_Branch" \in Ticked => idx[Select] = 2 /\ Select \in Ticked
         /\ "OBFM_Action" \in Ticked => idx["OBFM_Branch"] = 1 /\ "OBFM_Branch" \in Ticked
         /\ "Timeout_3500" \in Ticked => idx["OBFM_Action"] = 2 /\ "OBFM_Action" \in Ticked
         /\ "HABFM_Action" \in Ticked => idx["HABFM_Branch"] = 1 /\ "HABFM_Branch" \in Ticked
         /\ "SetBFMMode_HABFM" \in Ticked =>
              idx["HABFM_Branch"] = 0 /\ "HABFM_Branch" \in Ticked
         /\ "Task_AggressiveOBFM" \in Ticked =>
              idx["OBFM_Action"] = 0 /\ "OBFM_Action" \in Ticked
         /\ \A n \in {"Timeout_1C", "Timeout_2C"} : n \in Ticked => "HABFM_Action" \in Ticked
<1>1. ASSUME NEW p \in Posts, NEW d \in Kids(p), d \in Ticked, Pos[d] \in Nat
      PROVE  idx[p] = Pos[d] - 1 /\ p \in Ticked
  <2>1. p \in InTurn /\ p \in Nodes
    BY Branches
  <2>2. Pos[d] = idx[p] + 1 /\ idx[p] \in Nat
    BY <1>1, <2>1, Current
  <2> QED
    BY <1>1, <2>1, <2>2, TickedUp
<1>2. /\ Select \in Ticked => idx[Root] = 1
      /\ "OBFM_Branch" \in Ticked => idx[Select] = 1 /\ Select \in Ticked
      /\ "HABFM_Branch" \in Ticked => idx[Select] = 2 /\ Select \in Ticked
  BY <1>1, Branches DEF Posts
<1>3. /\ "OBFM_Action" \in Ticked => idx["OBFM_Branch"] = 1 /\ "OBFM_Branch" \in Ticked
      /\ "Timeout_3500" \in Ticked => idx["OBFM_Action"] = 2 /\ "OBFM_Action" \in Ticked
      /\ "Task_AggressiveOBFM" \in Ticked =>
              idx["OBFM_Action"] = 0 /\ "OBFM_Action" \in Ticked
  BY <1>1, Branches DEF Posts
<1>4. /\ "HABFM_Action" \in Ticked => idx["HABFM_Branch"] = 1 /\ "HABFM_Branch" \in Ticked
      /\ "SetBFMMode_HABFM" \in Ticked =>
              idx["HABFM_Branch"] = 0 /\ "HABFM_Branch" \in Ticked
  BY <1>1, Branches DEF Posts
<1>5. \A n \in {"Timeout_1C", "Timeout_2C"} : n \in Ticked => "HABFM_Action" \in Ticked
  BY Branches, TickedUp
<1> QED
  BY <1>2, <1>3, <1>4, <1>5

\* A result leaves alone what the nodes beside and above have heard.
LEMMA ReturnHeard ==
  ASSUME IInv, NEW n \in Nodes, NEW S \in SUBSET Kids(n), NEW r, NEW i, NEW k,
         Return(n, r, S, i, k),
         NEW m \in Nodes \ {n, Root}, Parent[m] \notin Over, n \notin Above[Parent[m]]
  PROVE  heard'[m] = heard[m]
<1>1. Parent[m] \in Nodes
  BY ParentOf
<1>2. ~Halts(S, Parent[m])
  BY <1>1, ReachesBelow DEF Halts
<1> QED
  BY <1>2 DEF Return, HeardAfter, Forget

\* Where a manoeuvre, the sampler and the aggressive task stand.
LEMMA ReadersAt ==
  ASSUME IInv, at \in Leaves, at \in Nodes
  PROVE  /\ at \in Manoeuvres => Past
         /\ at = "SetBFMMode_HABFM" => idx[Root] = 1 /\ idx[Select] = 2 /\ ~Past
         /\ at = "Task_AggressiveOBFM" =>
              idx[Root] = 1 /\ idx[Select] = 1 /\ ~Past /\ "OBFM_Action" \in Ticked
<1>1. at \in Ticked /\ at # "HABFM_Branch"
  BY LeavesAre, InnerNodes DEF Ticked
<1>2. {"Timeout_3500", "Timeout_1C", "Timeout_2C"} \subseteq Nodes
  BY InnerNodes, Document
<1>3. CASE at = "Task_LeadPursuit"
  <2>1. "Timeout_3500" \in Ticked
    BY <1>1, <1>2, <1>3, Branches, TickedUp
  <2> QED
    BY <1>3, <2>1, Places DEF Past, Manoeuvres
<1>4. CASE at \in {"Task_OneCircleAttack", "Task_TwoCircleAttack"}
  <2>1. "Timeout_1C" \in Ticked \/ "Timeout_2C" \in Ticked
    BY <1>1, <1>2, <1>4, Branches, TickedUp
  <2> QED
    BY <1>4, <2>1, Places DEF Past, Manoeuvres
<1>5. CASE at = "SetBFMMode_HABFM"
  BY <1>1, <1>5, Places DEF Past, Manoeuvres
<1>6. CASE at = "Task_AggressiveOBFM"
  BY <1>1, <1>6, Places DEF Past, Manoeuvres
<1> QED
  BY <1>3, <1>4, <1>5, <1>6 DEF Manoeuvres

\* The steps that Reading looks at one by one.
LEMMA ReadingHost ==
  ASSUME IInv, Flight, Reading, Begins \/ Ends \/ \E n \in Timeouts : TimesOut(n),
         CounterQuiet
  PROVE  Reading'
<1>1. "outside" \notin Posts /\ Posts \subseteq Nodes /\ Root # "HABFM_Branch"
  BY Branches, TreeAssumption, RuleAssumption
<1>2. CASE Begins
  <2>1. /\ at = "outside" /\ at' = Root /\ back' = "none" /\ idx' = idx
        /\ resumed' = (status[Root] = "RUNNING") /\ seen' = {} /\ flown' = {}
    BY <1>2, BeginFrame DEF Begins
  <2>2. resumed' => Past
    BY <2>1 DEF Reading
  <2>3. resumed' => Past'
    BY <1>1, <2>1, <2>2 DEF Past
  <2> QED
    BY <2>1, <2>3, RootFacts DEF Reading
<1>3. CASE Ends
  <2>1. /\ at = Root /\ back # "none" /\ at' = "outside" /\ idx' = idx
        /\ status'[Root] = (IF status[Root] \in Decided THEN "IDLE" ELSE status[Root])
    BY <1>3, EndFrame
  <2>2. status'[Root] = "RUNNING" => back = "RUNNING"
    BY <2>1 DEF IInv, Focus
  <2>3. back = "RUNNING" => flown # {}
    <3>1. Root \in Spine
      BY InnerNodes, Document, LeavesAre, RuleAssumption DEF Spine
    <3> QED
      BY <2>1, <3>1 DEF Flight
  <2>4. back = "RUNNING" => Past
    BY <2>1, <2>3, RootFacts DEF Reading
  <2>5. Past => Past'
    BY <1>1, <2>1 DEF Past
  <2> QED
    BY <2>1, <2>2, <2>4, <2>5 DEF Reading
<1>4. ASSUME NEW n \in Timeouts, TimesOut(n) PROVE Reading'
  <2>1. /\ at' = at /\ back' = back /\ heard' = heard /\ resumed' = resumed
        /\ seen' = seen /\ flown' = flown /\ First(n) \in Manoeuvres
        /\ \A m \in Nodes \ {n, First(n)} : idx'[m] = idx[m]
        /\ \A m \in Nodes \ {First(n)} : status'[m] = status[m]
    BY <1>4, TimesOutFrame DEF TimesOut
  <2>2. \A m \in Posts : m # n /\ m # First(n) /\ m \in Nodes
    <3>1. \A m \in InTurn : m \notin Timeouts /\ m \notin Leaves
      BY LeavesAre DEF InTurn
    <3> QED
      BY <2>1, <3>1, Branches, LeavesAre
  <2>3. \A m \in Posts : idx'[m] = idx[m] /\ status'[m] = status[m]
    BY <2>1, <2>2
  <2>4. Past => Past'
    BY <2>1, <2>3 DEF Past, Posts
  <2>5. Ticked' = Ticked
    BY <2>1 DEF Ticked, Path
  <2> QED
    BY <2>1, <2>3, <2>4, <2>5 DEF Reading, Posts
<1> QED
  BY <1>2, <1>3, <1>4

LEMMA ReadingAct ==
  ASSUME IInv, Anew, Flight, Reading, NEW l \in Leaves, Act(l)
  PROVE  Reading'
<1>1. /\ l \in Nodes /\ at = l /\ back = "none" /\ at' = l /\ heard'[l] = back'
      /\ \A m \in Nodes \ {l} : idx'[m] = idx[m] /\ heard'[m] = heard[m]
      /\ back' = "RUNNING" => l \in Manoeuvres
      /\ back' \in Results[l]
  BY ActFrame
<1>2. flown = {} /\ l # "outside"
  BY <1>1, TreeAssumption DEF Flight, Rising
<1>3. /\ resumed' = resumed /\ seen' = seen \cup {l}
      /\ flown' = IF l \in Tasks /\ back' # "FAILURE" THEN {l} ELSE {}
  BY <1>2 DEF Act
<1>4. \A m \in Posts : idx'[m] = idx[m] /\ m # l
  BY <1>1, Branches, LeavesAre DEF InTurn
<1>5. Past => Past'
  BY <1>1, <1>4 DEF Past, Posts
<1>6. Ticked' = Ticked
  BY <1>1 DEF Ticked, Path
<1>7. ASSUME flown' = {}, "SetBFMMode_HABFM" \in seen' PROVE idx'[Select] >= 2
  <2>1. idx[Select] >= 2
    BY <1>1, <1>2, <1>3, <1>7, ReadersAt DEF Reading
  <2> QED
    BY <1>4, <2>1 DEF Posts
<1>8. ASSUME flown' = {}, "Task_AggressiveOBFM" \in seen'
      PROVE  "OBFM_Action" \in Ticked' /\ heard'["Task_AggressiveOBFM"] = "FAILURE"
  <2>1. CASE l = "Task_AggressiveOBFM"
    <3>1. "OBFM_Action" \in Ticked
      BY <1>1, <2>1, ReadersAt
    <3>2. l \in Tasks
      BY <2>1 DEF Tasks, Services, Update, Tests
    <3> QED
      BY <1>1, <1>3, <1>6, <1>8, <2>1, <3>1, <3>2
  <2>2. CASE l # "Task_AggressiveOBFM"
    <3>1. "Task_AggressiveOBFM" \in Nodes
      BY Branches, KidOf DEF Posts
    <3> QED
      BY <1>1, <1>2, <1>3, <1>6, <1>8, <2>2, <3>1 DEF Reading
  <2> QED
    BY <2>1, <2>2
<1>9. back' = "RUNNING" => Past'
  BY <1>1, <1>5, ReadersAt
<1>10. resumed' => Past'
  BY <1>1, <1>2, <1>3, <1>5 DEF Reading
<1> QED
  BY <1>1, <1>2, <1>7, <1>8, <1>9, <1>10 DEF Reading

LEMMA ReadingDown ==
  ASSUME IInv, CounterQuiet, Flight, Reading, at \in DOMAIN Inner, Fails(at) \/ Enters(at)
  PROVE  Reading'
<1> DEFINE aggressive == "Task_AggressiveOBFM"
           n == at
<1>1. /\ n \in Nodes /\ n # "outside" /\ back = "none" /\ aggressive \in Leaves
      /\ aggressive \in Nodes /\ Parent[aggressive] = "OBFM_Action" /\ aggressive # Root
  <2>1. aggressive \in Nodes \ {Root} /\ Parent[aggressive] = "OBFM_Action"
    BY Branches, KidOf DEF Posts
  <2>2. aggressive \in Leaves
    BY <2>1, InnerNodes, LeavesAre
  <2> QED
    BY <2>1, <2>2, Document, TreeAssumption DEF Fails, Enters
<1>2. flown = {}
  BY <1>1 DEF Flight, Rising
<1>3. resumed' = resumed /\ seen' = seen /\ flown' = flown
  BY DEF Fails, Enters, Ghosts
<1>4. CASE Fails(n)
  <2>1. /\ at' = n
        /\ \A m \in Nodes \ {n} : n \notin Above[m] => idx'[m] = idx[m]
    BY <1>4, FailFrame
  <2>2. n \notin InTurn
    BY <1>4 DEF Fails, InTurn, Single
  <2>3. \A m \in Posts : idx'[m] = idx[m] /\ m # n /\ n \notin Above[m] /\ m \in Nodes
    <3>1. \A m \in Posts : m \in Nodes \ {n} /\ n \notin Above[m]
      BY <2>2, Branches, AbovePosts DEF Posts
    <3> QED
      BY <2>1, <3>1
  <2>4. heard'[aggressive] = heard[aggressive]
    <3>1. PICK S \in SUBSET Kids(n) : Return(n, "FAILURE", S, 0, {})
      BY <1>4 DEF Fails
    <3>2. Over = {} /\ aggressive \in Nodes \ {n, Root}
      BY <1>1, LeavesAre DEF Over
    <3>3. n \notin Above[Parent[aggressive]]
      BY <1>1, <2>3 DEF Posts
    <3> DEFINE i == 0
               k == {}
               r == "FAILURE"
    <3>4. Return(n, r, S, i, k)
      BY <3>1
    <3> HIDE DEF n, aggressive, i, k, r
    <3> QED
      BY <1>1, <3>2, <3>3, <3>4, ReturnHeard
  <2>5. Past => Past'
    BY <1>1, <2>1, <2>3 DEF Past, Posts
  <2>6. Ticked' = Ticked
    BY <2>1 DEF Ticked, Path
  <2> QED
    BY <1>1, <1>2, <1>3, <2>1, <2>3, <2>4, <2>5, <2>6 DEF Reading, Posts
<1>5. CASE Enters(n)
  <2> HIDE DEF n
  <2>1. /\ at = n /\ at' \in Kids(n) /\ at' \in Nodes /\ heard' = heard
        /\ \A m \in Nodes \ {n} : idx'[m] = idx[m]
        /\ n \in InTurn => idx'[n] = idx[n]
    BY <1>5, EnterFrame DEF n
  <2>2. \A m \in Posts : idx'[m] = idx[m]
    BY <2>1, Branches
  <2>3. Past => Past'
    BY <1>1, <2>1, <2>2 DEF Past, Posts
  <2>4. Ticked \subseteq Ticked' /\ at' # "outside"
    <3>1. at' # "outside" /\ Above[at'] = {n} \cup Above[n]
      BY <1>1, <2>1, AboveKid, TreeAssumption
    <3> QED
      BY <1>1, <2>1, <3>1 DEF Ticked, Path
  <2> QED
    BY <1>1, <1>2, <1>3, <2>1, <2>2, <2>3, <2>4 DEF Reading, Posts
<1> QED
  BY <1>4, <1>5

\* A parent that hands on a failure stands outside the branch that was taken.
LEMMA ReadingFails ==
  ASSUME IInv, Answers, Answers', Flight, Reading,
         NEW c \in Nodes \ {Root}, at = c, back = "FAILURE", Passes(c)
  PROVE  Reading'
<1> DEFINE aggressive == "Task_AggressiveOBFM"
           p == Parent[c]
<1>1. /\ p \in Nodes /\ p \in DOMAIN Inner /\ c \in Kids(p) /\ heard[c] = "FAILURE"
      /\ at' = p /\ back' = "FAILURE" /\ heard'[p] = "FAILURE"
      /\ \A m \in Nodes \ {p} : p \notin Above[m] => idx'[m] = idx[m]
      /\ p # "outside" /\ c # "outside"
  BY PassFrame, TreeAssumption
<1>2. p \notin Firm /\ c \notin Firm
  BY <1>1 DEF Answers
<1>3. Root \in Firm /\ Select \in Firm /\ "OBFM_Action" \in Firm
  BY DEF Firm
<1>4. flown = {} /\ resumed' = resumed /\ seen' = seen /\ flown' = flown
  BY <1>1 DEF Flight, Rising, Passes, Ghosts
<1>5. c \in Ticked /\ p \in Ticked /\ Ticked = {c} \cup Above[c] /\ Ticked' = {p} \cup Above[p]
      /\ Above[c] = {p} \cup Above[p] /\ Over = {c}
  <2>1. c \in Ticked /\ p \in Path
    BY HearsFacts
  <2>2. kind[c] # "SequenceStar"
    BY KindFacts, LeavesAre, Classes DEF Timeouts
  <2> QED
    BY <1>1, <2>1, <2>2, AboveKid DEF Ticked, Path, Over
<1>6. \A m \in Posts \ {p} : (m = "OBFM_Action" => p # "OBFM_Branch") => idx'[m] = idx[m]
  BY <1>1, <1>2, <1>3, Branches, AbovePosts DEF Posts
<1>7. ASSUME Past, p # "OBFM_Branch" PROVE Past'
  <2>1. idx'[Root] = idx[Root] /\ idx'[Select] = idx[Select]
        /\ idx'["OBFM_Branch"] = idx["OBFM_Branch"]
        /\ idx'["OBFM_Action"] = idx["OBFM_Action"]
    BY <1>2, <1>3, <1>6, <1>7 DEF Posts
  <2>2. p # "HABFM_Branch" => idx'["HABFM_Branch"] = idx["HABFM_Branch"]
    BY <1>6 DEF Posts
  <2>3. c # "HABFM_Branch"
    <3>1. Parent["HABFM_Branch"] = Select
      BY Branches, KidOf DEF Posts
    <3> QED
      BY <1>2, <1>3, <3>1
  <2> QED
    BY <1>1, <1>7, <2>1, <2>2, <2>3 DEF Past
<1>8. ASSUME p = "OBFM_Branch" PROVE ~Past /\ "OBFM_Action" \notin Ticked
  <2>1. c = "SetBFMMode_OBFM" /\ Pos[c] = 1
    BY <1>1, <1>2, <1>3, <1>8, Families DEF Family
  <2>2. idx["OBFM_Branch"] = 0
    BY <1>1, <1>5, <1>8, <2>1, Branches, Current DEF Posts
  <2>3. idx[Select] = 1
    BY <1>5, <1>8, Places
  <2>4. "OBFM_Action" \notin Above["OBFM_Branch"]
    BY AbovePosts, RuleAssumption DEF Select
  <2> QED
    BY <1>5, <1>8, <2>1, <2>2, <2>3, <2>4 DEF Past
<1>9. ASSUME "OBFM_Action" \in Ticked, p # "OBFM_Branch"
      PROVE  "OBFM_Action" \in Ticked' /\ heard'[aggressive] = heard[aggressive]
  <2>1. c # "OBFM_Action"
    BY <1>2, <1>3
  <2>2. /\ aggressive \in Nodes \ {Root} /\ Parent[aggressive] = "OBFM_Action"
        /\ aggressive \notin DOMAIN Inner
    BY Branches, KidOf, InnerNodes DEF Posts
  <2>3. p \notin Above["OBFM_Action"]
    BY <1>2, <1>3, <1>9, AbovePosts
  <2> DEFINE S == IF back \in Decided THEN Kids(p) ELSE {}
             i == IF back \in Decided THEN 0 ELSE idx[p]
             k == {}
  <2>4. S \in SUBSET Kids(p) /\ Return(p, back, S, i, k)
    BY DEF Passes
  <2>5. aggressive \in Nodes \ {p, Root} /\ Parent[aggressive] \notin Over
    BY <1>1, <1>5, <2>1, <2>2
  <2> HIDE DEF S, i, k, p, aggressive
  <2>6. heard'[aggressive] = heard[aggressive]
    BY <1>1, <2>2, <2>3, <2>4, <2>5, ReturnHeard
  <2> QED
    BY <1>5, <1>9, <2>1, <2>6
<1>10. idx'[Select] = idx[Select]
  <2>1. Select \in Posts \ {p} /\ Select # "OBFM_Action"
    BY <1>2, <1>3 DEF Posts, Select
  <2> QED
    BY <1>6, <2>1
<1> HIDE DEF p
<1> QED
  BY <1>1, <1>4, <1>7, <1>8, <1>9, <1>10 DEF Reading

LEMMA ReadingPasses ==
  ASSUME IInv, Answers, Answers', Flight, Reading,
         NEW c \in Nodes \ {Root}, at = c, back # "none", Passes(c)
  PROVE  Reading'
<1> DEFINE p == Parent[c]
<1>1. /\ p \in Nodes /\ p \in DOMAIN Inner /\ c \in Kids(p) /\ heard[c] = back
      /\ back \in {"RUNNING"} \cup Decided
      /\ at' = p /\ back' = back
      /\ p # "outside" /\ c # "outside"
  BY PassFrame, TreeAssumption
<1>2. resumed' = resumed /\ seen' = seen /\ flown' = flown
  BY DEF Passes, Ghosts
<1>3. c \notin Spine => c \in Quick
  BY DEF Spine, Quick, Sure
<1>4. CASE back = "RUNNING"
  <2>1. flown # {}
    BY <1>1, <1>3, <1>4 DEF Answers, Flight
  <2>2. \A m \in Posts : idx'[m] = idx[m]
    BY <1>4, PassFrame, Branches
  <2>3. Past
    BY <1>1, <1>4, <2>1 DEF Reading
  <2>4. Past'
    BY <1>4, <2>2, <2>3 DEF Past, Posts
  <2> QED
    BY <1>1, <1>2, <2>1, <2>4 DEF Reading
<1>5. CASE back = "SUCCESS" /\ flown # {}
  BY <1>1, <1>2, <1>5 DEF Reading
<1>6. CASE back = "SUCCESS" /\ flown = {}
  <2>1. c \notin Spine
    BY <1>1, <1>6 DEF Flight
  <2>2. p \notin Spine
    <3> SUFFICES ASSUME p \in Spine PROVE FALSE
      OBVIOUS
    <3>1. p \in Sequences1 /\ c # Last(p)
      BY <1>1, <2>1, SpineDown
    <3>2. p \in InTurn /\ Advancing(p) = "SUCCESS"
      BY <3>1, KindFacts DEF InTurn, Sequences1
    <3> QED
      BY <1>6, <3>1, <3>2 DEF Passes
  <2>3. p = "UpdateCombatInformation"
    BY <1>1, <2>2, LeavesAre DEF Spine
  <2>4. \A m \in Posts : idx'[m] = idx[m]
    <3>1. \A m \in Posts : m \in Nodes \ {p} /\ p \notin Above[m]
      BY <2>3, Branches, AbovePosts, RuleAssumption DEF Posts, Select
    <3> QED
      BY <3>1, PassFrame
  <2>5. c # "HABFM_Branch" /\ "OBFM_Action" \notin Ticked
    <3>1. p \in Kids(Root)
      BY <2>3, Families, RuleAssumption DEF Family
    <3>2. Above[c] = {p, Root}
      BY <1>1, <3>1, RootFacts, AboveKid
    <3>3. c \in Services
      BY <1>1, <2>3, Families DEF Family, Services
    <3>4. c \notin DOMAIN Inner /\ "OBFM_Action" \in DOMAIN Inner /\ "HABFM_Branch" \in DOMAIN Inner
      BY <3>3, LeavesAre, InnerNodes
    <3> QED
      BY <1>1, <2>3, <3>2, <3>4, RuleAssumption DEF Ticked, Path
  <2>6. Past => Past'
    BY <1>6, <2>4, <2>5 DEF Past, Posts
  <2> QED
    BY <1>1, <1>2, <1>6, <2>4, <2>5, <2>6 DEF Reading, Posts
<1>7. CASE back = "FAILURE"
  BY <1>7, ReadingFails
<1> QED
  BY <1>1, <1>4, <1>5, <1>6, <1>7 DEF Decided

LEMMA ReadingGoesOn ==
  ASSUME IInv, Answers, Flight, Flight', Reading,
         NEW c \in Nodes \ {Root}, at = c, back # "none", GoesOn(c)
  PROVE  Reading'
<1> DEFINE p == Parent[c]
           aggressive == "Task_AggressiveOBFM"
<1>1. /\ p \in InTurn /\ p \in Nodes /\ c \in Kids(p) /\ c # Last(p)
      /\ at' \in Kids(p) /\ at' \in Nodes \ {Root} /\ back' = "none"
      /\ Pos[c] = idx[p] + 1 /\ Pos[at'] = idx[p] + 2
      /\ idx'[p] = idx[p] + 1
      /\ \A m \in Nodes \ {p} : idx'[m] = idx[m]
      /\ \A m \in Nodes \ Kids(c) : heard'[m] = heard[m]
      /\ idx[p] \in Nat /\ at' # "outside" /\ c # "outside"
  <2>1. /\ p \in Nodes /\ c \in Kids(p)
        /\ at' \in Kids(p) /\ at' \in Nodes \ {Root} /\ back' = "none"
        /\ Pos[c] = idx[p] + 1 /\ Pos[at'] = idx[p] + 2 /\ idx'[p] = idx[p] + 1
        /\ \A m \in Nodes \ {p} : idx'[m] = idx[m]
        /\ \A m \in Nodes \ Kids(c) : heard'[m] = heard[m]
    BY GoesOnFrame
  <2>2. p \in InTurn /\ c # Last(p)
    BY DEF GoesOn
  <2>3. idx[p] \in Nat
    BY <2>1 DEF IInv
  <2>4. at' # "outside" /\ c # "outside"
    BY <2>1, TreeAssumption
  <2> HIDE DEF p
  <2> QED
    BY <2>1, <2>2, <2>3, <2>4
<1>2. flown' = {} /\ flown = {} /\ resumed' = resumed /\ seen' = seen
  BY <1>1 DEF Flight, Rising, GoesOn, Ghosts
<1>3. Pos[at'] \in 1 .. Len(Children[p])
  BY <1>1, KidOf
<1> DEFINE two == {Root, "OBFM_Branch", "HABFM_Branch"}
<1>4. ASSUME p \in two PROVE idx[p] = 0
  <2>1. Len(Children[Root]) = 2
    BY Families, RootFacts, RuleAssumption DEF Family
  <2>2. Len(Children["OBFM_Branch"]) = 2 /\ Len(Children["HABFM_Branch"]) = 2
    BY InnerNodes, Document DEF Inner
  <2>3. Len(Children[p]) = 2
    BY <1>4, <2>1, <2>2
  <2> HIDE DEF p
  <2>4. idx[p] + 2 \in 1 .. 2
    BY <1>1, <1>3, <2>3
  <2> QED
    BY <1>1, <2>4
<1>5. /\ p = Root => idx[Root] = 0
      /\ \A q \in {"OBFM_Branch", "HABFM_Branch"} : p = q => idx[q] = 0
  BY <1>4
<1>6. p = Select /\ idx[Select] = 1 => idx["OBFM_Branch"] = 0
  <2> SUFFICES ASSUME p = Select, idx[Select] = 1 PROVE idx["OBFM_Branch"] = 0
    OBVIOUS
  <2>1. c = "OBFM_Branch"
    <3>1. Pos[c] = 2 /\ Children[p][Pos[c]] = c
      BY <1>1, KidOf
    <3>2. Children[Select][2] = "OBFM_Branch"
      BY Families DEF Family, Select
    <3> QED
      BY <3>1, <3>2
  <2>2. back = "FAILURE" /\ status[c] = back
    <3>1. Select \in Fallbacks
      BY DEF Select, Fallbacks
    <3> QED
      BY <1>1, <3>1, KindFacts DEF GoesOn, IInv, Focus
  <2>3. c \notin Path /\ kind[c] # "SequenceStar"
    <3>1. c \notin Above[c]
      BY NotAboveItself
    <3>2. kind[c] \in {"Sequence", "Fallback"}
      BY <2>1, Branches, KindFacts DEF Posts
    <3> QED
      BY <1>1, <3>1, <3>2 DEF Path
  <2> QED
    BY <2>1, <2>2, <2>3 DEF IInv, Local, Quiet
<1>7. \A m \in Posts : idx'[m] = IF m = p THEN idx[m] + 1 ELSE idx[m]
  BY <1>1, Branches
<1>8. \A m \in Posts : idx[m] \in Nat
  BY Branches DEF IInv
<1>9. Select # Root /\ \A q \in {"OBFM_Branch", "HABFM_Branch", "OBFM_Action"} :
                         q # Root /\ q # Select
  BY RuleAssumption DEF Select
<1>10. c = "HABFM_Branch" => p = Select /\ idx[Select] = 2
  BY <1>1, Branches, KidOf DEF Posts
<1>11. ASSUME Past PROVE Past'
  <2>1. p # Root /\ idx'[Root] = 1
    BY <1>5, <1>7, <1>11 DEF Past, Posts
  <2>2. CASE p = Select
    BY <1>6, <1>7, <1>8, <1>11, <2>1, <2>2 DEF Past, Posts
  <2>3. CASE p # Select
    <3>1. idx'[Select] = idx[Select] /\ c # "HABFM_Branch"
      BY <1>7, <1>10, <2>3 DEF Posts
    <3>2. CASE p \in {"OBFM_Branch", "HABFM_Branch"}
      BY <1>5, <1>7, <1>8, <1>11, <2>1, <3>1, <3>2 DEF Past, Posts
    <3>3. CASE p \notin {"OBFM_Branch", "HABFM_Branch"}
      <4>1. idx'["OBFM_Branch"] = idx["OBFM_Branch"] /\ idx'["HABFM_Branch"] = idx["HABFM_Branch"]
            /\ idx'["OBFM_Action"] >= idx["OBFM_Action"] /\ idx["OBFM_Action"] \in Nat
            /\ idx'["OBFM_Action"] \in Nat
        BY <1>7, <1>8, <3>3 DEF Posts
      <4> QED
        BY <1>11, <2>1, <3>1, <4>1 DEF Past
    <3> QED
      BY <3>2, <3>3
  <2> QED
    BY <2>2, <2>3
<1>12. idx[Select] >= 2 => idx'[Select] >= 2
  BY <1>7, <1>8 DEF Posts
<1>13. ASSUME "OBFM_Action" \in Ticked
       PROVE  "OBFM_Action" \in Ticked' /\ heard'[aggressive] = heard[aggressive]
  <2>1. c # "OBFM_Action"
    <3>1. c = "OBFM_Action" => p = "OBFM_Branch"
      BY Branches, KidOf DEF Posts
    <3> QED
      BY <1>1, <3>1, Lasts
  <2>2. Above[at'] = {p} \cup Above[p] /\ Above[c] = {p} \cup Above[p]
    BY <1>1, AboveKid
  <2>3. aggressive \in Nodes /\ aggressive \notin Kids(c)
    BY <2>1, Branches, KidOf DEF Posts
  <2> QED
    BY <1>1, <1>13, <2>1, <2>2, <2>3 DEF Ticked, Path
<1> HIDE DEF p
<1> QED
  BY <1>1, <1>2, <1>11, <1>12, <1>13 DEF Reading

LEMMA ReadingKept ==
  ASSUME IInv, Answers, Anew, CounterQuiet, Flight, Reading, RNext, Answers', Flight'
  PROVE  Reading'
<1>1. ASSUME at \in Leaves, Act(at) PROVE Reading'
  BY <1>1, ReadingAct
<1>2. ASSUME at \in Nodes \ {Root}, back # "none", Passes(at) \/ GoesOn(at) PROVE Reading'
  BY <1>2, ReadingPasses, ReadingGoesOn
<1> QED
  BY <1>1, <1>2, ReadingHost, ReadingDown, Steps
-----------------------------------------------------------------------------
(* The theorems.                                                           *)

LEMMA InitRInv ==
  ASSUME RInit
  PROVE  RInv
<1>1. IInv
  BY InitIInv DEF RInit
<1>2. /\ at = "outside" /\ back = "none" /\ seen = {} /\ flown = {}
      /\ \A n \in Nodes : status[n] = "IDLE" /\ heard[n] = "none" /\ idx[n] = 0
  BY DEF RInit, Init
<1>3. \A p \in InTurn : \A d \in Kids(p) : d \in Nodes
  BY Children1, Document DEF InTurn
<1>4. Manoeuvres \subseteq Nodes /\ Services \cup {"DECO_AltitudeCheck"} \subseteq Nodes
      /\ Ground \in Nodes /\ "UpdateCombatInformation" \in Nodes
      /\ Root \in Nodes /\ Root # "outside" /\ "outside" \notin Spine
  <2>1. Manoeuvres \subseteq Nodes /\ Services \subseteq Nodes /\ Tests \subseteq Nodes
    BY LeavesAre DEF Leaves
  <2>2. Ground \in Nodes /\ "UpdateCombatInformation" \in Nodes
    BY InnerNodes, Document DEF Ground
  <2>3. "outside" \notin Spine
    BY TreeAssumption DEF Spine
  <2> QED
    BY <2>1, <2>2, <2>3, RootFacts DEF Tests
<1>5. Answers /\ Anew /\ Beyond
  BY <1>2, <1>3, <1>4 DEF Answers, Anew, Beyond, Decided
<1>6. CounterQuiet
  BY <1>2, CounterNodes DEF CounterQuiet
<1>7. Flight /\ Checked /\ Reading
  BY <1>2, <1>4 DEF Flight, Checked, Reading
<1> QED
  BY <1>1, <1>5, <1>6, <1>7 DEF RInv

LEMMA NextRInv ==
  ASSUME RInv, [RNext]_rvars
  PROVE  RInv'
<1>1. CASE RNext
  <2>1. IInv /\ Answers /\ Anew /\ Beyond /\ CounterQuiet /\ Flight /\ Checked /\ Reading
    BY DEF RInv
  <2>2. IInv'
    BY <1>1, <2>1, EngineStep
  <2>3. Answers' /\ Anew' /\ Beyond'
    BY <1>1, <2>1, AnswersKept, AnewKept, BeyondKept
  <2>4. CounterQuiet' /\ Flight'
    BY <1>1, <2>1, CounterKept, FlightKept
  <2>5. Checked' /\ Reading'
    BY <1>1, <2>1, <2>2, <2>3, <2>4, CheckedKept, ReadingKept
  <2> QED
    BY <2>2, <2>3, <2>4, <2>5 DEF RInv
<1>2. CASE UNCHANGED rvars
  <2>1. /\ UNCHANGED vars /\ at' = at /\ back' = back /\ status' = status /\ idx' = idx
        /\ heard' = heard /\ counter' = counter /\ vp' = vp
        /\ resumed' = resumed /\ seen' = seen /\ flown' = flown
    BY <1>2 DEF rvars, vars, blackboard
  <2>2. IInv'
    BY <2>1, StutterStep DEF RInv
  <2>3. Answers' /\ Anew' /\ Beyond' /\ CounterQuiet'
    BY <2>1 DEF RInv, Answers, Anew, Beyond, CounterQuiet, Path
  <2>4. Flight'
    BY <2>1 DEF RInv, Flight, Rising, Undone
  <2>5. Checked' /\ Reading'
    BY <2>1 DEF RInv, Checked, Reading, Past, Ticked, Path
  <2> QED
    BY <2>2, <2>3, <2>4, <2>5 DEF RInv
<1> QED
  BY <1>1, <1>2

\* The invariant of the combat tree.
THEOREM RuleInvariant == RSpec => []RInv
<1> QED
  BY InitRInv, NextRInv, PTL DEF RSpec

\* Between two ticks the counter-attack is not RUNNING and has not used up its
\* retry: what it comes to is known in the tick that starts it.
THEOREM CounterDecidedAtOnce == RSpec => []CounterAttackAtOnce
<1>1. RInv => CounterAttackAtOnce
  BY DEF RInv, CounterQuiet, CounterAttackAtOnce, Path
<1> QED
  BY <1>1, RuleInvariant, PTL

\* A manoeuvre that is ticked is IDLE or RUNNING: its Timeout has reset it.
THEOREM ManoeuvresStartAnew == RSpec => []ActionsStartAnew
<1>1. ASSUME RInv PROVE ActionsStartAnew
  <2> SUFFICES ASSUME at # "outside", back = "none", kind[at] = "Stateful",
                      status[at] \in Decided
               PROVE  FALSE
    BY DEF ActionsStartAnew
  <2>1. at \in Nodes /\ IInv
    BY <1>1 DEF RInv, IInv, TypeOK
  <2>2. at \in Manoeuvres
    <3>1. at \in DOMAIN Inner => kind[at] # "Stateful"
      BY <2>1, KindFacts
    <3> QED
      BY <2>1, <3>1, KindFacts, LeavesAre
  <2> QED
    BY <1>1, <2>2 DEF RInv, Anew
<1> QED
  BY <1>1, RuleInvariant, PTL

\* When a tick has come to the root, one task has been flown in it.
LEMMA OneFlown ==
  ASSUME RInv, at = Root, back # "none"
  PROVE  \E l \in Tasks : Rising(l)
<1>1. IInv /\ Answers /\ Flight
  BY DEF RInv
<1>2. Root \in Spine /\ Root # "outside" /\ Root \in Nodes
  BY InnerNodes, Document, LeavesAre, RuleAssumption, RootFacts DEF Spine
<1>3. back \in {"SUCCESS", "RUNNING"}
  <2>1. heard[Root] = back /\ back \in {"SUCCESS", "RUNNING", "FAILURE"}
    BY <1>1 DEF IInv, Focus, TypeOK, Status
  <2> QED
    BY <1>1, <1>2, <2>1 DEF Answers, Firm
<1> QED
  BY <1>1, <1>2, <1>3 DEF Flight

\* Whatever the gates and the tasks answer, and wherever a tick is resumed, a
\* tick that returns has flown one task: never none, never two.
THEOREM OneCommandPerTick == RSpec => []OneCommand
<1>1. ASSUME RInv PROVE OneCommand
  <2> SUFFICES ASSUME at = Root, back # "none" PROVE Cardinality(flown) = 1
    BY DEF OneCommand
  <2>1. PICK l \in Tasks : flown = {l}
    BY <1>1, OneFlown DEF Rising
  <2> QED
    BY <2>1, FS_Singleton
<1> QED
  BY <1>1, RuleInvariant, PTL

\* The aim point that goes out is that of the task flown in this tick, unless
\* its timer has halted it since and put the old one back.
THEOREM CommandIsOfTheTask == RSpec => []VPOwned
<1>1. ASSUME RInv PROVE VPOwned
  <2> SUFFICES ASSUME at = Root, back # "none"
               PROVE  vp \in flown \/ \E n \in Timeouts : idx[n] = 2 /\ First(n) \in flown
    BY DEF VPOwned
  <2>1. PICK l \in Tasks : Rising(l)
    BY <1>1, OneFlown
  <2> QED
    BY <2>1 DEF Rising, Undone
<1> QED
  BY <1>1, RuleInvariant, PTL

\* What has been heard when the tick is below the selector.
LEMMA AfterUpdate ==
  ASSUME IInv, Checked, at \in Nodes, Select \in Ticked, ~resumed
  PROVE  Services \subseteq seen
<1> DEFINE upd == "UpdateCombatInformation"
<1>1. idx[Root] = 1 /\ Root \in InTurn /\ Root \in Nodes /\ Root \notin Fallbacks
  BY Places, Branches, RuleAssumption DEF Posts, Fallbacks
<1>2. upd \in Kids(Root) /\ Pos[upd] = 1
  BY Families, RuleAssumption DEF Family
<1>3. Root \notin Over
  <2>1. at # "outside"
    BY TreeAssumption
  <2>2. at = Root => Ticked = {Root}
    BY <1>1, <2>1, RootFacts DEF Ticked, Path
  <2>3. Select # Root
    BY RuleAssumption DEF Select
  <2> QED
    BY <2>2, <2>3 DEF Over
<1>4. heard[upd] = "SUCCESS"
  <2>1. InOrder(Root) /\ kind[Root] \in Memory /\ Advancing(Root) = "SUCCESS"
    BY <1>1, KindFacts DEF IInv, Local, Memory
  <2> QED
    BY <1>1, <1>2, <1>3, <2>1 DEF InOrder, Passed
<1> QED
  BY <1>4 DEF Checked

\* The tasks of the fight stand in a later branch of the selector than the climb.
LEMMA FightingBelow ==
  ASSUME IInv, at \in Fighting
  PROVE  /\ at \in Nodes /\ Select \in Ticked
         /\ idx[Select] \in Nat /\ idx[Select] >= 1 /\ Select # at
<1> DEFINE upd == "UpdateCombatInformation"
           climb == "Task_ClimbToSafeAltitude"
<1>1. /\ at \in Nodes /\ at \in Leaves /\ at \notin DOMAIN Inner /\ at \notin Services
      /\ at \notin Tests /\ at # climb
  BY LeavesAre DEF Fighting, Tasks, Leaves
<1>2. Ticked = {at} \cup Above[at]
  BY <1>1, TreeAssumption DEF Ticked, Path
<1>3. \A l \in Leaves : l \notin Above[at]
  <2>1. \A l \in Leaves : Kids(l) = {}
    BY DEF Leaves, Kids
  <2> QED
    BY <1>1, <2>1, AboveVia
<1>4. Root \in Above[at]
  <2>1. at # Root
    BY <1>1, InnerNodes, RuleAssumption
  <2> QED
    BY <1>1, <2>1, RootTicked
<1>5. PICK d \in Kids(Root) : d = at \/ d \in Above[at]
  BY <1>1, <1>4, AboveVia
<1>6. d = Select /\ Select \in Above[at]
  <2>1. d \in {upd, Select} /\ {upd, Select} \subseteq DOMAIN Inner
    BY Families, InnerNodes, RuleAssumption DEF Family, Select
  <2>2. d # upd
    <3> SUFFICES ASSUME upd \in Above[at] PROVE FALSE
      BY <1>1, <1>5, <2>1
    <3>1. PICK e \in Kids(upd) : e = at \/ e \in Above[at]
      BY <1>1, AboveVia
    <3>2. e \in Services
      BY <3>1, Families DEF Family, Services
    <3> QED
      BY <1>1, <1>3, <3>1, <3>2, LeavesAre
  <2> QED
    BY <1>1, <1>5, <2>1, <2>2
<1>7. PICK e \in Kids(Select) : e = at \/ e \in Above[at]
  BY <1>1, <1>6, AboveVia
<1>8. e # Ground
  <2> SUFFICES ASSUME Ground \in Above[at] PROVE FALSE
    BY <1>1, <1>7, InnerNodes DEF Ground
  <2>1. PICK g \in Kids(Ground) : g = at \/ g \in Above[at]
    BY <1>1, AboveVia
  <2>2. g \in Tests \cup {climb}
    BY <2>1, Families DEF Family, Ground, Tests
  <2>3. climb \in Leaves /\ Tests \subseteq Leaves
    BY WillingTasks, LeavesAre DEF Willing, Tasks
  <2> QED
    BY <1>1, <1>3, <2>1, <2>2, <2>3
<1>9. Pos[e] \in Nat /\ Pos[e] >= 2
  <2>1. Select \in Nodes /\ Children[Select][1] = Ground
    BY Branches, Families DEF Family, Select, Ground, Posts
  <2>2. Pos[e] \in 1 .. Len(Children[Select]) /\ Children[Select][Pos[e]] = e
    BY <2>1, KidOf
  <2> QED
    BY <1>8, <2>1, <2>2, Children1
<1>10. Select \in InTurn /\ e \in Ticked
  BY <1>2, <1>7, Branches DEF Posts
<1>11. Pos[e] = idx[Select] + 1 /\ idx[Select] \in Nat
  BY <1>10, Current
<1>12. Select # at
  BY <1>1, InnerNodes DEF Select
<1> HIDE DEF climb
<1> QED
  BY <1>1, <1>2, <1>6, <1>9, <1>11, <1>12

\* A tick that starts at the root commands a manoeuvre of the fight only after
\* all services and the altitude check, and when no climb was called for.
THEOREM GroundFirst == RSpec => []RulePriority
<1>1. ASSUME RInv PROVE RulePriority
  <2> SUFFICES ASSUME at \in Fighting, back = "none", ~resumed
               PROVE  CheckedThisTick
    BY DEF RulePriority
  <2>1. IInv /\ Flight /\ Checked
    BY <1>1 DEF RInv
  <2>2. /\ at \in Nodes /\ Select \in Ticked /\ at # "outside"
        /\ idx[Select] \in Nat /\ idx[Select] >= 1
    BY <2>1, FightingBelow, TreeAssumption
  <2>3. "Task_ClimbToSafeAltitude" \notin seen
    BY <2>1, <2>2 DEF Flight, Rising
  <2>4. heard[Ground] = "FAILURE"
    <3>1. Ground \in Kids(Select) /\ Pos[Ground] = 1
      BY Families DEF Family, Select, Ground
    <3>2. Select \in InTurn /\ Select \in Nodes /\ Select \in Fallbacks /\ Select \notin Over
      BY Branches DEF Posts, Select, Fallbacks, Over
    <3>3. InOrder(Select) /\ kind[Select] \in Memory /\ Advancing(Select) = "FAILURE"
      BY <2>1, <3>2, KindFacts DEF IInv, Local, Memory
    <3> QED
      BY <2>2, <3>1, <3>2, <3>3 DEF InOrder, Passed
  <2> QED
    BY <2>1, <2>2, <2>3, <2>4, AfterUpdate DEF CheckedThisTick, Checked
<1> QED
  BY <1>1, RuleInvariant, PTL
-----------------------------------------------------------------------------
(* The frames of the tree are those of CombatFrames, step by step.         *)

\* The mapping of Frames, by name.
Place ==
  CASE at = "outside" -> "out"
    [] at # "outside" /\ (resumed \/ Services \subseteq seen) -> "fight"
    [] OTHER -> "update"
Running == IF at = "outside" THEN status[Root] = "RUNNING" ELSE resumed

LEMMA FramesAre ==
  /\ Frames!Begin <=> /\ Place = "out"
                      /\ Place' = (IF Running THEN "fight" ELSE "update")
                      /\ resumed' = Running /\ Reader' = "nobody" /\ Running' = Running
  /\ Frames!Refresh <=> /\ Place = "update" /\ Place' = "fight"
                        /\ Running' = Running /\ resumed' = resumed /\ Reader' = Reader
  /\ \A r : Frames!Read(r) <=> /\ Place = "fight" /\ ~resumed /\ Reader = "nobody"
                               /\ Reader' = r /\ Place' = Place /\ Running' = Running
                               /\ resumed' = resumed
  /\ Frames!End <=> /\ Place = "fight" /\ Place' = "out"
                    /\ Running' \in (IF Reader = "pressed" THEN {FALSE} ELSE BOOLEAN)
                    /\ resumed' = resumed /\ Reader' = Reader
  /\ (UNCHANGED Frames!fvars) <=> /\ Place' = Place /\ Running' = Running
                                  /\ resumed' = resumed /\ Reader' = Reader
<1>1. Frames!Begin <=> /\ Place = "out"
                       /\ Place' = (IF Running THEN "fight" ELSE "update")
                       /\ resumed' = Running /\ Reader' = "nobody" /\ Running' = Running
  BY DEF Frames!Begin, Place, Running
<1>2. Frames!Refresh <=> /\ Place = "update" /\ Place' = "fight"
                         /\ Running' = Running /\ resumed' = resumed /\ Reader' = Reader
  BY DEF Frames!Refresh, Place, Running
<1>3. \A r : Frames!Read(r) <=> /\ Place = "fight" /\ ~resumed /\ Reader = "nobody"
                                /\ Reader' = r /\ Place' = Place /\ Running' = Running
                                /\ resumed' = resumed
  BY DEF Frames!Read, Place, Running
<1>4. Frames!End <=> /\ Place = "fight" /\ Place' = "out"
                     /\ Running' \in (IF Reader = "pressed" THEN {FALSE} ELSE BOOLEAN)
                     /\ resumed' = resumed /\ Reader' = Reader
  BY DEF Frames!End, Place, Running
<1>5. (UNCHANGED Frames!fvars) <=> /\ Place' = Place /\ Running' = Running
                                   /\ resumed' = resumed /\ Reader' = Reader
  BY DEF Frames!fvars, Place, Running
<1> QED
  BY <1>1, <1>2, <1>3, <1>4, <1>5

\* The values of the mapping.
LEMMA PlaceIs ==
  /\ Place = IF at = "outside" THEN "out"
             ELSE IF resumed \/ Services \subseteq seen THEN "fight" ELSE "update"
  /\ Place' = IF at' = "outside" THEN "out"
              ELSE IF resumed' \/ Services \subseteq seen' THEN "fight" ELSE "update"
<1>1. Place = IF at = "outside" THEN "out"
              ELSE IF resumed \/ Services \subseteq seen THEN "fight" ELSE "update"
  BY DEF Place
<1>2. Place' = IF at' = "outside" THEN "out"
               ELSE IF resumed' \/ Services \subseteq seen' THEN "fight" ELSE "update"
  BY DEF Place
<1> QED
  BY <1>1, <1>2

\* The leaf l is ticked: the frame goes on to the fight with the last service,
\* and somebody has read the fight with the sampler or the aggressive task.
LEMMA FramesAct ==
  ASSUME RInv, NEW l \in Leaves, Act(l)
  PROVE  Frames!Refresh \/ (\E r \in Frames!Readers : Frames!Read(r)) \/ UNCHANGED Frames!fvars
<1> DEFINE sampler == "SetBFMMode_HABFM"
           aggressive == "Task_AggressiveOBFM"
<1>1. IInv /\ Anew /\ Flight /\ Checked /\ Reading
  BY DEF RInv
<1>2. l \in Nodes /\ at = l /\ back = "none" /\ at' = l /\ l # "outside"
  BY <1>1, ActFrame, TreeAssumption
<1>3. flown = {}
  BY <1>1, <1>2 DEF Flight, Rising
<1>4. /\ resumed' = resumed /\ seen' = seen \cup {l}
      /\ flown' \in {{}, {l}} /\ (flown' = {l} => l \in Tasks)
  BY <1>3 DEF Act
<1>5. Running' = Running
  BY <1>2, <1>4 DEF Running
<1>6. CASE l \notin {sampler, aggressive}
  <2>1. Reader' = Reader
    BY <1>3, <1>4, <1>6 DEF Reader
  <2>2. Place' = Place \/ (Place = "update" /\ Place' = "fight")
    BY <1>2, <1>4, PlaceIs
  <2> QED
    BY <1>4, <1>5, <2>1, <2>2, FramesAre
<1>7. CASE l \in {sampler, aggressive}
  <2>1. ~resumed
    BY <1>1, <1>2, <1>3, <1>7, ReadersAt DEF Reading
  <2>2. Select \in Ticked
    <3>1. l \in Ticked
      BY <1>2 DEF Ticked
    <3> QED
      BY <1>1, <1>2, <1>7, <3>1, Places
  <2>3. Services \subseteq seen
    BY <1>1, <1>2, <2>1, <2>2, AfterUpdate
  <2>4. Place = "fight" /\ Place' = "fight"
    BY <1>2, <1>4, <2>3, PlaceIs
  <2>5. aggressive \notin seen
    <3> SUFFICES ASSUME aggressive \in seen PROVE FALSE
      OBVIOUS
    <3>1. "OBFM_Action" \in Ticked /\ heard[aggressive] = "FAILURE"
      BY <1>1, <1>2, <1>3 DEF Reading
    <3>2. idx[Select] = 1 /\ l = aggressive
      BY <1>1, <1>2, <1>7, <3>1, Places, ReadersAt
    <3>3. idx["OBFM_Action"] = 0
      BY <1>1, <1>2, <3>2, Places DEF Ticked
    <3>4. /\ InOrder("OBFM_Action") /\ kind["OBFM_Action"] \in {"Sequence", "Fallback"}
          /\ aggressive \in Kids("OBFM_Action") /\ Pos[aggressive] = 1
          /\ Over = {}
      BY <1>1, <1>2, Branches, KindFacts DEF IInv, Local, Posts, Over
    <3> QED
      BY <1>2, <3>1, <3>3, <3>4 DEF InOrder, Memory, Fresh
  <2>6. CASE l = sampler
    <3>1. Reader' = "sampler" /\ Reader \in {"sampler", "nobody"}
      BY <1>3, <1>4, <2>5, <2>6 DEF Reader
    <3>2. "sampler" \in Frames!Readers
      BY DEF Frames!Readers
    <3> QED
      BY <1>4, <1>5, <2>1, <2>4, <3>1, <3>2, FramesAre
  <2>7. CASE l = aggressive
    <3>1. sampler \notin seen
      BY <1>1, <1>2, <1>3, <2>7, ReadersAt DEF Reading
    <3>2. Reader = "nobody" /\ Reader' \in {"pressed", "declined"}
      BY <1>3, <1>4, <2>5, <2>7, <3>1 DEF Reader
    <3>3. {"pressed", "declined"} \subseteq Frames!Readers
      BY DEF Frames!Readers
    <3> QED
      BY <1>4, <1>5, <2>1, <2>4, <3>2, <3>3, FramesAre
  <2> QED
    BY <1>7, <2>6, <2>7
<1> QED
  BY <1>6, <1>7

LEMMA FramesEnd ==
  ASSUME RInv, Ends
  PROVE  Frames!End
<1>1. /\ at = Root /\ back # "none" /\ at' = "outside" /\ Root # "outside"
      /\ status'[Root] = (IF status[Root] \in Decided THEN "IDLE" ELSE status[Root])
      /\ seen' = seen /\ flown' = flown /\ resumed' = resumed
  BY EndFrame, RootFacts DEF RInv, Ends
<1>2. Place = "fight" /\ Place' = "out"
  BY <1>1, PlaceIs DEF RInv, Checked
<1>3. Running' = (status'[Root] = "RUNNING") /\ Running' \in BOOLEAN
  BY <1>1 DEF Running
<1>4. Reader' = Reader
  BY <1>1 DEF Reader
<1>5. ASSUME Reader = "pressed" PROVE Running' = FALSE
  <2>1. PICK l \in Tasks : Rising(l)
    BY <1>1, OneFlown
  <2>2. l = "Task_AggressiveOBFM"
    BY <1>5, <2>1 DEF Reader, Rising
  <2>3. back = "SUCCESS"
    BY <2>1, <2>2 DEF Rising, Manoeuvres
  <2>4. status[Root] = "SUCCESS"
    BY <1>1, <2>3 DEF RInv, IInv, Focus
  <2> QED
    BY <1>1, <1>3, <2>4 DEF Decided
<1> QED
  BY <1>1, <1>2, <1>3, <1>4, <1>5, FramesAre

LEMMA FramesStep ==
  ASSUME RInv, [RNext]_rvars
  PROVE  [Frames!FNext]_(Frames!fvars)
<1>1. IInv /\ Anew /\ CounterQuiet
  BY DEF RInv
<1>2. ASSUME Begins PROVE Frames!Begin
  <2>1. /\ at = "outside" /\ at' = Root /\ Root # "outside"
        /\ resumed' = (status[Root] = "RUNNING") /\ seen' = {} /\ flown' = {}
    BY <1>1, <1>2, BeginFrame, RootFacts DEF Begins
  <2>2. ~(Services \subseteq seen')
    <3>1. Services # {}
      BY DEF Services, Update
    <3> QED
      BY <2>1, <3>1
  <2>3. Running' = Running /\ Running = resumed' /\ Reader' = "nobody"
    BY <2>1 DEF Running, Reader
  <2> QED
    BY <2>1, <2>2, <2>3, PlaceIs, FramesAre
<1>3. ASSUME /\ seen' = seen /\ flown' = flown /\ resumed' = resumed
             /\ (at = "outside") <=> (at' = "outside")
             /\ at = "outside" => status'[Root] = status[Root]
      PROVE  UNCHANGED Frames!fvars
  <2>1. Running' = Running /\ Reader' = Reader
    BY <1>3 DEF Running, Reader
  <2> QED
    BY <1>3, <2>1, PlaceIs, FramesAre
<1>4. ASSUME NEW n \in Timeouts, TimesOut(n) PROVE UNCHANGED Frames!fvars
  <2>1. Root \in Nodes \ {First(n)}
    BY <1>1, <1>4, TimesOutFrame, LeavesAre, InnerNodes, RootFacts, RuleAssumption
  <2> QED
    BY <1>1, <1>3, <1>4, <2>1, TimesOutFrame DEF TimesOut
<1>5. ASSUME at \in DOMAIN Inner, Fails(at) \/ Enters(at) PROVE UNCHANGED Frames!fvars
  <2>1. at # "outside" /\ at' # "outside"
    BY <1>1, <1>5, FailFrame, EnterFrame, TreeAssumption, Document
  <2> QED
    BY <1>3, <1>5, <2>1 DEF Fails, Enters, Ghosts
<1>6. ASSUME at \in Nodes \ {Root}, back # "none", Passes(at) \/ GoesOn(at)
      PROVE  UNCHANGED Frames!fvars
  <2>1. at # "outside" /\ at' # "outside"
    BY <1>1, <1>6, PassFrame, GoesOnFrame, TreeAssumption
  <2> QED
    BY <1>3, <1>6, <2>1 DEF Passes, GoesOn, Ghosts
<1>7. ASSUME UNCHANGED rvars PROVE UNCHANGED Frames!fvars
  BY <1>3, <1>7 DEF rvars, vars
<1>8. CASE RNext
  BY <1>1, <1>2, <1>4, <1>5, <1>6, <1>8, Steps, FramesAct, FramesEnd DEF Frames!FNext
<1> QED
  BY <1>7, <1>8

\* What Services and TurnRates take for granted of a frame holds of the tree: it
\* refines CombatFrames, with the ghosts as its state.
THEOREM TreeKeepsFrames == RSpec => ImplementsFrames
<1>1. RInit => Frames!FInit
  <2> SUFFICES ASSUME RInit PROVE Frames!FInit
    OBVIOUS
  <2>1. /\ at = "outside" /\ status[Root] = "IDLE" /\ resumed = FALSE
        /\ seen = {} /\ flown = {}
    BY RootFacts DEF RInit, Init
  <2>2. Reader = "nobody"
    BY <2>1 DEF Reader
  <2> QED
    BY <2>1, <2>2 DEF Frames!FInit
<1>2. RInv /\ [RNext]_rvars => [Frames!FNext]_(Frames!fvars)
  BY FramesStep
<1> QED
  BY <1>1, <1>2, RuleInvariant, PTL DEF RSpec, ImplementsFrames, Frames!FSpec
=============================================================================
