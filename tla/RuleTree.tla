------------------------------ MODULE RuleTree ------------------------------
(***************************************************************************)
(* The combat tree of Rule_STIL_ATK.xml on the engine of BehaviorTree,     *)
(* with the part of the blackboard that its leaves steer each other by.    *)
(*                                                                         *)
(* What a service or a BFM gate reads is the geometry of the fight, which  *)
(* is any: a leaf that tests it may come to either result. What the leaves *)
(* write and other leaves read (circle, counter) is kept.                  *)
(***************************************************************************)
EXTENDS BehaviorTree, CombatRules

VARIABLES
  circle,       \* BB->HABFM_CircleMode
  counter,      \* BB->IsCounterAttack
  vp,           \* the leaf that wrote BB->VP_Cartesian
  saved,        \* [manoeuvre -> vp_on_entry_, or "unsaved"]
  resumed,      \* ghost: the root was RUNNING when this tick began
  seen,         \* ghost: the leaves ticked in this tick
  flown         \* ghost: the tasks that gave a command in this tick

blackboard == <<circle, counter, vp, saved>>
rvars == <<vars, blackboard, resumed, seen, flown>>

\* Classes of which the document has one node, with the name of its class.
Single == {"CanRetry", "DECO_CounterAttackCheck"}

RuleKinds ==
  {[n \in RuleNodes |->
      CASE n \in Fallbacks -> "Fallback"
        [] n \in Timeouts -> "Timeout"
        [] n \in Single -> n
        [] n \in DOMAIN Inner \ (Fallbacks \cup Timeouts \cup Single) -> "Sequence"
        [] n \in Manoeuvres -> "Stateful"
        [] OTHER -> "Sync"]}

RuleCount == [n \in RuleNodes |-> IF n = "CanRetry" THEN 1 ELSE 0]

RuleResults ==
  [n \in RuleNodes \ DOMAIN Inner |->
     CASE n \in Manoeuvres -> {"RUNNING", "SUCCESS", "FAILURE"}
       [] n \in Tests \cup Picky -> Decided
       [] OTHER -> {"SUCCESS"}]

\* The engine runs the shipped document, and none of its nodes throws.
ASSUME RuleAssumption ==
  /\ Children = RuleChildren /\ Root = "MainCombatSequence"
  /\ Kinds = RuleKinds /\ Throwing = {}
  /\ Count = RuleCount /\ Results = RuleResults

Tasks == Leaves \ (Services \cup Tests)

RInit ==
  /\ Init
  /\ circle = "NONE"
  /\ counter = FALSE
  /\ vp = "constructor"
  /\ saved = [m \in Manoeuvres |-> "unsaved"]
  /\ resumed = FALSE
  /\ seen = {}
  /\ flown = {}
-----------------------------------------------------------------------------
\* UpdateCircleMode() decides by the turn rates, or leaves the mode as it is.
SetsCircle(l, r) ==
  IF l = "SetBFMMode_HABFM" /\ r = "SUCCESS"
  THEN circle' \in {circle, "ONE_CIRCLE", "TWO_CIRCLE"} ELSE UNCHANGED circle

\* The defensive gate decides whether a counter-attack is on, when it opens.
SetsCounter(l, r) ==
  IF l = "SetBFMMode_DBFM" /\ r = "SUCCESS"
  THEN counter' \in BOOLEAN ELSE UNCHANGED counter

OwnCircle(l) == CASE l = "Task_OneCircleAttack" -> "ONE_CIRCLE"
                  [] l = "Task_TwoCircleAttack" -> "TWO_CIRCLE"

\* onStart(), onRunning() and Advance(). A circle task declines when it is not
\* the circle's turn, and at no other time. To succeed, the aim must have been
\* held for SETTLE_DWELL_SEC, so not in the tick that starts the manoeuvre.
\* A LeadPursuit declines at a short Distance only, which no node writes while
\* it runs.
Flies(l, r) ==
  IF l = "Task_LeadPursuit"
  THEN IF status[l] = "RUNNING" THEN r # "FAILURE" ELSE r # "SUCCESS"
  ELSE /\ r = "FAILURE" <=> circle # OwnCircle(l)
       /\ r = "SUCCESS" => status[l] = "RUNNING"

\* The command a task leaves when it returns r.
\* Mutant: a manoeuvre that succeeds restores the old command, too.
CommandUndone(l, r) ==
  IF r = "FAILURE" \/ (l \in Manoeuvres /\ r = "SUCCESS")
  THEN IF l \in Manoeuvres /\ saved[l] # "unsaved" THEN saved[l] ELSE vp
  ELSE l
Command(l, r) ==
  IF r = "FAILURE"
  THEN IF l \in Manoeuvres /\ saved[l] # "unsaved" THEN saved[l] ELSE vp
  ELSE l

Saves(l, r) ==
  saved' = IF l \notin Manoeuvres THEN saved
           ELSE [saved EXCEPT ![l] = CASE r # "RUNNING" -> "unsaved"
                                       [] @ = "unsaved" /\ r = "RUNNING" -> vp
                                       [] OTHER -> @]

\* tick() of the leaf l.
Act(l) ==
  /\ TickLeaf(l)
  /\ l \in Manoeuvres => Flies(l, back')
  /\ SetsCircle(l, back')
  /\ SetsCounter(l, back')
  /\ vp' = IF l \in Tasks THEN Command(l, back') ELSE vp
  /\ Saves(l, back')
  /\ seen' = seen \cup {l}
  /\ flown' = IF l \in Tasks /\ back' # "FAILURE" THEN flown \cup {l} ELSE flown
  /\ UNCHANGED resumed

\* DECO_CounterAttackCheck::tick() goes on to its child.
\* Mutant: the flag is read the wrong way round.
OpensUnlessCounter == ~counter
Opens == counter

\* The other steps of a tick: the gate and CanRetry read the same flag.
Moves(n) ==
  /\ Step(n)
  /\ ~Ticks(n, Leaf)
  /\ Ticks(n, Gate) => (back' = "none" <=> Opens)
  /\ Hears(n, {"CanRetry"}, {"FAILURE"}) /\ MayRetry(Parent[n])
       => (back' = "RUNNING" <=> counter)
  /\ UNCHANGED <<blackboard, resumed, seen, flown>>

Begins ==
  /\ TickRoot
  /\ resumed' = (status[Root] = "RUNNING")
  /\ seen' = {}
  /\ flown' = {}
  /\ UNCHANGED blackboard

Ends == RootReturns /\ UNCHANGED <<blackboard, resumed, seen, flown>>

\* The timer halts the manoeuvre; onHalted() puts the old command back.
TimesOut(n) ==
  /\ Expire(n)
  /\ LET m == First(n) IN
       /\ vp' = IF saved[m] = "unsaved" THEN vp ELSE saved[m]
       /\ saved' = [saved EXCEPT ![m] = "unsaved"]
  /\ UNCHANGED <<circle, counter, resumed, seen, flown>>

HostStep ==
  \/ Begins \/ Ends
  \/ at \in Leaves /\ Act(at)
  \/ at \in Nodes /\ Moves(at)

TimerStep == \E n \in Timeouts : TimesOut(n)

RNext == HostStep \/ TimerStep

RSpec == RInit /\ [][RNext]_rvars

\* The host calls Step() every frame, a tick that has begun goes on, and the
\* timer of a manoeuvre that runs on halts it in the end (TimeoutEnforced of
\* TimeoutNode).
RFairSpec == RSpec /\ WF_rvars(HostStep) /\ SF_rvars(TimerStep)
-----------------------------------------------------------------------------
\* Who has read the combat information for itself in this tick.
Reader ==
  IF "SetBFMMode_HABFM" \in seen THEN "sampler"
  ELSE IF "Task_AggressiveOBFM" \in flown THEN "pressed"
  ELSE IF "Task_AggressiveOBFM" \in seen THEN "declined"
  ELSE "nobody"

Frames == INSTANCE CombatFrames WITH
  place <- CASE at = "outside" -> "out"
             [] at # "outside" /\ (resumed \/ Services \subseteq seen) -> "fight"
             [] OTHER -> "update",
  running <- IF at = "outside" THEN status[Root] = "RUNNING" ELSE resumed,
  resumed <- resumed,
  reader <- Reader

\* What Services and TurnRates take for granted of a frame: either all services
\* are ticked and then at most one of the sampler and the aggressive task, or,
\* while a manoeuvre runs on, none of them.
ImplementsFrames == Frames!FSpec

\* The tasks of the fight: all but the climb.
Fighting == Tasks \ {"Task_ClimbToSafeAltitude"}

CheckedThisTick ==
  /\ Services \subseteq seen
  /\ "DECO_AltitudeCheck" \in seen
  /\ "Task_ClimbToSafeAltitude" \notin seen

\* Ground first: a tick that starts at the root commands a manoeuvre of the
\* fight only on data of this tick, after the altitude check and when it did
\* not call for a climb.
RulePriority ==
  at \in Fighting /\ back = "none" /\ ~resumed => CheckedThisTick

\* Rule_STIL_ATK.xml:52 says so of every tick.
EveryTickRechecks ==
  at \in Fighting /\ back = "none" => CheckedThisTick

\* Whatever the gates and tasks answer, a tick that returns has flown one task.
OneCommand ==
  at = Root /\ back # "none" => Cardinality(flown) = 1

\* The command that goes out is the one of the task that was flown in this
\* tick, unless the timer halted that task between its tick and the output.
VPOwned ==
  at = Root /\ back # "none" =>
    \/ vp \in flown
    \/ \E n \in Timeouts : idx[n] = 2 /\ First(n) \in flown

\* The counter-attack decides in the tick it starts in: neither its 4000 ms
\* nor its retry ever comes to bear in this tree.
CounterAttackAtOnce ==
  at = "outside" => status["CanRetry"] # "RUNNING" /\ idx["CanRetry"] = 0

\* However the fight goes, the altitude is checked again and again.
GroundCheckRecurs == []<>(at = "DECO_AltitudeCheck")
=============================================================================
