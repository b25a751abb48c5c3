------------------------------ MODULE Services ------------------------------
(***************************************************************************)
(* The services of UpdateCombatInformation: how old the data is that each  *)
(* field of the blackboard rests on, the energy verdict and the history of *)
(* the target. The values themselves are not kept: of a field it is known  *)
(* how many frames ago the host gave the own data ("mine") and the         *)
(* target's data ("theirs") that went into it.                             *)
(***************************************************************************)
EXTENDS CombatFrames, CombatRules, Integers, SequencesExt

CONSTANTS
  HistorySize,  \* historySize
  MaxAge,       \* ages are counted up to here
  Deltas,       \* the energy differences that occur, in units of 50 m
  DeadBand      \* DEADBAND_ENERGY_HEIGHT_M in these units

ASSUME ServiceAssumption ==
  /\ HistorySize \in Nat /\ HistorySize > 1
  /\ MaxAge \in Nat /\ MaxAge > HistorySize
  /\ Deltas \subseteq Int
  /\ DeadBand \in Nat

VARIABLES
  enemy,        \* BB->Enemy is not empty
  age,          \* [field -> ages of the data it rests on]
  delta,        \* SpecificEnergyDelta_M
  verdict,      \* EnergyCompareResult
  hist,         \* prevPositions: the ages of the target's data in it
  velocity,     \* PredictedTargetVelocity: a way of .over frames, by .span
  steady        \* ghost: how many frames in a row were fresh and had an enemy

svars == <<enemy, age, delta, verdict, hist, velocity, steady>>

Now == [mine |-> 0, theirs |-> 0]
Never == [mine |-> MaxAge, theirs |-> MaxAge]

Derived == {"Distance", "Sight", "Vectors", "AngleOff", "Aspect", "Energy", "Latest"}

SInit ==
  /\ enemy = FALSE
  /\ age = [f \in Derived \cup {"Own", "Target"} |->
              IF f = "Target" THEN [Never EXCEPT !.mine = 0] ELSE Never]
  /\ delta = 0
  /\ verdict = 0
  /\ hist = <<>>
  /\ velocity = [over |-> 0, span |-> 1]
  /\ steady = 0
-----------------------------------------------------------------------------
Older(n) == IF n < MaxAge THEN n + 1 ELSE MaxAge
Oldest(S) == [mine |-> Max({x.mine : x \in S}), theirs |-> Max({x.theirs : x \in S})]

(* tick() of each service, on the ages a. "Own" is what Step() has written.*)

Computed(a, f, S) == [a EXCEPT ![f] = Oldest({a[g] : g \in S})]

SelectTarget(a) == IF enemy THEN [a EXCEPT !["Target"] = Now] ELSE a
DistanceUpdate(a) == Computed(a, "Distance", {"Own", "Target"})
CheckSight(a) == Computed(a, "Sight", {"Own", "Target"})
DirectionVectorUpdate(a) == Computed(a, "Vectors", {"Own", "Target"})
AngleOffUpdate(a) == Computed(a, "AngleOff", {"Vectors"})
AspectAngleUpdate(a) == Computed(a, "Aspect", {"Own", "Target", "Vectors"})
EnergyCompare(a) == Computed(a, "Energy", {"Own", "Target"})
PredictManeuver(a) == Computed(a, "Latest", {"Target"})

Serve(a, s) ==
  CASE s = "SelectTarget" -> SelectTarget(a)
    [] s = "DistanceUpdate" -> DistanceUpdate(a)
    [] s = "CheckSight" -> CheckSight(a)
    [] s = "DirectionVectorUpdate" -> DirectionVectorUpdate(a)
    [] s = "AngleOffUpdate" -> AngleOffUpdate(a)
    [] s = "AspectAngleUpdate" -> AspectAngleUpdate(a)
    [] s = "EnergyCompare" -> EnergyCompare(a)
    [] s = "PredictManeuver" -> PredictManeuver(a)

\* The ages after the first i of the services.
ServedTo[i \in 0 .. Len(Update)] ==
  IF i = 0 THEN age ELSE Serve(ServedTo[i - 1], Update[i])
Served == ServedTo[Len(Update)]

\* EnergyCompare: the verdict changes only when the difference leaves the band.
Verdict(d) ==
  CASE d > DeadBand -> 1 [] d < -DeadBand -> -1 [] OTHER -> verdict

\* PredictManeuver: the oldest position goes when the history is full.
\* Mutant: when it is over-full.
RecordedLate(a) ==
  Append(IF Len(hist) > HistorySize THEN Tail(hist) ELSE hist, a)
Recorded(a) ==
  Append(IF Len(hist) = HistorySize THEN Tail(hist) ELSE hist, a)

\* The time between the ends of the history h, as its length has it.
\* Mutant: one interval too many.
SpanOfAll(h) == Len(h)
Span(h) == Len(h) - 1

Speed(h) ==
  IF Len(h) < 2 THEN velocity
  ELSE [over |-> Head(h) - Last(h), span |-> Span(h)]

\* Step() fills Enemy and the own data; one frame has passed for the rest.
ServicesBegin ==
  /\ enemy' \in BOOLEAN
  /\ age' = [f \in DOMAIN age |->
               CASE f = "Own" -> Now
                 [] f = "Target" -> [age[f] EXCEPT !.theirs = Older(@)]
                 [] OTHER -> [mine |-> Older(age[f].mine), theirs |-> Older(age[f].theirs)]]
  /\ hist' = [i \in DOMAIN hist |-> Older(hist[i])]
  /\ steady' = IF running \/ ~enemy' THEN 0
               ELSE IF steady < HistorySize THEN steady + 1 ELSE steady
  /\ UNCHANGED <<delta, verdict, velocity>>

\* The tick of all services, in the order of the document.
ServicesRefresh ==
  /\ age' = Served
  /\ \E d \in Deltas : delta' = d /\ verdict' = Verdict(d)
  /\ hist' = Recorded(age'["Target"].theirs)
  /\ velocity' = Speed(hist')
  /\ UNCHANGED <<enemy, steady>>
-----------------------------------------------------------------------------
\* When the fight begins, everything that gates and tasks of a fresh frame
\* read about the geometry is of one moment: own data of this frame and, in
\* all fields alike, the last target that was seen; of this frame, if there
\* is an enemy. (One service before another it depends on would break it.)
OneSnapshot ==
  place = "fight" /\ ~resumed =>
    /\ \A f \in Derived \ {"Latest"} :
         age[f] = [mine |-> 0, theirs |-> age["Target"].theirs]
    /\ enemy => age["Target"].theirs = 0

\* After HistorySize frames that were all fresh and had an enemy, the predicted
\* velocity is a way divided by the time it took.
VelocityTrue ==
  place = "fight" /\ steady = HistorySize => velocity.over = velocity.span
=============================================================================
