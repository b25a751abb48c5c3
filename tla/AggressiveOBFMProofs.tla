------------------------ MODULE AggressiveOBFMProofs ------------------------
(***************************************************************************)
(* Theorems about AggressiveOBFM and the data of Services it reads, for    *)
(* histories, energy differences, hold limits and situations of any kind.  *)
(* The parts of the inductive invariant are about one mechanism each:      *)
(* Once (the task is ticked once a frame), Kept (a tier that is kept was   *)
(* earned), Running (the clock of the hold is no younger than the hold),   *)
(* Updating (what a frame starts from) and History (the last positions in  *)
(* the history are one frame apart).                                       *)
(***************************************************************************)
EXTENDS AggressiveOBFM, SequenceTheorems, TLAPS

Fields == Derived \cup {"Own", "Target"}
Ages == [mine : Nat, theirs : Nat]

\* TypeOK leaves open what the data of the services looks like.
Shapes ==
  /\ place \in {"out", "update", "fight"}
  /\ running \in BOOLEAN /\ resumed \in BOOLEAN /\ enemy \in BOOLEAN
  /\ age \in [Fields -> Ages]
  /\ hist \in Seq(Nat)

Once == mode # "none" => reader \in {"pressed", "declined"}

Kept == tier # "CONSERVE" => tier \in earned

Running ==
  TierMatrix =>
    /\ mode = "none" /\ held > 0 => since >= held
    /\ mode \in {"ALL_OUT", "DEMOTED"} /\ low => since >= 0 /\ since >= held

Updating ==
  /\ age["Target"].mine = 0
  /\ place = "update" => age["Own"] = Now /\ ~resumed /\ reader = "nobody"

\* The last n ages in the history are first, first + 1 and so on.
Recent(n, first) ==
  /\ Len(hist) >= n
  /\ \A j \in 1 .. n : hist[Len(hist) + 1 - j] = first + j - 1

History ==
  /\ place = "update" /\ steady > 0 => enemy /\ Recent(steady - 1, 1)
  /\ place # "update" => Recent(steady, 0)

IInv ==
  /\ TypeOK /\ Shapes
  /\ Once /\ Kept /\ TierEarned
  /\ Running /\ HoldLimited
  /\ Updating /\ OneSnapshot
  /\ History /\ VelocityTrue
-----------------------------------------------------------------------------
(* The oldest of some ages, and what a service makes of them.              *)

\* The maximum of a set that has one.
LEMMA MaxOf ==
  ASSUME NEW T \in SUBSET Nat, NEW m \in T, \A y \in T : y <= m
  PROVE  Max(T) = m
<1> DEFINE Top(x) == \A y \in T : x >= y
<1>1. Max(T) = CHOOSE x \in T : Top(x)
  BY DEF Max
<1>2. Top(m)
  OBVIOUS
<1>3. \A x \in T : Top(x) => x = m
  OBVIOUS
<1> QED
  BY <1>1, <1>2, <1>3

\* Of data of this frame, some with the last target that was seen.
LEMMA OldestOfSnapshot ==
  ASSUME NEW t \in Nat, NEW S \in SUBSET Ages,
         \A x \in S : x = Now \/ x = [mine |-> 0, theirs |-> t],
         [mine |-> 0, theirs |-> t] \in S
  PROVE  Oldest(S) = [mine |-> 0, theirs |-> t]
<1> DEFINE M == {x.mine : x \in S}
           T == {x.theirs : x \in S}
<1>1. M \in SUBSET Nat /\ T \in SUBSET Nat
  BY DEF Ages
<1>2. 0 \in M /\ \A y \in M : y <= 0
  BY DEF Now
<1>3. t \in T /\ \A y \in T : y <= t
  BY DEF Now
<1>4. Max(M) = 0
  <2> HIDE DEF M
  <2> QED BY <1>1, <1>2, MaxOf
<1>5. Max(T) = t
  <2> HIDE DEF T
  <2> QED BY <1>1, <1>3, MaxOf
<1> QED
  BY <1>4, <1>5 DEF Oldest

LEMMA ComputedSnapshot ==
  ASSUME NEW a \in [Fields -> Ages], NEW t \in Nat,
         NEW f \in Fields, NEW S \in SUBSET Fields,
         \A g \in S : a[g] = Now \/ a[g] = [mine |-> 0, theirs |-> t],
         \E g \in S : a[g] = [mine |-> 0, theirs |-> t]
  PROVE  /\ Computed(a, f, S) \in [Fields -> Ages]
         /\ Computed(a, f, S)[f] = [mine |-> 0, theirs |-> t]
         /\ \A g \in Fields \ {f} : Computed(a, f, S)[g] = a[g]
<1> DEFINE A == {a[g] : g \in S}
<1>1. Oldest(A) = [mine |-> 0, theirs |-> t]
  <2>1. A \in SUBSET Ages /\ [mine |-> 0, theirs |-> t] \in A
    OBVIOUS
  <2>2. \A x \in A : x = Now \/ x = [mine |-> 0, theirs |-> t]
    OBVIOUS
  <2> HIDE DEF A
  <2> QED
    BY <2>1, <2>2, OldestOfSnapshot
<1>2. [mine |-> 0, theirs |-> t] \in Ages
  BY DEF Ages
<1>3. Computed(a, f, S) = [a EXCEPT ![f] = [mine |-> 0, theirs |-> t]]
  BY <1>1 DEF Computed
<1> QED
  BY <1>2, <1>3

\* PredictManeuver takes the target as it is.
LEMMA ComputedLatest ==
  ASSUME NEW a \in [Fields -> Ages]
  PROVE  /\ PredictManeuver(a) \in [Fields -> Ages]
         /\ \A g \in Fields \ {"Latest"} : PredictManeuver(a)[g] = a[g]
<1> DEFINE x == a["Target"]
<1>1. x \in Ages
  BY DEF Fields
<1>2. x.mine \in Nat /\ x.theirs \in Nat
  BY <1>1 DEF Ages
<1>3. {y.mine : y \in {a[g] : g \in {"Target"}}} = {x.mine}
      /\ {y.theirs : y \in {a[g] : g \in {"Target"}}} = {x.theirs}
  OBVIOUS
<1>4. Max({x.mine}) = x.mine /\ Max({x.theirs}) = x.theirs
  <2> HIDE DEF x
  <2> QED BY <1>2, MaxOf
<1>5. Oldest({a[g] : g \in {"Target"}}) \in Ages
  BY <1>2, <1>3, <1>4 DEF Oldest, Ages
<1>6. PredictManeuver(a) = [a EXCEPT !["Latest"] = Oldest({a[g] : g \in {"Target"}})]
  BY DEF PredictManeuver, Computed
<1> QED
  BY <1>5, <1>6
-----------------------------------------------------------------------------
(* The tick of all services. ServedTo is a recursive function; that it has *)
(* the values of the services one after the other is shown by giving them. *)

A1 == SelectTarget(age)
A2 == DistanceUpdate(A1)
A3 == CheckSight(A2)
A4 == DirectionVectorUpdate(A3)
A5 == AngleOffUpdate(A4)
A6 == AspectAngleUpdate(A5)
A7 == EnergyCompare(A6)
A8 == PredictManeuver(A7)

LEMMA ServedInOrder == Served = A8
<1> DEFINE g == [i \in 0 .. 8 |-> CASE i = 0 -> age [] i = 1 -> A1 [] i = 2 -> A2
                                    [] i = 3 -> A3 [] i = 4 -> A4 [] i = 5 -> A5
                                    [] i = 6 -> A6 [] i = 7 -> A7 [] i = 8 -> A8]
           Next1(h) == [i \in 0 .. Len(Update) |->
                          IF i = 0 THEN age ELSE Serve(h[i - 1], Update[i])]
<1>1. Len(Update) = 8
  BY DEF Update
<1>2. /\ g[0] = age /\ g[1] = A1 /\ g[2] = A2 /\ g[3] = A3 /\ g[4] = A4
      /\ g[5] = A5 /\ g[6] = A6 /\ g[7] = A7 /\ g[8] = A8
  OBVIOUS
<1>3. /\ Serve(age, Update[1]) = A1 /\ Serve(A1, Update[2]) = A2
      /\ Serve(A2, Update[3]) = A3 /\ Serve(A3, Update[4]) = A4
      /\ Serve(A4, Update[5]) = A5 /\ Serve(A5, Update[6]) = A6
      /\ Serve(A6, Update[7]) = A7 /\ Serve(A7, Update[8]) = A8
  BY DEF Serve, Update, A1, A2, A3, A4, A5, A6, A7, A8
<1>4. \A i \in 0 .. 8 : g[i] = IF i = 0 THEN age ELSE Serve(g[i - 1], Update[i])
  <2> SUFFICES ASSUME NEW i \in 0 .. 8
               PROVE  g[i] = IF i = 0 THEN age ELSE Serve(g[i - 1], Update[i])
    OBVIOUS
  <2> HIDE DEF g
  <2>1. i \in {0, 1, 2, 3, 4, 5, 6, 7, 8}
    OBVIOUS
  <2> QED
    BY <2>1, <1>2, <1>3
<1>5. g = Next1(g)
  BY <1>1, <1>4
<1>6. ServedTo = CHOOSE h : h = Next1(h)
  BY DEF ServedTo
<1>7. ServedTo = Next1(ServedTo)
  BY <1>5, <1>6
<1>8. \A i \in 0 .. 8 :
        ServedTo[i] = IF i = 0 THEN age ELSE Serve(ServedTo[i - 1], Update[i])
  BY <1>1, <1>7
<1>9. /\ ServedTo[0] = age /\ ServedTo[1] = A1 /\ ServedTo[2] = A2
      /\ ServedTo[3] = A3 /\ ServedTo[4] = A4
  BY <1>3, <1>8
<1>10. ServedTo[5] = A5 /\ ServedTo[6] = A6 /\ ServedTo[7] = A7 /\ ServedTo[8] = A8
  BY <1>3, <1>8, <1>9
<1> QED
  BY <1>1, <1>10 DEF Served

\* What the services make of own data of this frame and some target data.
LEMMA AfterServices ==
  ASSUME age \in [Fields -> Ages], enemy \in BOOLEAN,
         age["Own"] = Now, age["Target"].mine = 0
  PROVE  /\ Served \in [Fields -> Ages]
         /\ Served["Own"] = Now
         /\ Served["Target"].mine = 0
         /\ enemy => Served["Target"].theirs = 0
         /\ \A f \in Derived \ {"Latest"} :
              Served[f] = [mine |-> 0, theirs |-> Served["Target"].theirs]
<1> DEFINE t == IF enemy THEN 0 ELSE age["Target"].theirs
           Snap == [mine |-> 0, theirs |-> t]
<1>1. t \in Nat /\ age["Target"] = [mine |-> 0, theirs |-> age["Target"].theirs]
  BY DEF Fields, Ages
<1>2. /\ {"Own", "Target", "Distance", "Sight", "Vectors", "AngleOff", "Aspect",
          "Energy", "Latest"} = Fields
      /\ Now \in Ages
  BY DEF Fields, Derived, Ages, Now
<1>3. A1 \in [Fields -> Ages] /\ A1["Own"] = Now /\ A1["Target"] = Snap
  <2>1. CASE enemy
    BY <1>2, <2>1 DEF A1, SelectTarget, Now
  <2>2. CASE ~enemy
    BY <1>1, <2>2 DEF A1, SelectTarget
  <2> QED
    BY <2>1, <2>2
<1> HIDE DEF t
<1>4. /\ A2 \in [Fields -> Ages] /\ A2["Own"] = Now
      /\ A2["Target"] = Snap /\ A2["Distance"] = Snap
  BY <1>1, <1>2, <1>3, ComputedSnapshot DEF A2, DistanceUpdate
<1>5. /\ A3 \in [Fields -> Ages] /\ A3["Own"] = Now
      /\ A3["Target"] = Snap /\ A3["Distance"] = Snap /\ A3["Sight"] = Snap
  BY <1>1, <1>2, <1>4, ComputedSnapshot DEF A3, CheckSight
<1>6. /\ A4 \in [Fields -> Ages] /\ A4["Own"] = Now
      /\ A4["Target"] = Snap /\ A4["Distance"] = Snap /\ A4["Sight"] = Snap
      /\ A4["Vectors"] = Snap
  BY <1>1, <1>2, <1>5, ComputedSnapshot DEF A4, DirectionVectorUpdate
<1>7. /\ A5 \in [Fields -> Ages] /\ A5["Own"] = Now
      /\ A5["Target"] = Snap /\ A5["Distance"] = Snap /\ A5["Sight"] = Snap
      /\ A5["Vectors"] = Snap /\ A5["AngleOff"] = Snap
  BY <1>1, <1>2, <1>6, ComputedSnapshot DEF A5, AngleOffUpdate
<1>8. /\ A6 \in [Fields -> Ages] /\ A6["Own"] = Now
      /\ A6["Target"] = Snap /\ A6["Distance"] = Snap /\ A6["Sight"] = Snap
      /\ A6["Vectors"] = Snap /\ A6["AngleOff"] = Snap /\ A6["Aspect"] = Snap
  BY <1>1, <1>2, <1>7, ComputedSnapshot DEF A6, AspectAngleUpdate
<1>9. /\ A7 \in [Fields -> Ages] /\ A7["Own"] = Now
      /\ A7["Target"] = Snap /\ A7["Distance"] = Snap /\ A7["Sight"] = Snap
      /\ A7["Vectors"] = Snap /\ A7["AngleOff"] = Snap /\ A7["Aspect"] = Snap
      /\ A7["Energy"] = Snap
  BY <1>1, <1>2, <1>8, ComputedSnapshot DEF A7, EnergyCompare
<1>10. A8 \in [Fields -> Ages] /\ \A g \in Fields \ {"Latest"} : A8[g] = A7[g]
  BY <1>9, ComputedLatest DEF A8
<1>11. /\ A8["Own"] = Now /\ A8["Target"] = Snap
       /\ \A f \in Derived \ {"Latest"} : A8[f] = Snap
  BY <1>9, <1>10 DEF Fields, Derived
<1>12. enemy => t = 0
  BY DEF t
<1> QED
  BY <1>10, <1>11, <1>12, ServedInOrder
-----------------------------------------------------------------------------
(* The scale of the tiers, and what the task may come to.                  *)

LEMMA ScaleType == phase \in Phases => Scale \in {1, 2, 3}
<1> SUFFICES ASSUME phase \in {1, 2, 3} PROVE Scale \in {1, 2, 3}
  BY DEF Phases, Windows
<1>1. WidestOpen(1).ata = 10 /\ WidestOpen(phase).ata \in {10, 20, 30}
  BY DEF WidestOpen, Windows
<1> QED
  BY <1>1 DEF Scale

\* The tier by the angle: the old one only in the buffer zone.
LEMMA ByAngleKeeps ==
  ASSUME phase \in Phases, tier \in Tiers, NEW s \in Situations
  PROVE  /\ ByAngle(s) \in Tiers
         /\ s.ata > 22 * Scale => ByAngle(s) \in {tier, "CONSERVE"}
<1>1. s.ata \in Nat
  BY AggressiveAssumption
<1>2. Scale \in Nat
  BY ScaleType
<1> DEFINE x == s.ata
           z == Scale
<1>3. ByAngle(s) = CASE x <= 13 * z -> "ALL_OUT"
                     [] x \in 13 * z + 1 .. 22 * z -> "PURSUE"
                     [] x >= 28 * z -> "CONSERVE"
                     [] OTHER -> tier
  BY Zenon DEF ByAngle
<1>4. x \in Nat /\ z \in Nat
  BY <1>1, <1>2
<1> HIDE DEF x, z
<1> DEFINE least == x <= 13 * z
           small == x \in 13 * z + 1 .. 22 * z
           large == x >= 28 * z
<1>5. x > 22 * z => ~least /\ ~small
  BY <1>4
<1>6. ByAngle(s) = CASE least -> "ALL_OUT" [] small -> "PURSUE"
                     [] large -> "CONSERVE" [] OTHER -> tier
  BY <1>3
<1> HIDE DEF least, small, large
<1>7. ByAngle(s) \in {"ALL_OUT", "PURSUE", "CONSERVE", tier}
  BY Zenon, <1>6
<1>8. ~least /\ ~small => ByAngle(s) \in {tier, "CONSERVE"}
  BY Zenon, <1>6
<1>9. ByAngle(s) \in {"ALL_OUT", "PURSUE", "CONSERVE", tier}
      /\ (x > 22 * z => ByAngle(s) \in {tier, "CONSERVE"})
  BY <1>5, <1>7, <1>8
<1> QED
  BY <1>9 DEF x, z, Tiers

LEMMA ByEnergyType ==
  ASSUME NEW t \in Tiers, NEW band, NEW hold
  PROVE  /\ ByEnergy(t, band, hold) \in Tiers \cup {"DEMOTED"}
         /\ ByEnergy(t, band, hold) \in {"ALL_OUT", "PURSUE"} => ByEnergy(t, band, hold) = t
         /\ ByEnergy(t, band, hold) = "DEMOTED" => t = "ALL_OUT"
         /\ TierMatrix /\ ByEnergy(t, band, hold) = "ALL_OUT" => ~(hold > HoldLimit)
  BY DEF ByEnergy, Tiers

LEMMA HeldSinceIs ==
  ASSUME NEW t \in Tiers, NEW band
  PROVE  HeldSince(t, band) =
           IF ~TierMatrix THEN -1
           ELSE IF t = "ALL_OUT" /\ band = "LOW" THEN IF since < 0 THEN 0 ELSE since
           ELSE IF t = "PURSUE" /\ band = "LOW" THEN since ELSE -1
<1>1. CASE TierMatrix
  BY <1>1 DEF HeldSince, Tiers
<1>2. CASE ~TierMatrix
  BY <1>2 DEF HeldSince
<1> QED
  BY <1>1, <1>2
-----------------------------------------------------------------------------
LEMMA InitIInv == CInit => IInv
<1> SUFFICES ASSUME CInit PROVE IInv
  OBVIOUS
<1> USE DEF CInit, FInit, SInit
<1>0. HistorySize \in Nat /\ HoldLimit \in Nat /\ MaxAge \in Nat
  BY ServiceAssumption, AggressiveAssumption
<1>1. TypeOK
  <2>1. since \in -1 .. HoldLimit + 1 /\ held \in 0 .. HoldLimit + 1
        /\ steady \in 0 .. HistorySize /\ Len(hist) <= HistorySize
    BY <1>0
  <2>2. phase \in Phases
    BY DEF Phases, Windows
  <2> QED
    BY <2>1, <2>2 DEF TypeOK, Tiers
<1>2. Shapes
  <2>1. Never \in Ages /\ [Never EXCEPT !.mine = 0] \in Ages
    BY <1>0 DEF Never, Ages
  <2>2. age = [f \in Fields |-> IF f = "Target" THEN [Never EXCEPT !.mine = 0] ELSE Never]
    BY DEF Fields
  <2>3. age \in [Fields -> Ages]
    BY <2>1, <2>2
  <2>4. hist \in Seq(Nat)
    OBVIOUS
  <2> QED
    BY Zenon, <2>3, <2>4 DEF Shapes
<1>3. Once /\ Kept /\ TierEarned /\ Running /\ HoldLimited
  BY DEF Once, Kept, TierEarned, Running, HoldLimited
<1>4. Updating /\ OneSnapshot
  BY DEF Updating, OneSnapshot, Never
<1>5. History /\ VelocityTrue
  BY DEF History, Recent, VelocityTrue
<1> QED
  BY <1>1, <1>2, <1>3, <1>4, <1>5 DEF IInv
-----------------------------------------------------------------------------
(* A new frame.                                                            *)

LEMMA OlderIs ==
  ASSUME NEW n \in Nat
  PROVE  Older(n) \in Nat /\ (n < MaxAge => Older(n) = n + 1)
  BY ServiceAssumption DEF Older

\* The clock of the hold stays ahead of the hold.
LEMMA CountedIs ==
  ASSUME NEW n \in 0 .. HoldLimit + 1
  PROVE  /\ Counted(n) \in 0 .. HoldLimit + 1
         /\ Counted(n) = IF n > HoldLimit THEN n ELSE n + 1
  BY AggressiveAssumption DEF Counted

LEMMA BeginAges ==
  ASSUME Shapes, Updating, ServicesBegin
  PROVE  /\ age' \in [Fields -> Ages]
         /\ age'["Own"] = Now
         /\ age'["Target"].mine = 0
<1>1. DOMAIN age = Fields /\ \A f \in Fields : age[f] \in Ages
  BY DEF Shapes
<1>2. \A f \in Fields :
        age'[f] = CASE f = "Own" -> Now
                    [] f = "Target" -> [age[f] EXCEPT !.theirs = Older(@)]
                    [] OTHER -> [mine |-> Older(age[f].mine),
                                 theirs |-> Older(age[f].theirs)]
  BY <1>1 DEF ServicesBegin
<1>3. \A f \in Fields : age[f].mine \in Nat /\ age[f].theirs \in Nat
  BY <1>1 DEF Ages
<1>4. \A f \in Fields : Older(age[f].mine) \in Nat /\ Older(age[f].theirs) \in Nat
  BY <1>3, OlderIs
<1>5. age'["Own"] = Now /\ Now \in Ages
  BY <1>2 DEF Fields, Now, Ages
<1>6. age'["Target"].mine = 0 /\ age'["Target"] \in Ages
  <2> DEFINE x == age["Target"]
  <2>1. "Target" \in Fields
    BY DEF Fields
  <2>2. x \in Ages /\ Older(x.theirs) \in Nat /\ x.mine = 0
    BY <1>1, <1>4, <2>1 DEF Updating
  <2>3. age'["Target"] = [x EXCEPT !.theirs = Older(@)]
    BY <1>2, <2>1
  <2> HIDE DEF x
  <2> QED
    BY <2>2, <2>3 DEF Ages
<1>7. ASSUME NEW f \in Fields \ {"Own", "Target"}
      PROVE  age'[f] \in Ages
  <2>1. age'[f] = [mine |-> Older(age[f].mine), theirs |-> Older(age[f].theirs)]
    BY Zenon, <1>2
  <2> QED
    BY <1>4, <2>1 DEF Ages
<1>8. age' = [f \in Fields |-> age'[f]]
  BY <1>1 DEF ServicesBegin
<1>9. \A f \in Fields : age'[f] \in Ages
  BY <1>5, <1>6, <1>7
<1> QED
  BY <1>5, <1>6, <1>8, <1>9

LEMMA BeginHistory ==
  ASSUME TypeOK, Shapes, History, Begin, ServicesBegin
  PROVE  /\ hist' \in Seq(Nat) /\ Len(hist') <= HistorySize
         /\ steady' \in 0 .. HistorySize
         /\ History' /\ VelocityTrue'
<1>1. hist \in Seq(Nat) /\ Len(hist) \in Nat /\ Len(hist) <= HistorySize
  BY DEF TypeOK, Shapes
<1>2. /\ DOMAIN hist = 1 .. Len(hist)
      /\ \A i \in 1 .. Len(hist) : Older(hist[i]) \in Nat
  <2>1. DOMAIN hist = 1 .. Len(hist) /\ \A i \in 1 .. Len(hist) : hist[i] \in Nat
    BY <1>1
  <2> QED
    BY <2>1, OlderIs
<1>3. hist' = [i \in 1 .. Len(hist) |-> Older(hist[i])]
  BY <1>2 DEF ServicesBegin
<1>4. hist' \in Seq(Nat) /\ Len(hist') = Len(hist)
  BY <1>1, <1>2, <1>3
<1>5. steady \in Nat /\ steady <= HistorySize /\ HistorySize \in Nat /\ HistorySize > 1
  BY ServiceAssumption DEF TypeOK
<1>6. /\ steady' = IF running \/ ~enemy' THEN 0
                   ELSE IF steady < HistorySize THEN steady + 1 ELSE steady
      /\ enemy' \in BOOLEAN
      /\ place = "out" /\ place' = IF running THEN "fight" ELSE "update"
  BY DEF ServicesBegin, Begin
<1>7. steady' \in 0 .. HistorySize
  BY <1>5, <1>6
<1>8. CASE running
  <2>1. steady' = 0 /\ place' = "fight"
    BY <1>6, <1>8
  <2>2. Recent(steady, 0)'
    BY <1>4, <2>1 DEF Recent
  <2> QED
    BY <1>1, <1>4, <1>5, <1>7, <2>1, <2>2 DEF History, VelocityTrue
<1>9. CASE ~running
  <2>1. place' = "update"
    BY <1>6, <1>9
  <2>2. ASSUME steady' > 0
        PROVE  enemy' /\ Recent(steady - 1, 1)'
    <3>1. enemy' /\ steady' - 1 \in Nat /\ steady' - 1 <= steady
      BY <1>5, <1>6, <1>9, <2>2
    <3>2. Recent(steady, 0)
      BY <1>6 DEF History
    <3>3. Len(hist') >= steady' - 1
      BY <1>1, <1>4, <1>5, <3>1, <3>2 DEF Recent
    <3>4. ASSUME NEW j \in 1 .. steady' - 1
          PROVE  hist'[Len(hist') + 1 - j] = 1 + j - 1
      <4>1. hist[Len(hist) + 1 - j] = 0 + j - 1
        BY <1>5, <3>1, <3>2 DEF Recent
      <4>2. Len(hist) + 1 - j \in 1 .. Len(hist)
        BY <1>1, <1>4, <1>5, <3>1, <3>3
      <4>3. j - 1 \in Nat /\ j - 1 < MaxAge
        BY <1>5, <3>1, ServiceAssumption
      <4>4. Older(j - 1) = j
        BY <4>3, OlderIs
      <4> QED
        BY <1>3, <1>4, <4>1, <4>2, <4>4
    <3> QED
      BY <3>1, <3>3, <3>4 DEF Recent
  <2> QED
    BY <1>1, <1>4, <1>5, <1>7, <2>1, <2>2 DEF History, VelocityTrue
<1> QED
  BY <1>6, <1>8, <1>9

LEMMA BeginIInv ==
  ASSUME IInv, CBegin
  PROVE  IInv'
<1> USE DEF CBegin
<1>1. /\ TypeOK /\ Shapes /\ Once /\ Kept /\ TierEarned /\ Running /\ HoldLimited
      /\ Updating /\ OneSnapshot /\ History /\ VelocityTrue
  BY DEF IInv
<1>2. /\ hist' \in Seq(Nat) /\ Len(hist') <= HistorySize
      /\ steady' \in 0 .. HistorySize
      /\ History' /\ VelocityTrue'
  BY <1>1, BeginHistory
<1>3. age' \in [Fields -> Ages] /\ age'["Own"] = Now /\ age'["Target"].mine = 0
  BY <1>1, BeginAges
<1>4. /\ place = "out" /\ place' = IF running THEN "fight" ELSE "update"
      /\ running' = running /\ resumed' = running /\ reader' = "nobody"
  BY DEF Begin
<1>5. /\ enemy' \in BOOLEAN /\ delta' = delta /\ verdict' = verdict
  BY DEF ServicesBegin
<1>6. since \in -1 .. HoldLimit + 1 /\ held \in 0 .. HoldLimit + 1
      /\ HoldLimit \in Nat
  BY <1>1, AggressiveAssumption DEF TypeOK
<1>7. since' \in -1 .. HoldLimit + 1 /\ held' \in 0 .. HoldLimit + 1
  <2>1. CASE since < 0
    BY <1>6, <2>1, CountedIs
  <2>2. CASE since >= 0
    BY <1>6, <2>2, CountedIs
  <2> QED
    BY <1>6, <2>1, <2>2
<1>8. TypeOK'
  BY <1>1, <1>2, <1>5, <1>7 DEF TypeOK
<1>9. Shapes'
  BY <1>1, <1>2, <1>3, <1>4, <1>5 DEF Shapes
<1>10. Once' /\ Kept' /\ TierEarned' /\ HoldLimited'
  BY <1>1 DEF Once, Kept, TierEarned, HoldLimited
<1>11. Running'
  <2>1. ASSUME TierMatrix, held' > 0
        PROVE  since' >= held'
    <3>1. mode \in {"ALL_OUT", "DEMOTED"} /\ low
      BY <2>1
    <3>2. since >= held /\ since >= 0
      BY <1>1, <2>1, <3>1 DEF Running
    <3>3. since' = Counted(since) /\ held' = Counted(held)
      BY <1>6, <3>1, <3>2
    <3> QED
      BY <1>6, <3>2, <3>3, CountedIs
  <2> QED
    BY <2>1 DEF Running
<1>12. Updating' /\ OneSnapshot'
  BY <1>1, <1>3, <1>4 DEF Updating, OneSnapshot, Shapes
<1> QED
  BY <1>2, <1>8, <1>9, <1>10, <1>11, <1>12 DEF IInv
-----------------------------------------------------------------------------
(* The services.                                                           *)

LEMMA VerdictType ==
  ASSUME verdict \in {-1, 0, 1}, NEW d \in Deltas
  PROVE  Verdict(d) \in {-1, 0, 1}
  BY Zenon DEF Verdict

\* The recorded age is followed by the others, one older each.
LEMMA RefreshHistory ==
  ASSUME TypeOK, Shapes, History, place = "update", ServicesRefresh,
         age'["Target"].theirs \in Nat,
         enemy => age'["Target"].theirs = 0
  PROVE  /\ hist' \in Seq(Nat) /\ Len(hist') <= HistorySize
         /\ \A j \in 1 .. steady : Len(hist') >= steady /\ hist'[Len(hist') + 1 - j] = j - 1
<1> DEFINE a == age'["Target"].theirs
           rest == IF Len(hist) = HistorySize THEN Tail(hist) ELSE hist
<1>1. /\ hist \in Seq(Nat) /\ Len(hist) \in Nat /\ Len(hist) <= HistorySize
      /\ HistorySize \in Nat /\ HistorySize > 1
      /\ steady \in 0 .. HistorySize
  BY ServiceAssumption DEF TypeOK, Shapes
<1>2. hist' = Append(rest, a)
  BY DEF ServicesRefresh, Recorded
<1>3. /\ rest \in Seq(Nat) /\ Len(rest) \in Nat
      /\ Len(rest) = IF Len(hist) = HistorySize THEN Len(hist) - 1 ELSE Len(hist)
      /\ \A i \in 1 .. Len(rest) : rest[Len(rest) + 1 - i] = hist[Len(hist) + 1 - i]
  <2>1. CASE Len(hist) = HistorySize
    <3>1. hist # <<>>
      BY <1>1, <2>1
    <3>2. Tail(hist) \in Seq(Nat) /\ Len(Tail(hist)) = Len(hist) - 1
      BY <1>1, <3>1
    <3>3. \A i \in 1 .. Len(hist) - 1 : Tail(hist)[i] = hist[i + 1]
      BY <1>1, <3>1
    <3>4. ASSUME NEW i \in 1 .. Len(hist) - 1
          PROVE  Tail(hist)[Len(hist) - i] = hist[Len(hist) + 1 - i]
      BY <1>1, <3>3
    <3> QED
      BY <1>1, <2>1, <3>2, <3>4
  <2>2. CASE Len(hist) # HistorySize
    BY <1>1, <2>2
  <2> QED
    BY <2>1, <2>2
<1>4. a \in Nat
  OBVIOUS
<1> HIDE DEF rest, a
<1>5. /\ hist' \in Seq(Nat) /\ Len(hist') = Len(rest) + 1
      /\ hist'[Len(rest) + 1] = a
      /\ \A i \in 1 .. Len(rest) : hist'[i] = rest[i]
  BY <1>2, <1>3, <1>4
<1>6. Len(hist') <= HistorySize
  BY <1>1, <1>3, <1>5
<1>7. ASSUME steady > 0
      PROVE  a = 0 /\ Len(hist) >= steady - 1
             /\ \A j \in 1 .. steady - 1 : hist[Len(hist) + 1 - j] = j
  <2>1. enemy /\ Recent(steady - 1, 1)
    BY <1>7 DEF History
  <2> QED
    BY <1>1, <2>1 DEF Recent, a
<1>8. ASSUME NEW j \in 1 .. steady
      PROVE  Len(hist') >= steady /\ hist'[Len(hist') + 1 - j] = j - 1
  <2>1. a = 0 /\ Len(hist) >= steady - 1
    BY <1>1, <1>7
  <2>2. Len(hist') >= steady
    BY <1>1, <1>3, <1>5, <2>1
  <2>3. CASE j = 1
    BY <1>1, <1>3, <1>5, <2>1, <2>3
  <2>4. CASE j > 1
    <3>1. j - 1 \in 1 .. Len(rest) /\ j - 1 \in 1 .. steady - 1
      BY <1>1, <1>3, <1>5, <2>2, <2>4
    <3>2. rest[Len(rest) + 1 - (j - 1)] = j - 1
      <4> DEFINE k == j - 1
      <4>1. k \in 1 .. Len(rest) /\ k \in 1 .. steady - 1 /\ steady > 0
        BY <1>1, <3>1
      <4> HIDE DEF k
      <4>2. rest[Len(rest) + 1 - k] = hist[Len(hist) + 1 - k]
        BY <1>3, <4>1
      <4>3. hist[Len(hist) + 1 - k] = k
        BY <1>7, <4>1
      <4> QED
        BY <4>2, <4>3 DEF k
    <3>3. Len(hist') + 1 - j = Len(rest) + 1 - (j - 1)
          /\ Len(rest) + 1 - (j - 1) \in 1 .. Len(rest)
      BY <1>3, <1>5, <3>1
    <3> QED
      BY <1>5, <2>2, <3>2, <3>3
  <2> QED
    BY <1>1, <2>3, <2>4
<1> QED
  BY <1>5, <1>6, <1>8

\* A way of HistorySize - 1 frames, in HistorySize - 1 intervals.
LEMMA SpeedTrue ==
  ASSUME NEW h \in Seq(Nat), Len(h) = HistorySize,
         \A j \in 1 .. HistorySize : h[Len(h) + 1 - j] = j - 1
  PROVE  Speed(h).over = Speed(h).span
<1>1. HistorySize \in Nat /\ HistorySize > 1
  BY ServiceAssumption
<1>2. h[1] = HistorySize - 1 /\ h[Len(h)] = 0
  <2> DEFINE At(j) == h[Len(h) + 1 - j] = j - 1
  <2>1. At(1) /\ At(HistorySize)
    <3>1. \A j \in 1 .. HistorySize : At(j)
      OBVIOUS
    <3>2. 1 \in 1 .. HistorySize /\ HistorySize \in 1 .. HistorySize
      BY <1>1
    <3> HIDE DEF At
    <3> QED
      BY <3>1, <3>2
  <2>2. Len(h) + 1 - 1 = Len(h) /\ Len(h) + 1 - HistorySize = 1
    BY <1>1
  <2> QED
    BY <2>1, <2>2
<1>3. Head(h) = h[1] /\ Last(h) = h[Len(h)]
  BY <1>1 DEF Last
<1>4. Speed(h) = [over |-> Head(h) - Last(h), span |-> Span(h)]
  BY <1>1 DEF Speed
<1> QED
  BY <1>1, <1>2, <1>3, <1>4 DEF Span

LEMMA RefreshIInv ==
  ASSUME IInv, CRefresh
  PROVE  IInv'
<1> USE DEF CRefresh
<1>1. /\ TypeOK /\ Shapes /\ Once /\ Kept /\ TierEarned /\ Running /\ HoldLimited
      /\ Updating /\ OneSnapshot /\ History /\ VelocityTrue
  BY DEF IInv
<1>2. /\ place = "update" /\ place' = "fight"
      /\ running' = running /\ resumed' = resumed /\ reader' = reader
      /\ enemy' = enemy /\ steady' = steady
      /\ phase' = phase /\ tier' = tier /\ since' = since /\ mode' = mode
      /\ low' = low /\ held' = held /\ earned' = earned
  BY DEF Refresh, ServicesRefresh, avars
<1>3. /\ age' \in [Fields -> Ages]
      /\ age'["Target"].mine = 0
      /\ enemy => age'["Target"].theirs = 0
      /\ \A f \in Derived \ {"Latest"} :
           age'[f] = [mine |-> 0, theirs |-> age'["Target"].theirs]
  <2>1. age' = Served
    BY DEF ServicesRefresh
  <2> QED
    BY <1>1, <1>2, <2>1, AfterServices DEF Shapes, Updating
<1>4. age'["Target"].theirs \in Nat
  <2>1. "Target" \in Fields
    BY DEF Fields
  <2>2. age'["Target"] \in Ages
    BY <1>3, <2>1
  <2> QED
    BY <2>2 DEF Ages
<1>5. /\ hist' \in Seq(Nat) /\ Len(hist') <= HistorySize
      /\ \A j \in 1 .. steady : Len(hist') >= steady /\ hist'[Len(hist') + 1 - j] = j - 1
  BY <1>1, <1>2, <1>3, <1>4, RefreshHistory
<1>6. PICK d \in Deltas : delta' = d /\ verdict' = Verdict(d)
  BY DEF ServicesRefresh
<1>7. TypeOK'
  <2>1. verdict' \in {-1, 0, 1}
    BY <1>1, <1>6, VerdictType DEF TypeOK
  <2> QED
    BY <1>1, <1>2, <1>5, <1>6, <2>1 DEF TypeOK
<1>8. Shapes'
  BY <1>1, <1>2, <1>3, <1>5 DEF Shapes
<1>9. Once' /\ Kept' /\ TierEarned' /\ Running' /\ HoldLimited'
  BY <1>1, <1>2 DEF Once, Kept, TierEarned, Running, HoldLimited
<1>10. Updating' /\ OneSnapshot'
  BY <1>2, <1>3 DEF Updating, OneSnapshot
<1>11. History'
  <2>1. steady \in Nat /\ Len(hist') \in Nat
    BY <1>1, <1>5, ServiceAssumption DEF TypeOK
  <2>2. Len(hist') >= steady
    BY <1>5, <2>1
  <2> QED
    BY <1>2, <1>5, <2>1, <2>2 DEF History, Recent
<1>12. VelocityTrue'
  <2>1. ASSUME steady = HistorySize
        PROVE  velocity'.over = velocity'.span
    <3>1. Len(hist') = HistorySize
      BY <1>5, <2>1, ServiceAssumption
    <3>2. velocity' = Speed(hist')
      BY DEF ServicesRefresh
    <3> QED
      BY <1>5, <2>1, <3>1, <3>2, SpeedTrue
  <2> QED
    BY <1>2, <2>1 DEF VelocityTrue
<1> QED
  BY <1>7, <1>8, <1>9, <1>10, <1>11, <1>12 DEF IInv
-----------------------------------------------------------------------------
(* The task, and the steps that tick neither services nor task.            *)

\* A step that only reads leaves what the services have found.
LEMMA ReadsOnly ==
  ASSUME Shapes, Updating, OneSnapshot, History, VelocityTrue,
         place = "fight", place' \in {"fight", "out"},
         running' \in BOOLEAN, resumed' = resumed,
         UNCHANGED svars
  PROVE  Shapes' /\ Updating' /\ OneSnapshot' /\ History' /\ VelocityTrue'
<1>1. /\ enemy' = enemy /\ age' = age /\ hist' = hist
      /\ velocity' = velocity /\ steady' = steady
  BY DEF svars
<1>2. Shapes' /\ Updating'
  BY <1>1 DEF Shapes, Updating
<1>3. OneSnapshot' /\ VelocityTrue'
  BY <1>1 DEF OneSnapshot, VelocityTrue
<1>4. History'
  BY <1>1 DEF History, Recent
<1> QED
  BY <1>2, <1>3, <1>4

LEMMA YieldsIInv ==
  ASSUME TypeOK, NEW s \in Situations, Yields(s), UNCHANGED <<svars, phase, held>>
  PROVE  TypeOK' /\ Once' /\ Kept' /\ TierEarned' /\ Running' /\ HoldLimited'
<1> USE DEF Yields
<1>1. tier' = "CONSERVE" /\ mode' = "yield" /\ low' = FALSE /\ earned' = {}
      /\ since' = since /\ held' = held /\ phase' = phase /\ reader' = "declined"
  BY DEF TierAfterYield, Read
<1>2. verdict' = verdict /\ delta' = delta /\ hist' = hist /\ steady' = steady
  BY DEF svars
<1>3. TypeOK'
  BY <1>1, <1>2 DEF TypeOK, Tiers
<1> QED
  BY <1>1, <1>3 DEF Once, Kept, TierEarned, Running, HoldLimited

LEMMA OverridesIInv ==
  ASSUME TypeOK, Kept, NEW s \in Situations, Overrides(s),
         UNCHANGED <<svars, phase, held>>
  PROVE  TypeOK' /\ Once' /\ Kept' /\ TierEarned' /\ Running' /\ HoldLimited'
<1> USE DEF Overrides
<1>1. mode' \in {"HIGH_YOYO", "GUN"} /\ low' = FALSE
      /\ tier' = tier /\ earned' = earned
      /\ since' = since /\ held' = held /\ phase' = phase /\ reader' = "pressed"
  BY DEF Read
<1>2. verdict' = verdict /\ delta' = delta /\ hist' = hist /\ steady' = steady
  BY DEF svars
<1>3. TypeOK'
  BY <1>1, <1>2 DEF TypeOK, Tiers
<1> QED
  BY <1>1, <1>3 DEF Once, Kept, TierEarned, Running, HoldLimited

LEMMA PressesIInv ==
  ASSUME TypeOK, Once, Kept, Running, NEW s \in Situations, Presses(s),
         UNCHANGED <<svars, phase, held>>
  PROVE  TypeOK' /\ Once' /\ Kept' /\ TierEarned' /\ Running' /\ HoldLimited'
<1> DEFINE t == ByAngle(s)
           band == EnergyBand(s)
           open == s.ata <= 22 * Scale
<1>1. /\ since' = HeldSince(t, band)
      /\ mode' = ByEnergy(t, band, since')
      /\ tier' = TierOf(mode')
      /\ low' = (band = "LOW")
      /\ earned' = IF open THEN earned \cup {t} ELSE earned
  BY Zenon DEF Presses
<1>2. /\ reader = "nobody" /\ reader' = "pressed"
      /\ held' = held /\ phase' = phase
      /\ verdict' = verdict /\ delta' = delta /\ hist' = hist /\ steady' = steady
  BY DEF Presses, Read, svars
<1>3. mode = "none"
  BY <1>2 DEF Once
<1>4. t \in Tiers /\ (~open => t \in {tier, "CONSERVE"})
  <2>1. phase \in Phases /\ tier \in Tiers
    BY DEF TypeOK
  <2>2. s.ata \in Nat /\ 22 * Scale \in Nat
    BY <2>1, ScaleType, AggressiveAssumption
  <2> QED
    BY <2>1, <2>2, ByAngleKeeps
<1> HIDE DEF t, band, open
<1>5. /\ mode' \in Tiers \cup {"DEMOTED"}
      /\ mode' \in {"ALL_OUT", "PURSUE"} => mode' = t
      /\ mode' = "DEMOTED" => t = "ALL_OUT"
      /\ TierMatrix /\ mode' = "ALL_OUT" => ~(since' > HoldLimit)
  BY <1>1, <1>4, ByEnergyType
<1>6. tier' \in Tiers /\ (tier' # "CONSERVE" => tier' = mode' /\ mode' = t)
  BY <1>1, <1>5 DEF TierOf, Tiers
<1>7. since' = IF ~TierMatrix THEN -1
               ELSE IF t = "ALL_OUT" /\ band = "LOW" THEN IF since < 0 THEN 0 ELSE since
               ELSE IF t = "PURSUE" /\ band = "LOW" THEN since ELSE -1
  BY <1>1, <1>4, HeldSinceIs
<1>8. since \in -1 .. HoldLimit + 1 /\ held \in 0 .. HoldLimit + 1 /\ HoldLimit \in Nat
  BY AggressiveAssumption DEF TypeOK
<1>9. since' \in -1 .. HoldLimit + 1
  BY <1>7, <1>8
<1>10. earned' \subseteq Tiers
  BY <1>1, <1>4 DEF TypeOK
<1>11. TypeOK'
  BY <1>1, <1>2, <1>5, <1>6, <1>9, <1>10 DEF TypeOK
<1>12. t # "CONSERVE" => t \in earned'
  BY <1>1, <1>4 DEF Kept
<1>13. Once' /\ Kept' /\ TierEarned'
  BY <1>2, <1>5, <1>6, <1>12 DEF Once, Kept, TierEarned
<1>14. ASSUME TierMatrix, mode' \in {"ALL_OUT", "DEMOTED"}, low'
       PROVE  since' >= 0 /\ since' >= held' /\ (mode' = "ALL_OUT" => held' <= HoldLimit)
  <2>1. t = "ALL_OUT" /\ band = "LOW"
    BY <1>1, <1>5, <1>14
  <2>2. since' = IF since < 0 THEN 0 ELSE since
    BY <1>7, <1>14, <2>1
  <2>3. held > 0 => since >= held
    BY <1>3, <1>14 DEF Running
  <2>4. mode' = "ALL_OUT" => since' <= HoldLimit
    BY <1>5, <1>8, <1>9, <1>14
  <2> QED
    BY <1>2, <1>8, <2>2, <2>3, <2>4
<1>15. mode' # "none"
  BY <1>5 DEF Tiers
<1> QED
  BY <1>11, <1>13, <1>14, <1>15 DEF Running, HoldLimited

LEMMA TickIInv ==
  ASSUME IInv, TickTask
  PROVE  IInv'
<1>1. /\ TypeOK /\ Shapes /\ Once /\ Kept /\ TierEarned /\ Running /\ HoldLimited
      /\ Updating /\ OneSnapshot /\ History /\ VelocityTrue
  BY DEF IInv
<1>2. PICK s \in Situations : Yields(s) \/ Overrides(s) \/ Presses(s)
  BY DEF TickTask
<1>3. UNCHANGED <<svars, phase, held>>
  BY DEF TickTask
<1>4. place = "fight" /\ place' = "fight" /\ running' = running /\ resumed' = resumed
  BY <1>2 DEF Yields, Overrides, Presses, Read
<1>5. Shapes' /\ Updating' /\ OneSnapshot' /\ History' /\ VelocityTrue'
  BY <1>1, <1>3, <1>4, ReadsOnly DEF Shapes
<1>6. TypeOK' /\ Once' /\ Kept' /\ TierEarned' /\ Running' /\ HoldLimited'
  BY <1>1, <1>2, <1>3, YieldsIInv, OverridesIInv, PressesIInv
<1> QED
  BY <1>5, <1>6 DEF IInv

LEMMA ElsewhereIInv ==
  ASSUME IInv, CElsewhere
  PROVE  IInv'
<1>1. /\ TypeOK /\ Shapes /\ Once /\ Kept /\ TierEarned /\ Running /\ HoldLimited
      /\ Updating /\ OneSnapshot /\ History /\ VelocityTrue
  BY DEF IInv
<1>2. /\ phase' = phase /\ tier' = tier /\ since' = since /\ mode' = mode
      /\ low' = low /\ held' = held /\ earned' = earned
      /\ UNCHANGED svars
  BY DEF CElsewhere, avars
<1>3. /\ place = "fight" /\ place' \in {"fight", "out"}
      /\ running' \in BOOLEAN /\ resumed' = resumed
      /\ reader' = reader \/ reader = "nobody"
  BY <1>1 DEF CElsewhere, End, Read, Shapes
<1>4. Shapes' /\ Updating' /\ OneSnapshot' /\ History' /\ VelocityTrue'
  BY <1>1, <1>2, <1>3, ReadsOnly
<1>5. TypeOK'
  BY <1>1, <1>2 DEF TypeOK, svars
<1>6. Once'
  BY <1>1, <1>2, <1>3 DEF Once
<1>7. Kept' /\ TierEarned' /\ Running' /\ HoldLimited'
  BY <1>1, <1>2 DEF Kept, TierEarned, Running, HoldLimited
<1> QED
  BY <1>4, <1>5, <1>6, <1>7 DEF IInv

LEMMA StutterIInv ==
  ASSUME IInv, UNCHANGED cvars
  PROVE  IInv'
<1>1. UNCHANGED fvars /\ UNCHANGED svars /\ UNCHANGED avars
  BY DEF cvars
<1>2. TypeOK' /\ Shapes'
  BY <1>1 DEF IInv, TypeOK, Shapes, fvars, svars, avars
<1>3. Once' /\ Kept' /\ TierEarned' /\ Running' /\ HoldLimited'
  BY <1>1 DEF IInv, Once, Kept, TierEarned, Running, HoldLimited, fvars, avars
<1>4. Updating' /\ OneSnapshot' /\ History' /\ VelocityTrue'
  BY <1>1 DEF IInv, Updating, OneSnapshot, History, Recent, VelocityTrue, fvars, svars
<1> QED
  BY <1>2, <1>3, <1>4 DEF IInv

LEMMA Invariance == CSpec => []IInv
<1>1. ASSUME IInv, CNext
      PROVE  IInv'
  BY <1>1, BeginIInv, RefreshIInv, TickIInv, ElsewhereIInv DEF CNext
<1>2. IInv /\ [CNext]_cvars => IInv'
  BY <1>1, StutterIInv
<1> QED
  BY <1>2, InitIInv, PTL DEF CSpec
-----------------------------------------------------------------------------
\* Whatever the task finds, its tier, its clock and the data of the services
\* stay within their types.
THEOREM TypeCorrect == CSpec => []TypeOK
<1>1. IInv => TypeOK
  BY DEF IInv
<1> QED
  BY <1>1, Invariance, PTL

\* Re-entry is conservative (the tier by the angle and its memory prev_tier_):
\* the task presses only in a tier whose angles were met since it last yielded.
THEOREM ReEntryConservative == CSpec => []TierEarned
<1>1. IInv => TierEarned
  BY DEF IInv
<1> QED
  BY <1>1, Invariance, PTL

\* The hold limit is kept (allout_elow_since_): the tiers never press ALL_OUT
\* with low energy for more than HoldLimit frames in a row.
THEOREM HoldIsLimited == CSpec => []HoldLimited
<1>1. IInv => HoldLimited
  BY DEF IInv
<1> QED
  BY <1>1, Invariance, PTL

\* The order of the services in the document is right: in a fresh frame all of
\* the geometry is of one moment when the fight begins.
THEOREM OneMoment == CSpec => []OneSnapshot
<1>1. IInv => OneSnapshot
  BY DEF IInv
<1> QED
  BY <1>1, Invariance, PTL

\* The history of PredictManeuver measures what it says, for any size of it:
\* after as many fresh frames with an enemy, the predicted velocity is true.
THEOREM TrueVelocity == CSpec => []VelocityTrue
<1>1. IInv => VelocityTrue
  BY DEF IInv
<1> QED
  BY <1>1, Invariance, PTL
=============================================================================
