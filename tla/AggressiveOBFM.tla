--------------------------- MODULE AggressiveOBFM ---------------------------
(***************************************************************************)
(* Task_AggressiveOBFM on the data of Services: how hard it presses (the   *)
(* tier), which remembers the last tick, and how long it may press on with *)
(* less energy than the target. Where it aims is left out. Angles are in   *)
(* tenths of a degree, ranges in decimetres, times in frames.              *)
(***************************************************************************)
EXTENDS Services, WezPhase

CONSTANTS
  TierMatrix,   \* TierMatrix(): the energy counts, unless STIL_TIER_MATRIX=0
  HoldLimit,    \* AllOutELowMaxSec
  Band,         \* EnergyBand, in the units of Deltas
  Situations    \* what it may find: sight, range d, angle ata, fast closure,
                \* and speed: own speed to the target's, "slow" "even" "fast"

ASSUME AggressiveAssumption ==
  /\ TierMatrix \in BOOLEAN
  /\ HoldLimit \in Nat
  /\ Band \in Nat
  /\ Situations \subseteq [sight : BOOLEAN, d : Nat, ata : Nat, fast : BOOLEAN,
                           speed : {"slow", "even", "fast"}]

VARIABLES
  phase,        \* WezPhase::PhaseAt(MatchTimeSec())
  tier,         \* prev_tier_
  since,        \* MatchTimeSec() - allout_elow_since_, capped; -1: not set
  mode,         \* what it did in this frame
  low,          \* ghost: it judged its energy low in doing so
  held,         \* ghost: frames in a row, up to the last, in which the angle
                \* called for ALL_OUT while low, demoted or not
  earned        \* ghost: tiers whose angles were met since it last yielded

avars == <<phase, tier, since, mode, low, held, earned>>
cvars == <<fvars, svars, avars>>

CInit ==
  /\ FInit
  /\ SInit
  /\ phase = 1
  /\ tier = "CONSERVE"
  /\ since = -1
  /\ mode = "none"
  /\ low = FALSE
  /\ held = 0
  /\ earned = {}
-----------------------------------------------------------------------------
OwnSituation(s) == s.sight /\ s.d \in 300 .. 25000 /\ s.ata <= 1800

OvershootRisk(s) == s.fast /\ s.d < 5000

GunCommit(s) == s.d <= 6500 /\ s.ata <= 25 /\ BestCoeff(phase, s.ata, s.d) > 0

\* The energy band: by the difference, or by the speeds when there is none or
\* the verdict is against us.
EnergyBand(s) ==
  IF delta = 0 \/ verdict < 0
  THEN CASE s.speed = "slow" -> "LOW" [] s.speed = "even" -> "MID" [] OTHER -> "HIGH"
  ELSE CASE delta > Band -> "HIGH" [] delta < -Band -> "LOW" [] OTHER -> "MID"

\* phase_scale
Scale == WidestOpen(phase).ata \div WidestOpen(1).ata

\* The tier by the angle; the thresholds widen with the open window. Between
\* the last two, the tier stays.
ByAngle(s) ==
  CASE s.ata <= 13 * Scale -> "ALL_OUT"
    [] s.ata \in 13 * Scale + 1 .. 22 * Scale -> "PURSUE"
    [] s.ata >= 28 * Scale -> "CONSERVE"
    [] OTHER -> tier

\* Since when ALL_OUT is held while low, in the tick that finds the tier t.
\* Mutant: each tick is the first.
HeldAnew(t, band) == IF t = "ALL_OUT" /\ band = "LOW" THEN 0 ELSE -1
HeldSince(t, band) ==
  IF ~TierMatrix THEN -1
  ELSE CASE t = "ALL_OUT" /\ band = "LOW" -> IF since < 0 THEN 0 ELSE since
         [] t = "PURSUE" /\ band = "LOW" -> since
         [] OTHER -> -1

\* The tier by the energy.
ByEnergy(t, band, hold) ==
  IF ~TierMatrix THEN t
  ELSE CASE t = "PURSUE" /\ band = "LOW" -> "CONSERVE"
         [] t = "ALL_OUT" /\ hold > HoldLimit -> "DEMOTED"
         [] OTHER -> t

TierOf(m) == IF m = "DEMOTED" THEN "CONSERVE" ELSE m

\* The tier after a yield.
\* Mutant: the one before.
TierKept == tier
TierAfterYield == "CONSERVE"
-----------------------------------------------------------------------------
(* tick() of the task in the situation s, of a frame of CombatFrames.      *)

Yields(s) ==
  /\ ~OwnSituation(s)
  /\ Read("declined")
  /\ tier' = TierAfterYield
  /\ mode' = "yield"
  /\ low' = FALSE
  /\ earned' = {}
  /\ UNCHANGED since

\* The high yo-yo and the gun run leave the tier alone.
Overrides(s) ==
  /\ OwnSituation(s)
  /\ OvershootRisk(s) \/ GunCommit(s)
  /\ Read("pressed")
  /\ mode' = IF OvershootRisk(s) THEN "HIGH_YOYO" ELSE "GUN"
  /\ low' = FALSE
  /\ UNCHANGED <<tier, since, earned>>

Presses(s) ==
  /\ OwnSituation(s)
  /\ ~OvershootRisk(s) /\ ~GunCommit(s)
  /\ Read("pressed")
  /\ LET t == ByAngle(s)
         band == EnergyBand(s)
     IN  /\ since' = HeldSince(t, band)
         /\ mode' = ByEnergy(t, band, since')
         /\ tier' = TierOf(mode')
         /\ low' = (band = "LOW")
         /\ earned' = IF s.ata <= 22 * Scale THEN earned \cup {t} ELSE earned

TickTask ==
  /\ \E s \in Situations : Yields(s) \/ Overrides(s) \/ Presses(s)
  /\ UNCHANGED <<svars, phase, held>>

Counted(n) == IF n > HoldLimit THEN n ELSE n + 1

\* A new frame: the clock goes on, whoever is ticked.
CBegin ==
  /\ Begin
  /\ ServicesBegin
  /\ phase' \in {phase, phase + 1} \cap Phases
  /\ since' = IF since < 0 THEN since ELSE Counted(since)
  /\ held' = IF mode \in {"ALL_OUT", "DEMOTED"} /\ low THEN Counted(held) ELSE 0
  /\ mode' = "none"
  /\ low' = FALSE
  /\ UNCHANGED <<tier, earned>>

CRefresh == Refresh /\ ServicesRefresh /\ UNCHANGED avars

CElsewhere == (End \/ Read("sampler")) /\ UNCHANGED <<svars, avars>>

CNext == CBegin \/ CRefresh \/ TickTask \/ CElsewhere

CSpec == CInit /\ [][CNext]_cvars
-----------------------------------------------------------------------------
Tiers == {"ALL_OUT", "PURSUE", "CONSERVE"}

\* Types.
TypeOK ==
  /\ phase \in Phases
  /\ tier \in Tiers
  /\ since \in -1 .. HoldLimit + 1
  /\ mode \in Tiers \cup {"none", "yield", "HIGH_YOYO", "GUN", "DEMOTED"}
  /\ low \in BOOLEAN
  /\ held \in 0 .. HoldLimit + 1
  /\ earned \subseteq Tiers
  /\ verdict \in {-1, 0, 1} /\ delta \in Deltas \cup {0}
  /\ Len(hist) <= HistorySize /\ steady \in 0 .. HistorySize

\* A tier above CONSERVE is only kept across the buffer zone when its own
\* angles were met since the task last yielded: re-entry is conservative.
TierEarned == mode \in {"ALL_OUT", "PURSUE"} => mode \in earned

\* With the energy counting, the tiers never press ALL_OUT while low once the
\* angle has called for it in more than HoldLimit frames in a row before (so for
\* HoldLimit + 1 frames, HoldLimit from the first to the last), whatever else
\* the task did before them.
HoldLimited == TierMatrix /\ mode = "ALL_OUT" /\ low => held <= HoldLimit

\* Task_AggressiveOBFM.cpp:380 says that the clock is reset when the condition
\* is broken, the header's line 166 that the limit is on a hold without a break:
\* a demotion comes after more than HoldLimit frames of one hold.
DemotedOnlyAfterHold == mode = "DEMOTED" => held > HoldLimit
=============================================================================
