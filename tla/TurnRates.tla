------------------------------ MODULE TurnRates ------------------------------
(***************************************************************************)
(* The turn-rate sampler in SetBFMMode_HABFM and the circle it decides on. *)
(* The sampler keeps a heading of each aircraft and the time of it; when   *)
(* it is ticked MinSample to MaxSample frames later, it divides what the   *)
(* headings have changed by the time between. CombatFrames says in which   *)
(* frames it is ticked at all.                                             *)
(*                                                                         *)
(* A heading is known on a circle of Circle units, and taken relative to   *)
(* the reference. The ghosts keep the true turn, which knows no circle and *)
(* begins anew whenever the sampler sets its clock. The headings are those *)
(* on the blackboard. (The target's stands still there while no enemy      *)
(* lives; what it jumps when one lives again is left out.)                 *)
(***************************************************************************)
EXTENDS CombatFrames, Integers

CONSTANTS
  Circle,       \* 360 degrees
  MinSample,    \* TURN_RATE_SAMPLE_SEC, in frames
  MaxSample,    \* MAX_TURN_RATE_SAMPLE_SEC, in frames
  MaxRate,      \* MAX_VALID_TURN_RATE_DEG_SEC, in units a frame
  Margin,       \* TURN_RATE_MARGIN_DEG_SEC, in units a frame
  MaxTurn       \* what an aircraft's heading changes in a frame, at most

\* No aircraft turns half a circle within a window (180 degrees in 1 s).
ASSUME TurnAssumption ==
  /\ {Circle, MinSample, MaxSample, MaxRate, Margin, MaxTurn} \subseteq Nat \ {0}
  /\ MinSample <= MaxSample
  /\ 2 * MaxSample * MaxTurn <= Circle

Aircraft == {"mine", "theirs"}
Modes == {"NONE", "ONE_CIRCLE", "TWO_CIRCLE"}

VARIABLES
  hasPrev,      \* HasPrevHeading
  hasRate,      \* HasTurnRate
  since,        \* MatchTimeSec() - PrevSampleTime_Sec in frames, capped
  off,          \* the headings now, less PrevMyYaw_Degree, PrevTargetYaw_Degree
  turn,         \* ghost: what each has turned since PrevSampleTime_Sec; Circle
                \* when that is longer ago than a window may be
  rate,         \* the turn rates: what was turned in a window of .span frames
  true,         \* ghost: how far each had truly turned in that window
  mode          \* BB->HABFM_CircleMode

sampler == <<hasPrev, hasRate, since, off, turn, rate, true, mode>>
tvars == <<fvars, sampler>>

Still == [a \in Aircraft |-> 0]
Size(x) == IF x < 0 THEN -x ELSE x

TInit ==
  /\ FInit
  /\ hasPrev = FALSE
  /\ hasRate = FALSE
  /\ since = 0
  /\ off = Still
  /\ turn = Still
  /\ rate = [mine |-> 0, theirs |-> 0, span |-> 1]
  /\ true = Still
  /\ mode = "NONE"
-----------------------------------------------------------------------------
\* A difference of two headings, folded to half a circle on either side.
Wrapped(d) == IF 2 * d > Circle THEN Circle - d ELSE d

\* CalculateTurnRateDegPerSec() accepts the change x in a window of n frames.
\* Mutant: anything.
ValidAny(x, n) == TRUE
Valid(x, n) == x <= MaxRate * n

\* The reference is too old, or there is none.
\* Mutant: the gap is not looked at.
NeverLost == ~hasPrev
Lost == ~hasPrev \/ since > MaxSample

\* The time and both headings become the reference.
Refer == since' = 0 /\ turn' = Still /\ off' = Still

\* UpdateTurnRates(). A clock or a heading that is not finite leaves all as it is,
\* and so does a tick too soon. The clock never goes back, which the code allows for.
Sample ==
  LET now == [mine |-> Wrapped(off["mine"]), theirs |-> Wrapped(off["theirs"]),
              span |-> since]
      valid == Valid(now.mine, since) /\ Valid(now.theirs, since)
  IN  \/ /\ Lost
         /\ hasPrev' = TRUE
         /\ Refer
         /\ UNCHANGED <<hasRate, rate, true>>
      \/ UNCHANGED <<hasPrev, hasRate, since, off, turn, rate, true>>
      \/ /\ ~Lost /\ since >= MinSample
         /\ Refer
         /\ hasRate' = valid
         /\ rate' = IF valid THEN now ELSE rate
         /\ true' = IF valid THEN [a \in Aircraft |-> Size(turn[a])] ELSE true
         /\ UNCHANGED hasPrev

\* One turns faster than the other, by the margin.
Faster(r, a, b) == r[a] >= r[b] + Margin * r.span

\* UpdateCircleMode(), after Sample. The one who turns faster decides.
\* Mutant: the comparisons are swapped.
CircleSwapped ==
  CASE hasRate' /\ Faster(rate', "mine", "theirs") -> "ONE_CIRCLE"
    [] hasRate' /\ Faster(rate', "theirs", "mine") -> "TWO_CIRCLE"
    [] OTHER -> mode
CircleMode ==
  CASE hasRate' /\ Faster(rate', "mine", "theirs") -> "TWO_CIRCLE"
    [] hasRate' /\ Faster(rate', "theirs", "mine") -> "ONE_CIRCLE"
    [] OTHER -> mode

\* SetBFMMode_HABFM::tick(): the rates always, the circle when the gate opens.
TickSampler ==
  /\ Read("sampler")
  /\ Sample
  /\ mode' \in {mode, CircleMode}
-----------------------------------------------------------------------------
Capped(n) == IF n > MaxSample THEN MaxSample + 1 ELSE n

\* A frame begins: time has passed, and both may have turned.
NewFrame ==
  /\ Begin
  /\ since' = Capped(since + 1)
  /\ \E t \in [Aircraft -> -MaxTurn .. MaxTurn] :
       /\ off' = [a \in Aircraft |-> (off[a] + t[a]) % Circle]
       /\ turn' = [a \in Aircraft |->
                     IF since' > MaxSample THEN Circle ELSE turn[a] + t[a]]
  /\ UNCHANGED <<hasPrev, hasRate, rate, true, mode>>

\* The rest of the frame leaves the sampler alone.
Elsewhere ==
  /\ Refresh \/ End \/ Read("pressed") \/ Read("declined")
  /\ UNCHANGED sampler

TNext == NewFrame \/ TickSampler \/ Elsewhere

TSpec == TInit /\ [][TNext]_tvars
-----------------------------------------------------------------------------
\* Types; rates are such as an aircraft can fly.
TypeOK ==
  /\ hasPrev \in BOOLEAN /\ hasRate \in BOOLEAN
  /\ since \in 0 .. MaxSample + 1
  /\ \A a \in Aircraft :
       /\ off[a] \in 0 .. Circle - 1 /\ turn[a] \in -Circle .. Circle
       /\ rate[a] \in 0 .. MaxRate * rate.span /\ true[a] \in 0 .. Circle
  /\ rate.span \in 1 .. MaxSample
  /\ mode \in Modes

\* Rates that count are the true ones, of one window for both aircraft,
\* wherever the headings wrap and whatever frames the sampler missed.
RatesTrue == hasRate => \A a \in Aircraft : rate[a] = true[a]

\* The circle only ever changes to that of the aircraft that did turn faster.
CircleEarned ==
  [][mode' # mode =>
       LET gain == true'["mine"] - true'["theirs"] IN
         /\ hasRate'
         /\ Size(gain) >= Margin * rate'.span
         /\ mode' = IF gain > 0 THEN "TWO_CIRCLE" ELSE "ONE_CIRCLE"]_tvars
=============================================================================
