--------------------------- MODULE TurnRatesProofs ---------------------------
(***************************************************************************)
(* Theorems about TurnRates, for circles, windows, rates and margins of    *)
(* any size. The inductive invariant (Folded) says what the headings on    *)
(* the circle have to do with the true turn: as long as the reference is   *)
(* young enough, no aircraft has turned more than half a circle, so that   *)
(* the heading is the turn, or the turn and a whole circle.                *)
(***************************************************************************)
EXTENDS TurnRates, TLAPS

Folded ==
  since <= MaxSample =>
    \A a \in Aircraft :
      /\ -(since * MaxTurn) <= turn[a] /\ turn[a] <= since * MaxTurn
      /\ off[a] = IF turn[a] >= 0 THEN turn[a] ELSE turn[a] + Circle

\* TypeOK leaves open that these are functions on the aircraft.
Shapes ==
  /\ off \in [Aircraft -> Int]
  /\ turn \in [Aircraft -> Int]

IInv == TypeOK /\ Shapes /\ Folded /\ RatesTrue
-----------------------------------------------------------------------------
\* The constants as the provers want them.
LEMMA Constants ==
  /\ Circle \in Nat /\ Circle > 0
  /\ MinSample \in Nat /\ MinSample > 0
  /\ MaxSample \in Nat /\ MaxSample > 0
  /\ MaxRate \in Nat /\ MaxRate > 0
  /\ Margin \in Nat /\ Margin > 0
  /\ MaxTurn \in Nat /\ MaxTurn > 0
  /\ MinSample <= MaxSample
  /\ 2 * (MaxSample * MaxTurn) <= Circle
<1>1. 2 * MaxSample * MaxTurn <= Circle /\ MinSample <= MaxSample
      /\ MaxSample \in Nat /\ MaxTurn \in Nat
  BY TurnAssumption
<1>2. 2 * MaxSample * MaxTurn = 2 * (MaxSample * MaxTurn)
  BY <1>1
<1> QED
  BY TurnAssumption, <1>1, <1>2

\* What n frames may have turned is half a circle at most.
LEMMA HalfCircle ==
  ASSUME NEW n \in Nat, n <= MaxSample
  PROVE  /\ n * MaxTurn \in Nat
         /\ 2 * (n * MaxTurn) <= Circle
         /\ (n + 1) * MaxTurn = n * MaxTurn + MaxTurn
<1>1. n * MaxTurn \in Nat /\ MaxSample * MaxTurn \in Nat
  BY Constants
<1>2. n * MaxTurn <= MaxSample * MaxTurn
  BY Constants
<1>3. (n + 1) * MaxTurn = n * MaxTurn + MaxTurn
  BY Constants
<1> QED
  BY <1>1, <1>2, <1>3, Constants

\* The remainder of a number that is at most one circle off.
LEMMA Remainder ==
  ASSUME NEW x \in Int, -Circle <= x, x < 2 * Circle
  PROVE  x % Circle = IF x < 0 THEN x + Circle
                      ELSE IF x < Circle THEN x ELSE x - Circle
  BY Constants
-----------------------------------------------------------------------------
LEMMA InitIInv == TInit => IInv
<1> SUFFICES ASSUME TInit PROVE IInv
  OBVIOUS
<1>1. off = Still /\ turn = Still /\ true = Still /\ since = 0
  BY DEF TInit
<1>2. /\ rate = [mine |-> 0, theirs |-> 0, span |-> 1]
      /\ hasPrev = FALSE /\ hasRate = FALSE /\ mode = "NONE"
  BY DEF TInit
<1>3. \A a \in Aircraft : off[a] = 0 /\ turn[a] = 0 /\ true[a] = 0
  BY <1>1 DEF Still
<1>4. rate.span = 1 /\ \A a \in Aircraft : rate[a] = 0
  BY <1>2 DEF Aircraft
<1>5. TypeOK
  <2>1. MaxRate * rate.span \in Nat
    BY <1>4, Constants
  <2>2. since \in 0 .. MaxSample + 1 /\ rate.span \in 1 .. MaxSample
    BY <1>1, <1>4, Constants
  <2>3. ASSUME NEW a \in Aircraft
        PROVE  /\ off[a] \in 0 .. Circle - 1 /\ turn[a] \in -Circle .. Circle
               /\ rate[a] \in 0 .. MaxRate * rate.span /\ true[a] \in 0 .. Circle
    BY <1>3, <1>4, <2>1, Constants
  <2> QED
    BY <1>2, <2>2, <2>3 DEF TypeOK, Modes
<1>6. Shapes
  <2>1. Still \in [Aircraft -> Int]
    BY DEF Still
  <2> QED
    BY <1>1, <2>1 DEF Shapes
<1>7. Folded /\ RatesTrue
  BY <1>1, <1>2, <1>3, Constants DEF Folded, RatesTrue
<1> QED
  BY <1>5, <1>6, <1>7 DEF IInv

\* A new frame: the headings go on, or the reference becomes too old.
LEMMA FrameStep == IInv /\ NewFrame => IInv'
<1> SUFFICES ASSUME IInv, NewFrame PROVE IInv'
  OBVIOUS
<1> USE Constants
<1>0. since \in Nat /\ since' = IF since + 1 > MaxSample THEN MaxSample + 1 ELSE since + 1
  BY DEF NewFrame, Capped, IInv, TypeOK
<1>1. UNCHANGED <<hasPrev, hasRate, rate, true, mode>>
  BY DEF NewFrame
<1>2. PICK t \in [Aircraft -> -MaxTurn .. MaxTurn] :
        /\ off' = [a \in Aircraft |-> (off[a] + t[a]) % Circle]
        /\ turn' = [a \in Aircraft |->
                      IF since' > MaxSample THEN Circle ELSE turn[a] + t[a]]
  BY DEF NewFrame
<1>3. ASSUME NEW a \in Aircraft
      PROVE  /\ off'[a] = (off[a] + t[a]) % Circle
             /\ turn'[a] = IF since' > MaxSample THEN Circle ELSE turn[a] + t[a]
             /\ t[a] \in Int /\ -MaxTurn <= t[a] /\ t[a] <= MaxTurn
             /\ off[a] \in 0 .. Circle - 1
             /\ turn[a] \in -Circle .. Circle
  BY <1>2 DEF IInv, TypeOK
<1>4. ASSUME NEW a \in Aircraft PROVE off'[a] \in 0 .. Circle - 1
  BY <1>3
<1>5. ASSUME NEW a \in Aircraft, since' <= MaxSample
      PROVE  /\ -(since' * MaxTurn) <= turn'[a] /\ turn'[a] <= since' * MaxTurn
             /\ 2 * turn'[a] <= Circle /\ -Circle <= 2 * turn'[a]
             /\ off'[a] = IF turn'[a] >= 0 THEN turn'[a] ELSE turn'[a] + Circle
  <2>1. since' = since + 1 /\ since <= MaxSample
    BY <1>0, <1>5
  <2>2. /\ -(since * MaxTurn) <= turn[a] /\ turn[a] <= since * MaxTurn
        /\ off[a] = IF turn[a] >= 0 THEN turn[a] ELSE turn[a] + Circle
    BY <2>1, <1>5 DEF IInv, Folded
  <2>3. since' * MaxTurn = since * MaxTurn + MaxTurn
    BY <1>0, <2>1, HalfCircle
  <2>4. since * MaxTurn \in Nat /\ 2 * (since' * MaxTurn) <= Circle
    BY <1>0, <1>5, <2>1, HalfCircle
  <2>5. turn'[a] = turn[a] + t[a]
    BY <1>3, <1>5, <2>1
  <2>6. -(since' * MaxTurn) <= turn'[a] /\ turn'[a] <= since' * MaxTurn
    BY <1>3, <1>5, <2>2, <2>3, <2>4, <2>5
  <2>7. 2 * turn'[a] <= Circle /\ -Circle <= 2 * turn'[a]
    BY <1>3, <1>5, <2>3, <2>4, <2>5, <2>6
  <2>8. off'[a] = IF turn'[a] >= 0 THEN turn'[a] ELSE turn'[a] + Circle
    <3>1. -Circle <= off[a] + t[a] /\ off[a] + t[a] < 2 * Circle
      BY <1>3, <1>5, <2>2, <2>4, <2>3
    <3>2. off'[a] = IF off[a] + t[a] < 0 THEN off[a] + t[a] + Circle
                    ELSE IF off[a] + t[a] < Circle THEN off[a] + t[a]
                         ELSE off[a] + t[a] - Circle
      BY <3>1, <1>3, <1>5, Remainder
    <3> QED
      BY <3>2, <2>2, <2>5, <2>7, <1>3, <1>5
  <2> QED
    BY <2>6, <2>7, <2>8
<1>6. Shapes'
  <2>1. ASSUME NEW a \in Aircraft PROVE turn'[a] \in Int /\ off'[a] \in Int
    BY <1>3, <1>4
  <2> QED
    BY <1>2, <2>1 DEF Shapes
<1>7. TypeOK'
  <2>1. ASSUME NEW a \in Aircraft PROVE turn'[a] \in -Circle .. Circle
    <3>1. CASE since' > MaxSample
      BY <1>3, <3>1
    <3>2. CASE since' <= MaxSample
      BY <1>5, <1>6, <3>2 DEF Shapes
    <3> QED
      BY <1>0, <3>1, <3>2
  <2>2. since' \in 0 .. MaxSample + 1
    BY <1>0
  <2> QED
    BY <1>1, <1>4, <2>1, <2>2 DEF IInv, TypeOK
<1>8. Folded'
  BY <1>5 DEF Folded
<1>9. RatesTrue'
  BY <1>1 DEF IInv, RatesTrue
<1> QED
  BY <1>6, <1>7, <1>8, <1>9 DEF IInv

\* What a young reference makes of the headings is the true turn.
LEMMA WrappedTrue ==
  ASSUME IInv, since <= MaxSample, NEW a \in Aircraft
  PROVE  Wrapped(off[a]) = Size(turn[a])
<1>1. since \in Nat /\ off[a] \in 0 .. Circle - 1 /\ turn[a] \in Int
  BY Constants DEF IInv, TypeOK
<1>2. /\ -(since * MaxTurn) <= turn[a] /\ turn[a] <= since * MaxTurn
      /\ off[a] = IF turn[a] >= 0 THEN turn[a] ELSE turn[a] + Circle
  BY DEF IInv, Folded
<1>3. since * MaxTurn \in Nat /\ 2 * (since * MaxTurn) <= Circle
  BY <1>1, HalfCircle
<1>4. 2 * turn[a] <= Circle /\ -Circle <= 2 * turn[a]
  BY <1>1, <1>2, <1>3, Constants
<1>5. Circle \in Nat /\ off[a] \in Int
  BY <1>1, Constants
<1>6. CASE turn[a] >= 0
  BY <1>1, <1>2, <1>4, <1>5, <1>6 DEF Wrapped, Size
<1>7. CASE turn[a] < 0
  BY <1>1, <1>2, <1>4, <1>5, <1>7 DEF Wrapped, Size
<1> QED
  BY <1>1, <1>6, <1>7

\* A tick of the sampler: a new reference, no new one, or new rates.
LEMMA SampleStep == IInv /\ TickSampler => IInv'
<1> SUFFICES ASSUME IInv, TickSampler PROVE IInv'
  OBVIOUS
<1> DEFINE now == [mine |-> Wrapped(off["mine"]), theirs |-> Wrapped(off["theirs"]),
                   span |-> since]
           valid == Valid(now.mine, since) /\ Valid(now.theirs, since)
<1>1. since \in 0 .. MaxSample + 1 /\ TypeOK /\ Shapes /\ RatesTrue
  BY DEF IInv, TypeOK
<1>2. mode' \in Modes
  BY <1>1 DEF TickSampler, CircleMode, Modes, TypeOK
<1>3. CASE UNCHANGED <<hasRate, rate, true>> /\ hasPrev' = TRUE /\ Refer
  <2>1. since' = 0 /\ turn' = Still /\ off' = Still
    BY <1>3 DEF Refer
  <2>2. Still \in [Aircraft -> Int] /\ \A a \in Aircraft : Still[a] = 0
    BY DEF Still
  <2>3. TypeOK'
    BY <1>1, <1>2, <1>3, <2>1, <2>2, Constants DEF TypeOK
  <2>4. Shapes' /\ Folded'
    BY <2>1, <2>2, Constants DEF Shapes, Folded
  <2>5. RatesTrue'
    BY <1>1, <1>3 DEF RatesTrue
  <2> QED
    BY <2>3, <2>4, <2>5 DEF IInv
<1>4. CASE UNCHANGED <<hasPrev, hasRate, since, off, turn, rate, true>>
  BY <1>1, <1>2, <1>4 DEF IInv, TypeOK, Shapes, Folded, RatesTrue
<1>5. CASE /\ ~Lost /\ since >= MinSample /\ Refer
           /\ hasRate' = valid
           /\ rate' = IF valid THEN now ELSE rate
           /\ true' = IF valid THEN [a \in Aircraft |-> Size(turn[a])] ELSE true
           /\ UNCHANGED hasPrev
  <2> HIDE DEF now, valid
  <2>1. since' = 0 /\ turn' = Still /\ off' = Still
    BY <1>5 DEF Refer
  <2>2. Still \in [Aircraft -> Int] /\ \A a \in Aircraft : Still[a] = 0
    BY DEF Still
  <2>3. since \in 1 .. MaxSample
    BY <1>1, <1>5, Constants DEF Lost
  <2>4. ASSUME NEW a \in Aircraft
        PROVE  now[a] = Size(turn[a]) /\ Size(turn[a]) \in 0 .. Circle
    <3>1. Wrapped(off[a]) = Size(turn[a])
      BY <2>3, WrappedTrue, Constants
    <3>2. now[a] = Wrapped(off[a])
      BY DEF Aircraft, now
    <3>3. Size(turn[a]) \in 0 .. Circle
      BY <1>1, Constants DEF TypeOK, Size
    <3> QED
      BY <3>1, <3>2, <3>3
  <2>5. now.span = since
    BY DEF now
  <2>6. ASSUME valid, NEW a \in Aircraft PROVE now[a] \in 0 .. MaxRate * now.span
    <3>1. now[a] <= MaxRate * since
      BY <2>6 DEF valid, Valid, Aircraft
    <3>2. MaxRate * since \in Nat
      BY <2>3, Constants
    <3> QED
      BY <2>4, <2>5, <3>1, <3>2, Constants
  <2>7. ASSUME NEW a \in Aircraft
        PROVE  valid => rate'[a] = now[a] /\ true'[a] = Size(turn[a])
    BY <1>5
  <2>8. rate'.span \in 1 .. MaxSample
    BY <1>1, <1>5, <2>3, <2>5 DEF TypeOK
  <2>9. ASSUME NEW a \in Aircraft
        PROVE  rate'[a] \in 0 .. MaxRate * rate'.span /\ true'[a] \in 0 .. Circle
    <3>1. CASE valid
      BY <1>5, <2>4, <2>5, <2>6, <2>7, <3>1
    <3>2. CASE ~valid
      BY <1>1, <1>5, <3>2 DEF TypeOK
    <3> QED
      BY <3>1, <3>2
  <2>10. TypeOK'
    <3>1. hasPrev' \in BOOLEAN /\ hasRate' \in BOOLEAN
      BY <1>1, <1>5 DEF TypeOK, valid, Valid
    <3> QED
      BY <1>2, <2>1, <2>2, <2>8, <2>9, <3>1, Constants DEF TypeOK
  <2>11. Shapes' /\ Folded'
    BY <2>1, <2>2, Constants DEF Shapes, Folded
  <2>12. RatesTrue'
    BY <1>5, <2>4, <2>7 DEF RatesTrue
  <2> QED
    BY <2>10, <2>11, <2>12 DEF IInv
<1>6. Sample
  BY DEF TickSampler
<1> QED
  BY <1>3, <1>4, <1>5, <1>6 DEF Sample

LEMMA Invariant == TSpec => []IInv
<1>1. IInv /\ [TNext]_tvars => IInv'
  <2> SUFFICES ASSUME IInv, [TNext]_tvars PROVE IInv'
    OBVIOUS
  <2>1. CASE NewFrame
    BY <2>1, FrameStep
  <2>2. CASE TickSampler
    BY <2>2, SampleStep
  <2>3. CASE UNCHANGED sampler
    BY <2>3 DEF sampler, IInv, TypeOK, Shapes, Folded, RatesTrue
  <2> QED
    BY <2>1, <2>2, <2>3 DEF TNext, Elsewhere, tvars
<1> QED
  BY InitIInv, <1>1, PTL DEF TSpec
-----------------------------------------------------------------------------
\* Rates, windows and headings stay within what an aircraft can fly.
THEOREM TypeCorrect == TSpec => []TypeOK
<1>1. IInv => TypeOK
  BY DEF IInv
<1> QED
  BY Invariant, <1>1, PTL

\* The rates that count are the true ones, of one window for both aircraft,
\* wherever the headings wrap and whatever frames the sampler missed.
THEOREM TrueRates == TSpec => []RatesTrue
<1>1. IInv => RatesTrue
  BY DEF IInv
<1> QED
  BY Invariant, <1>1, PTL

\* The circle only ever changes to that of the aircraft that did turn faster,
\* by the margin, over the whole of one window.
THEOREM CirclesEarned == TSpec => CircleEarned
<1>1. IInv' /\ [TNext]_tvars
      => [mode' # mode =>
            LET gain == true'["mine"] - true'["theirs"] IN
              /\ hasRate'
              /\ Size(gain) >= Margin * rate'.span
              /\ mode' = IF gain > 0 THEN "TWO_CIRCLE" ELSE "ONE_CIRCLE"]_tvars
  <2> DEFINE gain == true'["mine"] - true'["theirs"]
  <2> SUFFICES ASSUME IInv', TNext, mode' # mode
               PROVE  /\ hasRate'
                      /\ Size(gain) >= Margin * rate'.span
                      /\ mode' = IF gain > 0 THEN "TWO_CIRCLE" ELSE "ONE_CIRCLE"
    BY DEF tvars, sampler
  <2>1. TickSampler /\ mode' = CircleMode
    BY DEF TNext, NewFrame, Elsewhere, sampler, TickSampler
  \* Who turns faster by the measured rates has truly turned further.
  <2>2. ASSUME hasRate', NEW a \in Aircraft, NEW b \in Aircraft, Faster(rate', a, b)
        PROVE  /\ true'[a] - true'[b] >= Margin * rate'.span
               /\ true'[a] - true'[b] > 0
    <3>1. true'[a] \in Int /\ true'[b] \in Int /\ rate'.span \in Nat /\ rate'.span > 0
      BY <2>2, Constants DEF IInv, TypeOK
    <3>2. rate'[a] = true'[a] /\ rate'[b] = true'[b]
      BY <2>2 DEF IInv, RatesTrue
    <3>3. Margin * rate'.span \in Nat /\ Margin * rate'.span > 0
      BY <3>1, Constants
    <3> QED
      BY <2>2, <3>1, <3>2, <3>3 DEF Faster
  <2>3. "mine" \in Aircraft /\ "theirs" \in Aircraft
    BY DEF Aircraft
  <2>4. true'["mine"] \in Int /\ true'["theirs"] \in Int
    BY <2>3, Constants DEF IInv, TypeOK
  <2>5. CASE hasRate' /\ Faster(rate', "mine", "theirs")
    <3>1. gain >= Margin * rate'.span /\ gain > 0 /\ gain \in Int
      BY <2>2, <2>3, <2>4, <2>5
    <3>2. mode' = "TWO_CIRCLE"
      <4>1. ~Faster(rate', "theirs", "mine")
        BY <2>2, <2>3, <2>4, <2>5
      <4> QED
        BY <2>1, <2>5, <4>1 DEF CircleMode
    <3>3. Size(gain) = gain
      BY <3>1 DEF Size
    <3> HIDE DEF gain
    <3> QED
      BY <2>5, <3>1, <3>2, <3>3
  <2>6. CASE /\ hasRate' /\ Faster(rate', "theirs", "mine")
             /\ ~Faster(rate', "mine", "theirs")
    <3>1. -gain >= Margin * rate'.span /\ gain < 0 /\ gain \in Int
      BY <2>2, <2>3, <2>4, <2>6
    <3>2. mode' = "ONE_CIRCLE"
      BY <2>1, <2>6 DEF CircleMode
    <3>3. Size(gain) = -gain
      BY <3>1 DEF Size
    <3> HIDE DEF gain
    <3> QED
      BY <2>6, <3>1, <3>2, <3>3
  <2> QED
    BY <2>1, <2>5, <2>6 DEF CircleMode
<1> QED
  BY Invariant, <1>1, PTL DEF CircleEarned, TSpec
=============================================================================
