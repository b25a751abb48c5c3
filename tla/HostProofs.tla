----------------------------- MODULE HostProofs -----------------------------
(***************************************************************************)
(* Theorems about Host, for any components of a vector and any number of   *)
(* frames, halts and calls. The inductive invariant says of each stage of  *)
(* Step() what the components it has passed are, although the timer thread *)
(* may write any of them at any time: an aim point that is put back is     *)
(* never bad (Clean), so that a component that was found good stays good.  *)
(***************************************************************************)
EXTENDS Host, TLAPS

\* A component of an aim point that may go out, and one that may after a throw.
Good(x) == x \in {"tree", "safe"} \/ (halted /\ x = "back")
Replaced(x) == x = "safe" \/ (halted /\ x = "back")

Clean ==
  /\ \A c \in Axes : saved[c] # "bad"
  /\ left # {} => halted
  /\ pc \in {"out", "get", "tick"} /\ ~dead => \A c \in Axes : vp[c] # "bad"
  /\ pc = "ground" => dead

Ticking == pc = "tick" => ~dead /\ throttle = "default"

Catching == pc = "catch" => threw /\ \A c \in Axes \ todo : Replaced(vp[c])

Checking ==
  pc = "check" =>
    /\ throttle \in {"default", "task", "wild"}
    /\ threw => throttle = "default" /\ \A c \in Axes : Replaced(vp[c])
    /\ \A c \in Axes : Good(vp[c]) \/ (vp[c] = "bad" /\ c \in todo)
    /\ \/ halted
       \/ \A c \in Axes : vp[c] \in {"tree", "bad"}
       \/ \A c \in Axes : vp[c] = "safe"

Replacing ==
  pc = "replace" =>
    /\ ~threw
    /\ throttle \in {"default", "task", "wild"}
    /\ \A c \in Axes \ todo : Replaced(vp[c])

\* The aim point vp is fit to go out.
Fit ==
  /\ \A c \in Axes : Good(vp[c]) /\ (threw => Replaced(vp[c]))
  /\ halted \/ \A c, d \in Axes : vp[c] = vp[d]

\* The components of S have gone out.
Given(S) ==
  \A c \in S :
    /\ Good(out[c]) /\ (threw => Replaced(out[c]))
    /\ halted \/ out[c] = vp[c]

Copying ==
  pc = "copy" =>
    /\ throttle \in {"default", "task"}
    /\ threw => throttle = "default"
    /\ Fit
    /\ Given(Axes \ todo)

Between ==
  pc \in {"out", "get"} /\ ~dead /\ gave # "none" =>
    /\ gave \in {"default", "task"}
    /\ threw => gave = "default"
    /\ Fit
    /\ Given(Axes)


IInv ==
  /\ TypeOK
  /\ Clean /\ Ticking /\ Catching /\ Checking /\ Replacing /\ Copying /\ Between
-----------------------------------------------------------------------------
LEMMA InitIInv == HInit => IInv
<1> SUFFICES ASSUME HInit PROVE IInv
  OBVIOUS
<1>1. TypeOK
  BY DEF HInit, TypeOK, Source, Thrust, Places
<1>2. Clean /\ Ticking /\ Catching /\ Checking /\ Replacing /\ Copying /\ Between
  BY DEF HInit, Clean, Ticking, Catching, Checking, Replacing, Copying, Between
<1> QED
  BY <1>1, <1>2 DEF IInv

\* Every step keeps the types.
LEMMA TypeStep == TypeOK /\ [HNext]_hvars => TypeOK'
<1> SUFFICES ASSUME TypeOK, [HNext]_hvars PROVE TypeOK'
  OBVIOUS
<1> USE DEF TypeOK, Source, Thrust, Places, thread, given, frame
<1>1. CASE InitTree
  BY <1>1 DEF InitTree
<1>8. CASE GetVP \/ Die
  BY <1>8 DEF GetVP, Die
<1>9. CASE UNCHANGED hvars
  BY <1>9 DEF hvars
<1>2. CASE Begin
  BY <1>2 DEF Begin, Aged
<1>3. CASE Tick
  <2>1. Commands \/ UNCHANGED <<vp, throttle>>
    BY <1>3 DEF Tick
  <2>2. vp' \in [Axes -> Source] /\ throttle' \in Thrust
    BY <2>1 DEF Commands
  <2>3. saved' \in [Axes -> Source] /\ manoeuvre' \in {"idle", "running"}
    BY <1>3 DEF Tick
  <2> QED
    BY <1>3, <2>2, <2>3 DEF Tick
<1>4. CASE Caught \/ Limit \/ Return
  BY <1>4 DEF Caught, Limit, Return
<1>5. ASSUME NEW c \in Axes, Replace(c) \/ Check(c) \/ Copy(c) \/ Ground(c)
      PROVE  TypeOK'
  BY <1>5 DEF Replace, Check, Copy, Ground, Safe
<1>6. ASSUME NEW c \in Axes, OnHalted(c) PROVE TypeOK'
  BY <1>6 DEF OnHalted
<1>7. CASE TimerHalts
  BY <1>7 DEF TimerHalts
<1> QED
  BY <1>1, <1>2, <1>3, <1>4, <1>5, <1>6, <1>7, <1>8, <1>9 DEF HNext

\* The steps of the host that begin and end a frame or a call.
LEMMA FrameSteps ==
  IInv /\ (InitTree \/ Begin \/ GetVP \/ Die \/ Return) => IInv'
<1> SUFFICES ASSUME IInv, InitTree \/ Begin \/ GetVP \/ Die \/ Return PROVE IInv'
  OBVIOUS
<1>1. TypeOK'
  BY TypeStep DEF IInv, HNext
<1> USE DEF IInv, TypeOK, Source, Thrust, thread, given, frame, Clean, Ticking, Catching,
        Checking, Replacing, Copying, Between, Fit, Given, Good, Replaced
<1>2. CASE InitTree
  BY <1>1, <1>2 DEF InitTree
<1>3. CASE Begin
  BY <1>1, <1>3 DEF Begin, Aged
<1>4. CASE GetVP
  BY <1>1, <1>4 DEF GetVP
<1>5. CASE Die
  BY <1>1, <1>5 DEF Die
<1>6. CASE Return
  BY <1>1, <1>6 DEF Return
<1> QED
  BY <1>2, <1>3, <1>4, <1>5, <1>6

\* The tick itself.
LEMMA TickStep == IInv /\ Tick => IInv'
<1> SUFFICES ASSUME IInv, Tick PROVE IInv'
  OBVIOUS
<1>1. TypeOK' /\ TypeOK
  BY TypeStep DEF IInv, HNext
<1>2. /\ pc = "tick" /\ todo' = Axes /\ halted' = FALSE /\ left' = {} /\ dead' = dead
      /\ \A c \in Axes : vp[c] # "bad"
      /\ \A c \in Axes : saved[c] # "bad"
  BY DEF Tick, thread, given, frame, IInv, Clean, Ticking
<1>3. Clean'
  <2>1. saved' \in {saved, vp}
    BY DEF Tick
  <2>2. pc' \in {"check", "catch"}
    BY DEF Tick
  <2> QED
    BY <1>2, <2>1, <2>2 DEF Clean
<1>4. Ticking' /\ Replacing' /\ Copying' /\ Between'
  <2>1. pc' \in {"check", "catch"}
    BY DEF Tick
  <2> QED
    BY <2>1 DEF Ticking, Replacing, Copying, Between
<1>5. Catching'
  BY <1>2 DEF Tick, Catching
<1>6. Checking'
  <2> SUFFICES ASSUME pc' = "check" PROVE Checking'
    BY DEF Checking
  <2>1. Commands /\ threw' = FALSE
    BY DEF Tick
  <2>2. \A c \in Axes : vp'[c] \in {"tree", "bad"}
    BY <2>1 DEF Commands
  <2> QED
    BY <1>2, <2>1, <2>2 DEF Commands, Checking, Good
<1> QED
  BY <1>1, <1>3, <1>4, <1>5, <1>6 DEF IInv

\* The steps that check and replace what the tick has left.
LEMMA SafetySteps ==
  ASSUME IInv, NEW c \in Axes, Replace(c) \/ Caught \/ Check(c) \/ Limit
  PROVE  IInv'
<1>1. TypeOK'
  BY TypeStep DEF IInv, HNext
<1> USE DEF IInv, TypeOK, Source, Thrust, thread, given, frame, Clean, Ticking, Catching,
        Checking, Replacing, Copying, Between, Fit, Given, Good, Replaced
<1>2. CASE Replace(c)
  BY <1>1, <1>2 DEF Replace, Safe
<1>3. CASE Caught
  BY <1>1, <1>3 DEF Caught
<1>4. CASE Check(c)
  BY <1>1, <1>4 DEF Check
<1>5. CASE Limit
  BY <1>1, <1>5 DEF Limit
<1> QED
  BY <1>2, <1>3, <1>4, <1>5

\* The copy, and the ground below a plane with no hit points left.
LEMMA CopySteps ==
  ASSUME IInv, NEW c \in Axes, Copy(c) \/ Ground(c)
  PROVE  IInv'
<1>1. TypeOK'
  BY TypeStep DEF IInv, HNext
<1> USE DEF IInv, TypeOK, Source, Thrust, thread, given, frame, Clean, Ticking, Catching,
        Checking, Replacing, Copying, Between, Fit, Given, Good, Replaced
<1>2. CASE Copy(c)
  BY <1>1, <1>2 DEF Copy
<1>3. CASE Ground(c)
  BY <1>1, <1>3 DEF Ground
<1> QED
  BY <1>2, <1>3

\* The timer thread, which may come between any two of them.
LEMMA TimerSteps ==
  ASSUME IInv, TimerHalts \/ \E c \in Axes : OnHalted(c)
  PROVE  IInv'
<1>1. TypeOK'
  BY TypeStep DEF IInv, HNext
<1> USE DEF IInv, TypeOK, Source, Thrust, thread, given, frame, Clean, Ticking, Catching,
        Checking, Replacing, Copying, Between, Fit, Given, Good, Replaced
<1>2. CASE TimerHalts
  BY <1>1, <1>2 DEF TimerHalts
<1>3. ASSUME NEW c \in Axes, OnHalted(c) PROVE IInv'
  BY <1>1, <1>3 DEF OnHalted
<1> QED
  BY <1>2, <1>3

LEMMA Invariant == HSpec => []IInv
<1>1. IInv /\ [HNext]_hvars => IInv'
  <2> SUFFICES ASSUME IInv, [HNext]_hvars PROVE IInv'
    OBVIOUS
  <2>1. CASE InitTree \/ Begin \/ GetVP \/ Die \/ Return
    BY <2>1, FrameSteps
  <2>2. CASE Tick
    BY <2>2, TickStep
  <2>3. CASE Caught \/ Limit
    <3>1. "Z" \in Axes
      BY HostAssumption
    <3> QED
      BY <2>3, <3>1, SafetySteps
  <2>4. ASSUME NEW c \in Axes, Replace(c) \/ Check(c) PROVE IInv'
    BY <2>4, SafetySteps
  <2>5. ASSUME NEW c \in Axes, Copy(c) \/ Ground(c) PROVE IInv'
    BY <2>5, CopySteps
  <2>6. CASE TimerHalts \/ \E c \in Axes : OnHalted(c)
    BY <2>6, TimerSteps
  <2>7. CASE UNCHANGED hvars
    BY <2>7 DEF hvars, IInv, TypeOK, Clean, Ticking, Catching, Checking, Replacing, Copying,
       Between, Fit, Given, Good, Replaced
  <2> QED
    BY <2>1, <2>2, <2>3, <2>4, <2>5, <2>6, <2>7 DEF HNext
<1> QED
  BY InitIInv, <1>1, PTL DEF HSpec
-----------------------------------------------------------------------------
\* The host's state keeps its types.
THEOREM TypeCorrect == HSpec => []TypeOK
<1>1. IInv => TypeOK
  BY DEF IInv
<1> QED
  BY Invariant, <1>1, PTL

\* No number that is not finite leaves Step() or GetVP() while the plane lives,
\* whatever the tasks compute and whenever the timer writes.
THEOREM FiniteOutput == HSpec => []OutputFinite
<1>1. IInv => OutputFinite
  BY DEF IInv, Between, Given, Good, OutputFinite, Handed
<1> QED
  BY Invariant, <1>1, PTL

\* The command that leaves Step() is of this frame; only a halting timer brings
\* back an older aim point or mixes two.
THEOREM CommandOfThisFrame == HSpec => []OfThisFrame
<1>1. IInv => OfThisFrame
  BY DEF IInv, Between, Fit, Given, Good, Replaced, OfThisFrame, Handed
<1> QED
  BY Invariant, <1>1, PTL
=============================================================================
