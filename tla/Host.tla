-------------------------------- MODULE Host --------------------------------
(***************************************************************************)
(* CPPBehaviorTree.cpp: init() and Step(), which hands the command of a    *)
(* frame to the simulator, with the timer thread of the running manoeuvre, *)
(* whose onHalted() puts the old aim point back into the blackboard while  *)
(* the host checks and copies it. No lock guards VP_Cartesian: its         *)
(* components are read and written one at a time, in any order.            *)
(*                                                                         *)
(* Of a number it is known where it comes from ("bad": it is not finite).  *)
(* What the tree does in a tick is RuleTree's matter; here it flies some   *)
(* task, starts or resumes a manoeuvre, or throws.                         *)
(***************************************************************************)
EXTENDS Naturals

CONSTANT Axes       \* the components of a Vector3

ASSUME HostAssumption == "Z" \in Axes

VARIABLES
  life,         \* "new", "ready" (bInitialized), "failed"
  pc,           \* where Step() or GetVP() is, or "out"
  todo,         \* the components it has still to read or write there
  dead,         \* the last frame came with no hit points left
  ownBad,       \* MyLocation_Cartesian is not finite
  vp,           \* BB->VP_Cartesian
  throttle,     \* BB->Throttle
  manoeuvre,    \* the manoeuvre under a Timeout: "idle" or "running"
  saved,        \* its vp_on_entry_
  left,         \* the components its onHalted() has still to put back
  out,          \* the aim point the simulator has been given
  gave,         \* the throttle it has been given, "none" before the first frame
  threw,        \* ghost: the tree threw in this frame
  halted        \* ghost: the timer has halted a manoeuvre since the tick

hvars == <<life, pc, todo, dead, ownBad, vp, throttle, manoeuvre, saved, left, out,
           gave, threw, halted>>

\* An aim point's component: of an earlier frame, of this frame's task, of
\* SafeFallbackVP(), put back by onHalted(), of the ground below, not finite.
Source == {"old", "tree", "safe", "back", "ground", "bad"}
Thrust == {"old", "default", "task", "wild", "zero"}
Places == {"out", "tick", "catch", "check", "replace", "copy", "get", "ground"}

TypeOK ==
  /\ life \in {"new", "ready", "failed"}
  /\ pc \in Places
  /\ todo \subseteq Axes
  /\ dead \in BOOLEAN /\ ownBad \in BOOLEAN
  /\ vp \in [Axes -> Source] /\ out \in [Axes -> Source]
  /\ saved \in [Axes -> Source]
  /\ throttle \in Thrust /\ gave \in Thrust \cup {"none"}
  /\ manoeuvre \in {"idle", "running"}
  /\ left \subseteq Axes
  /\ left # {} => manoeuvre = "running"
  /\ threw \in BOOLEAN /\ halted \in BOOLEAN

HInit ==
  /\ life = "new" /\ pc = "out" /\ todo = {}
  /\ dead = FALSE /\ ownBad = FALSE
  /\ vp = [c \in Axes |-> "old"]
  /\ throttle = "zero"
  /\ manoeuvre = "idle" /\ saved = [c \in Axes |-> "old"] /\ left = {}
  /\ out = [c \in Axes |-> "old"] /\ gave = "none"
  /\ threw = FALSE /\ halted = FALSE

thread == <<manoeuvre, saved, left>>
given == <<out, gave>>
frame == <<dead, ownBad>>
-----------------------------------------------------------------------------
\* init(): the nodes are registered first, and a name can be registered once
\* only: another init() of the object throws, and leaves it not initialised. The
\* simulator flies only objects that are (IsInitialized).
InitTree ==
  /\ pc = "out"
  /\ life' \in IF life = "new" THEN {"ready", "failed"} ELSE {"failed"}
  /\ UNCHANGED <<pc, todo, frame, vp, throttle, thread, given, threw, halted>>

Aged(p) == [c \in Axes |-> IF p[c] = "bad" THEN "bad" ELSE "old"]

\* Step() of a living plane up to the tick: the throttle starts from the default.
Begin ==
  /\ life = "ready" /\ pc = "out" /\ ~dead
  /\ pc' = "tick"
  /\ ownBad' \in BOOLEAN
  /\ vp' = Aged(vp)
  /\ saved' = Aged(saved)
  /\ throttle' = "default"
  /\ UNCHANGED <<life, todo, dead, manoeuvre, left, given, threw, halted>>

\* What a task leaves in the blackboard. Its sums may overflow in each component.
Commands ==
  /\ vp' \in [Axes -> {"tree", "bad"}]
  /\ throttle' \in {"default", "task", "wild"}

\* tickRoot(). A resumed tick goes straight to the Timeout of the manoeuvre and
\* waits there for the mutex its handler holds; a manoeuvre that declines puts
\* the old aim point back before the next one starts.
Tick ==
  /\ pc = "tick" /\ left = {}
  /\ todo' = Axes /\ halted' = FALSE
  /\ \/ /\ Commands
        /\ manoeuvre' \in {manoeuvre, "idle"}
        /\ pc' = "check" /\ threw' = FALSE
        /\ UNCHANGED saved
     \/ /\ Commands
        /\ manoeuvre' = "running"
        /\ saved' = IF manoeuvre = "running" THEN saved ELSE vp
        /\ pc' = "check" /\ threw' = FALSE
     \/ /\ Commands \/ UNCHANGED <<vp, throttle>>
        /\ manoeuvre' \in {manoeuvre, "idle"}
        /\ pc' = "catch" /\ threw' = TRUE
        /\ UNCHANGED saved
  /\ UNCHANGED <<life, frame, left, given>>

\* SafeFallbackVP(): a point ahead, or a fixed one if the own position is no good.
\* Mutant: always a point ahead.
SafeAhead == IF ownBad THEN "bad" ELSE "safe"
Safe == "safe"

\* The catch block and the finiteness check write it to the blackboard.
\* Mutant: only the components that are not finite are replaced.
ReplaceBadOnly(c) ==
  /\ pc \in {"catch", "replace"} /\ c \in todo
  /\ vp' = IF vp[c] = "bad" THEN [vp EXCEPT ![c] = Safe] ELSE vp
  /\ todo' = todo \ {c}
  /\ UNCHANGED <<life, pc, frame, throttle, thread, given, threw, halted>>
Replace(c) ==
  /\ pc \in {"catch", "replace"} /\ c \in todo
  /\ vp' = [vp EXCEPT ![c] = Safe]
  /\ todo' = todo \ {c}
  /\ UNCHANGED <<life, pc, frame, throttle, thread, given, threw, halted>>

Caught ==
  /\ pc = "catch" /\ todo = {}
  /\ throttle' = "default"
  /\ pc' = "check" /\ todo' = Axes
  /\ UNCHANGED <<life, frame, vp, thread, given, threw, halted>>

\* IsFiniteVector(): one component that is not finite is enough.
Check(c) ==
  /\ pc = "check" /\ c \in todo
  /\ IF vp[c] = "bad" THEN pc' = "replace" /\ todo' = Axes
                      ELSE pc' = pc /\ todo' = todo \ {c}
  /\ UNCHANGED <<life, frame, vp, throttle, thread, given, threw, halted>>

\* The throttle is made finite and clamped.
Limit ==
  /\ pc \in {"check", "replace"} /\ todo = {}
  /\ throttle' \in IF throttle = "wild" THEN {"default", "task"} ELSE {throttle}
  /\ pc' = "copy" /\ todo' = Axes
  /\ UNCHANGED <<life, frame, vp, thread, given, threw, halted>>

\* The copy into Step()'s parameter, or GetVP()'s result.
Copy(c) ==
  /\ pc \in {"copy", "get"} /\ c \in todo
  /\ out' = [out EXCEPT ![c] = vp[c]]
  /\ todo' = todo \ {c}
  /\ UNCHANGED <<life, pc, frame, vp, throttle, thread, gave, threw, halted>>

Return ==
  /\ pc \in {"copy", "get", "ground"} /\ todo = {}
  /\ pc' = "out"
  /\ gave' = IF pc = "copy" THEN throttle ELSE gave
  /\ throttle' = IF pc = "ground" THEN "zero" ELSE throttle
  /\ UNCHANGED <<life, todo, frame, vp, thread, out, threw, halted>>

GetVP ==
  /\ life = "ready" /\ pc = "out"
  /\ pc' = "get" /\ todo' = Axes
  /\ UNCHANGED <<life, frame, vp, throttle, thread, given, threw, halted>>

\* Step() of a plane with no hit points left, and all frames after it: the aim
\* point is on the ground below the last living position. No tick, no clock;
\* Step()'s parameters are left as they are.
Die ==
  /\ life = "ready" /\ pc = "out"
  /\ dead' = TRUE
  /\ pc' = "ground" /\ todo' = Axes
  /\ UNCHANGED <<life, ownBad, vp, throttle, thread, given, threw, halted>>

Ground(c) ==
  /\ pc = "ground" /\ c \in todo
  /\ vp' = [vp EXCEPT ![c] = IF ownBad /\ c # "Z" THEN "bad" ELSE "ground"]
  /\ todo' = todo \ {c}
  /\ UNCHANGED <<life, pc, frame, throttle, thread, given, threw, halted>>

\* The timer thread, at any time outside the tick of the manoeuvre.
\* Mutant: it does not look whether the manoeuvre still runs.
TimerHaltsAnyway ==
  /\ left = {}
  /\ left' = Axes
  /\ halted' = TRUE
  /\ UNCHANGED <<life, pc, todo, frame, vp, throttle, manoeuvre, saved, given, threw>>
TimerHalts ==
  /\ manoeuvre = "running" /\ left = {}
  /\ left' = Axes
  /\ halted' = TRUE
  /\ UNCHANGED <<life, pc, todo, frame, vp, throttle, manoeuvre, saved, given, threw>>

OnHalted(c) ==
  /\ c \in left
  /\ vp' = [vp EXCEPT ![c] = IF saved[c] = "bad" THEN "bad" ELSE "back"]
  /\ left' = left \ {c}
  /\ manoeuvre' = IF left' = {} THEN "idle" ELSE manoeuvre
  /\ UNCHANGED <<life, pc, todo, frame, throttle, saved, given, threw, halted>>

HNext ==
  \/ InitTree \/ Begin \/ Tick \/ Caught \/ Limit \/ Return \/ GetVP \/ Die \/ TimerHalts
  \/ \E c \in Axes : Replace(c) \/ Check(c) \/ Copy(c) \/ Ground(c) \/ OnHalted(c)

HSpec == HInit /\ [][HNext]_hvars
-----------------------------------------------------------------------------
\* The simulator has the command of a living frame.
Handed == pc = "out" /\ ~dead /\ gave # "none"

\* Whatever the tasks compute and whenever the timer writes, no number that is
\* not finite gets out, neither by Step() nor by GetVP(), while the plane lives.
OutputFinite == Handed => gave # "wild" /\ \A c \in Axes : out[c] # "bad"

\* The command that gets out is of this frame: throttle and aim point of the
\* task that flew or, when the tree threw, the safe ones; never what an earlier
\* frame left. Only the halting timer may bring back an older point, and only
\* through it can a point be put together from two.
OfThisFrame ==
  Handed =>
    /\ gave \in {"default", "task"}
    /\ threw => gave = "default"
    /\ \A c \in Axes : out[c] \in {"tree", "safe"} \/ (halted /\ out[c] = "back")
    /\ threw => \A c \in Axes : out[c] # "tree"
    /\ halted \/ \A c, d \in Axes : out[c] = out[d]
=============================================================================
