------------------------- MODULE BehaviorTreeProofs -------------------------
(***************************************************************************)
(* Theorems about the engine over every tree that is Contained. The        *)
(* inductive invariant is a conjunction over the nodes: what the progress, *)
(* the skip list and the status of a node, and the results it has heard,   *)
(* have to do with each other depends on whether it waits for a child      *)
(* (Path), is RUNNING, or is neither.                                      *)
(***************************************************************************)
EXTENDS BehaviorTree, FiniteSetTheorems, NaturalsInduction, SequenceTheorems, TLAPS

\* The nodes that set themselves RUNNING before they tick a child, always.
Marking == Memory \cup (Wrapper \ {"SubTree"}) \cup {"Timeout", "BlackboardCheck"}

\* A DECO_CounterAttackCheck, which halts no RUNNING child, has none; and an
\* exception passes only nodes that are RUNNING by then. (A SubTree that has
\* decided and was not reset is not: RetryUntilSuccesful makes such ones.)
Contained ==
  \A k \in Kinds : \A n \in Nodes \ Leaves :
    /\ k[n] = "DECO_CounterAttackCheck" => k[First(n)] = "Sync"
    /\ k \in Throwing =>
         k[n] \in Marking \/ (k[n] = "SubTree" /\ First(n) \in Leaves)

\* The nodes that wait for a child, and those of an unfinished tick.
Path == IF at = "outside" THEN {} ELSE Above[at]
Ticked == Path \cup ({at} \cap Nodes)

\* The child d of p has come to a result that p has not looked at.
Fresh(d) == at = d /\ back # "none"
-----------------------------------------------------------------------------
(* The parts of the invariant, for one node each.                          *)

\* A node that is neither RUNNING nor waiting has no progress.
Quiet(p) ==
  p \notin Path /\ status[p] # "RUNNING"
  /\ (kind[p] = "SequenceStar" => status[p] = "SUCCESS") =>
    /\ idx[p] = 0 /\ skip[p] = {}
    /\ kind[p] \in {"Sequence", "Fallback", "Parallel"} /\ p \notin Over
         => \A d \in Kids(p) : heard[d] = "none"

\* Progress that a class does not use.
Unused(p) ==
  /\ kind[p] # "Parallel" => skip[p] = {}
  /\ kind[p] = "SubTree" => idx[p] = 0

\* The child d has let p go on, and is not RUNNING.
Passed(p, d) == heard[d] = Advancing(p) /\ status[d] # "RUNNING"

\* Children before the current one have been passed, those behind it have not
\* been ticked in this activation.
InOrder(p) ==
  kind[p] \in Memory =>
    /\ idx[p] < Len(Children[p])
    /\ \A c \in Kids(p) \cap Ticked : Pos[c] = idx[p] + 1
    /\ p \notin Over => \A d \in Kids(p) :
         /\ Pos[d] <= idx[p] => Passed(p, d)
         /\ Pos[d] > idx[p] + 1 => heard[d] = "none"
         /\ Pos[d] = idx[p] + 1 =>
              \/ Fresh(d)
              \/ heard[d] \in {"none", "RUNNING"}
              \/ kind[p] = "SequenceStar" /\ heard[d] = "FAILURE"

Reacting(p) ==
  kind[p] \in Reactive =>
    \A c \in Kids(p) \cap Ticked, d \in Kids(p) :
      /\ Pos[d] < Pos[c] => heard[d] = Advancing(p)
      /\ Pos[d] > Pos[c] => heard[d] = "none"

\* The children of p before c with the status r.
SeenBefore(p, c, r) == {d \in Kids(p) : Pos[d] < Pos[c] /\ status[d] = r}

\* The skip list has the children that have decided in this activation.
Listed(p) ==
  kind[p] = "Parallel" =>
    /\ skip[p] \subseteq Kids(p)
    /\ \A d \in skip[p] : heard[d] = status[d] /\ status[d] \in Decided
    /\ \A d \in Kids(p) \ skip[p] :
         \/ Fresh(d)
         \/ /\ status[d] \notin Decided
            /\ p \notin Over => heard[d] \in {"none", "RUNNING"}
    /\ \A c \in Kids(p) \cap Ticked :
         /\ c \in skip[p] => Fresh(c)
         /\ \A d \in Kids(p) : Pos[d] < Pos[c] => heard[d] # "none"
         /\ Cardinality(SeenBefore(p, c, "SUCCESS")) < Count[p]
         /\ Cardinality(SeenBefore(p, c, "FAILURE")) <= Len(Children[p]) - Count[p]

\* A timer that has fired left the child IDLE.
TimedOut(p) ==
  kind[p] = "Timeout" /\ idx[p] = 2 => p \notin Path /\ status[First(p)] # "RUNNING"

Marked(p) ==
  /\ p \in Path /\ kind[p] \in Marking => status[p] = "RUNNING"
  /\ kind[p] = "SubTree" /\ at = First(p) /\ back = "none" /\ status[at] = "RUNNING"
       => status[p] = "RUNNING"

\* A node has no RUNNING child, unless it is RUNNING or waits for one.
Closed(p) ==
  \A d \in Kids(p) : status[d] = "RUNNING" => status[p] = "RUNNING" \/ p \in Path

\* Only a stateful leaf is ever RUNNING.
Settled(p) == kind[p] = "Sync" => status[p] # "RUNNING"

Local(p) ==
  /\ Quiet(p) /\ Unused(p) /\ InOrder(p) /\ Reacting(p) /\ Listed(p)
  /\ TimedOut(p) /\ Marked(p) /\ Closed(p) /\ Settled(p)

\* The node at which the tick is.
Focus ==
  /\ at = "outside" => back = "none"
  /\ back # "none" => status[at] = back /\ heard[at] = back

\* What a control node returns. (A reactive node does stop like a memory node,
\* which is more than its class promises.)
Promise(n, r) ==
  /\ kind[n] \in Memory \cup Reactive => SequencePromise(n, r)
  /\ kind[n] = "Parallel" => ParallelPromise(n, r)

Verdicts ==
  at # "outside" /\ back # "none" /\ ~Skipped(at) => Promise(at, back)

IInv ==
  /\ TypeOK /\ idx \in [Nodes -> Nat]
  /\ Focus /\ Verdicts
  /\ \A p \in Nodes : Local(p)
-----------------------------------------------------------------------------
(* The tree.                                                               *)

LEMMA Children1 ==
  ASSUME NEW p \in Nodes
  PROVE  /\ Children[p] \in Seq(Nodes \ {Root})
         /\ Len(Children[p]) \in Nat
         /\ DOMAIN Children[p] = 1 .. Len(Children[p])
         /\ \A i \in 1 .. Len(Children[p]) : Children[p][i] \in Nodes \ {Root}
         /\ Kids(p) \subseteq Nodes \ {Root}
<1>1. Children[p] \in Seq(Nodes \ {Root})
  BY TreeAssumption
<1>2. DOMAIN Children[p] = 1 .. Len(Children[p]) /\ Len(Children[p]) \in Nat
      /\ \A i \in 1 .. Len(Children[p]) : Children[p][i] \in Nodes \ {Root}
  BY <1>1
<1> QED
  BY <1>1, <1>2 DEF Kids

\* A child has one parent, and one place below it.
LEMMA ParentOf ==
  ASSUME NEW n \in Nodes \ {Root}
  PROVE  Parent[n] \in Nodes /\ n \in Kids(Parent[n])
<1>1. \E p \in Nodes : n \in Kids(p)
  BY TreeAssumption
<1>2. Parent[n] = CHOOSE p \in Nodes : n \in Kids(p)
  BY DEF Parent
<1> QED
  BY <1>1, <1>2

LEMMA KidOf ==
  ASSUME NEW p \in Nodes, NEW n \in Kids(p)
  PROVE  /\ n \in Nodes \ {Root}
         /\ Parent[n] = p
         /\ Pos[n] \in 1 .. Len(Children[p]) /\ Children[p][Pos[n]] = n
<1>1. n \in Nodes \ {Root}
  BY Children1
<1>2. Parent[n] \in Nodes /\ n \in Kids(Parent[n])
  BY <1>1, ParentOf
<1>3. \A q \in Nodes : n \in Kids(q) => q = p
  BY TreeAssumption DEF Kids
<1>4. Parent[n] = p
  BY <1>2, <1>3
<1>5. Pos[n] = CHOOSE i \in DOMAIN Children[p] : Children[p][i] = n
  BY <1>1, <1>4 DEF Pos
<1>6. \E i \in DOMAIN Children[p] : Children[p][i] = n
  BY DEF Kids
<1>7. Pos[n] \in DOMAIN Children[p] /\ Children[p][Pos[n]] = n
  BY <1>5, <1>6
<1> QED
  BY <1>1, <1>4, <1>7, Children1

LEMMA ChildAt ==
  ASSUME NEW p \in Nodes, NEW i \in 1 .. Len(Children[p])
  PROVE  /\ Children[p][i] \in Kids(p) /\ Children[p][i] \in Nodes \ {Root}
         /\ Parent[Children[p][i]] = p /\ Pos[Children[p][i]] = i
<1> DEFINE n == Children[p][i]
<1>1. i \in DOMAIN Children[p]
  BY Children1
<1>2. n \in Kids(p)
  BY <1>1 DEF Kids
<1>3. n \in Nodes \ {Root} /\ Parent[n] = p /\ Pos[n] \in DOMAIN Children[p]
      /\ Children[p][Pos[n]] = n
  BY <1>2, KidOf, Children1
<1>4. Pos[n] = i
  BY <1>1, <1>3, TreeAssumption
<1> QED
  BY <1>2, <1>3, <1>4

\* Whoever is a child of its parent.
LEMMA KidsAre ==
  ASSUME NEW p \in Nodes, NEW n \in Nodes \ {Root}, Parent[n] = p
  PROVE  n \in Kids(p)
  BY ParentOf

\* Above is what its recursive definition says: the least sets of that kind
\* satisfy it.
LEMMA AboveIs ==
  ASSUME NEW n \in Nodes
  PROVE  Above[n] = IF n = Root THEN {} ELSE {Parent[n]} \cup Above[Parent[n]]
<1> DEFINE Shut(S) == \A m \in S \ {Root} : Parent[m] \in S
           Next1(h) == [m \in Nodes |-> IF m = Root THEN {}
                                        ELSE {Parent[m]} \cup h[Parent[m]]]
           f == [m \in Nodes |->
                   {a \in Nodes : m # Root /\ \A S \in SUBSET Nodes :
                                    Parent[m] \in S /\ Shut(S) => a \in S}]
<1>1. \A m \in Nodes : \A a :
        a \in f[m] <=> /\ a \in Nodes /\ m # Root
                       /\ \A S \in SUBSET Nodes : Parent[m] \in S /\ Shut(S) => a \in S
  OBVIOUS
<1> HIDE DEF f
<1>2. ASSUME NEW m \in Nodes, m # Root
      PROVE  f[m] = {Parent[m]} \cup f[Parent[m]]
  <2>1. Parent[m] \in Nodes
    BY <1>2, ParentOf
  <2> DEFINE T == {Parent[m]} \cup f[Parent[m]]
  <2>2. T \in SUBSET Nodes
    BY <1>1, <2>1
  <2>3. Shut(T)
    <3> SUFFICES ASSUME NEW x \in T, x # Root
                 PROVE  Parent[x] \in T
      OBVIOUS
    <3>1. x \in Nodes /\ Parent[x] \in Nodes
      BY <2>2, ParentOf
    <3>2. CASE x = Parent[m]
      BY <1>1, <2>1, <3>1, <3>2
    <3>3. CASE x \in f[Parent[m]]
      <4>1. Parent[x] \in f[Parent[m]]
        BY <1>1, <2>1, <3>1, <3>3
      <4> QED
        BY <4>1
    <3> QED
      BY <3>2, <3>3
  <2>4. f[m] \subseteq T
    <3> SUFFICES ASSUME NEW a \in f[m] PROVE a \in T
      OBVIOUS
    <3>1. \A S \in SUBSET Nodes : Parent[m] \in S /\ Shut(S) => a \in S
      BY <1>1
    <3>2. Parent[m] \in T
      OBVIOUS
    <3> HIDE DEF T
    <3> QED
      BY <2>2, <2>3, <3>1, <3>2
  <2>5. Parent[m] \in f[m]
    BY <1>1, <1>2, <2>1
  <2>6. ASSUME NEW a \in f[Parent[m]]
        PROVE  a \in f[m]
    <3>1. /\ a \in Nodes /\ Parent[m] # Root
          /\ \A S \in SUBSET Nodes : Parent[Parent[m]] \in S /\ Shut(S) => a \in S
      BY <1>1, <2>1
    <3>2. ASSUME NEW S \in SUBSET Nodes, Parent[m] \in S, Shut(S)
          PROVE  a \in S
      <4>1. Parent[Parent[m]] \in S
        BY <3>1, <3>2
      <4> QED
        BY <3>1, <3>2, <4>1
    <3> QED
      BY <1>1, <1>2, <3>1, <3>2
  <2> QED
    BY <2>4, <2>5, <2>6
<1>3. f = Next1(f)
  <2>1. f = [m \in Nodes |-> f[m]]
    BY DEF f
  <2>2. \A m \in Nodes : f[m] = IF m = Root THEN {} ELSE {Parent[m]} \cup f[Parent[m]]
    BY <1>1, <1>2
  <2> QED
    BY <2>1, <2>2
<1> DEFINE up == CHOOSE h : h = Next1(h)
<1>4. up = Next1(up)
  BY <1>3
<1>5. Above = [m \in Nodes |-> up[m]]
  BY DEF Above
<1> HIDE DEF up
<1>6. up[n] = IF n = Root THEN {} ELSE {Parent[n]} \cup up[Parent[n]]
  BY <1>4
<1>7. n # Root => Parent[n] \in Nodes
  BY ParentOf
<1> QED
  BY <1>5, <1>6, <1>7

LEMMA NotAboveItself ==
  ASSUME NEW n \in Nodes
  PROVE  n \notin Above[n]
  BY TreeAssumption

\* A set of numbers that is not empty has a least one.
LEMMA LeastNumber ==
  ASSUME NEW T, T \subseteq Nat, T # {}
  PROVE  \E n \in T : \A m \in T : n <= m
<1> DEFINE R == OpToRel(<, Nat)
<1>1. IsWellFoundedOn(R, Nat)
  BY NatLessThanWellFounded
<1>2. ASSUME NEW m \in Nat, NEW n \in Nat, m < n PROVE <<m, n>> \in R
  <2>1. R = {ss \in Nat \X Nat : ss[1] < ss[2]}
    BY Zenon DEF OpToRel
  <2>2. <<m, n>> \in {ss \in Nat \X Nat : ss[1] < ss[2]}
    BY <1>2
  <2> QED
    BY <2>1, <2>2, Zenon
<1> HIDE DEF R
<1>3. PICK n \in T : \A m \in T : ~(<<m, n>> \in R)
  BY <1>1, WFMin
<1>4. \A m \in T : ~(m < n)
  BY <1>2, <1>3
<1> QED
  BY <1>4

\* Going up from node to parent ends at the root: of any nodes one is the root
\* or has its parent elsewhere. This is what inductions over the tree rest on.
LEMMA Topmost ==
  ASSUME NEW S \in SUBSET Nodes, S # {}
  PROVE  \E n \in S : n = Root \/ Parent[n] \notin S
<1> DEFINE d(n) == Cardinality(Above[n] \cap Nodes)
           T == {d(n) : n \in S}
<1>1. \A n \in Nodes : IsFiniteSet(Above[n] \cap Nodes) /\ d(n) \in Nat
  <2>1. IsFiniteSet(Nodes)
    BY TreeAssumption
  <2>2. \A n \in Nodes : Above[n] \cap Nodes \in SUBSET Nodes
    OBVIOUS
  <2>3. \A n \in Nodes : IsFiniteSet(Above[n] \cap Nodes)
    BY <2>1, <2>2, FS_Subset
  <2> QED
    BY <2>3, FS_CardinalityType
<1>2. \E n \in S : \A m \in S : d(n) <= d(m)
  <2>1. T \subseteq Nat /\ T # {}
    BY <1>1
  <2>2. \E x \in T : \A y \in T : x <= y
    <3> HIDE DEF T
    <3> QED
      BY <2>1, LeastNumber
  <2> QED
    BY <2>2
<1>3. PICK n \in S : \A m \in S : d(n) <= d(m)
  BY <1>2
<1>4. ASSUME n # Root, Parent[n] \in S
      PROVE  FALSE
  <2> DEFINE p == Parent[n]
             A == Above[n] \cap Nodes
             B == Above[p] \cap Nodes
  <2>1. p \in Nodes
    BY <1>4
  <2>2. Above[n] = {p} \cup Above[p] /\ p \notin Above[p]
    BY <1>4, <2>1, AboveIs, NotAboveItself
  <2>3. B \in SUBSET A /\ B # A
    BY <2>1, <2>2
  <2>4. IsFiniteSet(A) /\ Cardinality(A) \in Nat /\ Cardinality(B) \in Nat
    BY <1>1, <2>1
  <2>5. Cardinality(A) <= Cardinality(B)
    BY <1>3, <1>4
  <2> HIDE DEF A, B
  <2>6. Cardinality(B) <= Cardinality(A) /\ Cardinality(A) # Cardinality(B)
    BY <2>3, <2>4, FS_Subset
  <2> QED
    BY <2>4, <2>5, <2>6
<1> QED
  BY <1>3, <1>4

LEMMA AboveNodes ==
  ASSUME NEW n \in Nodes
  PROVE  Above[n] \subseteq Nodes
<1> DEFINE S == {m \in Nodes : ~(Above[m] \subseteq Nodes)}
<1>1. ASSUME S # {}
      PROVE  FALSE
  <2>1. PICK m \in S : m = Root \/ Parent[m] \notin S
    BY <1>1, Topmost
  <2>2. CASE m = Root
    BY <2>1, <2>2, AboveIs
  <2>3. CASE m # Root
    <3>1. Parent[m] \in Nodes /\ Above[Parent[m]] \subseteq Nodes
      BY <2>1, <2>3, ParentOf
    <3> QED
      BY <2>1, <2>3, <3>1, AboveIs
  <2> QED
    BY <2>2, <2>3
<1> QED
  BY <1>1

LEMMA AboveTransitive ==
  ASSUME NEW n \in Nodes, NEW a \in Above[n]
  PROVE  Above[a] \subseteq Above[n]
<1> DEFINE S == {m \in Nodes : a \in Above[m] /\ ~(Above[a] \subseteq Above[m])}
<1>1. ASSUME S # {}
      PROVE  FALSE
  <2>1. PICK m \in S : m = Root \/ Parent[m] \notin S
    BY <1>1, Topmost
  <2>2. m # Root /\ Above[m] = {Parent[m]} \cup Above[Parent[m]]
    BY <2>1, AboveIs
  <2>3. Parent[m] \in Nodes
    BY <2>1, <2>2, ParentOf
  <2> QED
    BY <2>1, <2>2, <2>3
<1> QED
  BY <1>1

\* What a child has above it.
LEMMA AboveKid ==
  ASSUME NEW p \in Nodes, NEW d \in Kids(p)
  PROVE  /\ d \in Nodes \ {Root} /\ Parent[d] = p
         /\ Above[d] = {p} \cup Above[p]
         /\ d \notin Above[p] /\ d # p /\ p \notin Above[p]
<1>1. d \in Nodes \ {Root} /\ Parent[d] = p
  BY KidOf
<1>2. Above[d] = {p} \cup Above[p] /\ d \notin Above[d]
  BY <1>1, AboveIs, NotAboveItself
<1> QED
  BY <1>1, <1>2, NotAboveItself
-----------------------------------------------------------------------------
(* What a halt reaches below the node n.                                   *)

LEMMA ReachesBelow ==
  ASSUME NEW n \in Nodes, NEW S \in SUBSET Kids(n), NEW p \in Nodes, Reaches(S, p)
  PROVE  n \in Above[p] /\ p # n /\ p \notin Above[n]
<1>1. PICK s \in S : p = s \/ s \in Above[p]
  BY DEF Reaches
<1>2. s \in Nodes /\ n \in Above[s]
  BY AboveKid
<1>3. n \in Above[p]
  BY <1>1, <1>2, AboveTransitive
<1>4. n \notin Above[n] /\ p \notin Above[p]
  BY NotAboveItself
<1>5. p \notin Above[n]
  <2> SUFFICES ASSUME p \in Above[n] PROVE FALSE
    OBVIOUS
  <2> QED
    BY <1>3, <1>4, AboveTransitive
<1> QED
  BY <1>3, <1>4, <1>5

LEMMA ReachesKid ==
  ASSUME NEW n \in Nodes, NEW S \in SUBSET Kids(n), NEW d \in Kids(n)
  PROVE  Reaches(S, d) <=> d \in S
<1> SUFFICES ASSUME Reaches(S, d), d \notin S
             PROVE  FALSE
  BY DEF Reaches
<1>1. PICK s \in S : s \in Above[d]
  BY DEF Reaches
<1>2. s \in Nodes /\ s # n /\ s \notin Above[n]
  BY AboveKid
<1>3. Above[d] = {n} \cup Above[n]
  BY AboveKid
<1> QED
  BY <1>1, <1>2, <1>3

\* A RUNNING node that is halted halts its children.
LEMMA ReachesDown ==
  ASSUME NEW n \in Nodes, NEW S \in SUBSET Kids(n),
         NEW p \in Nodes, Reaches(S, p), status[p] = "RUNNING", NEW d \in Kids(p)
  PROVE  Reaches(S, d)
<1>1. Above[d] = {p} \cup Above[p] /\ p \notin Above[p]
  BY AboveKid
<1>2. CASE p \in S
  <2>1. \A a \in Above[d] : a = p \/ p \in Above[a] => status[a] = "RUNNING"
    <3> SUFFICES ASSUME NEW a \in Above[p], p \in Above[a] PROVE FALSE
      BY <1>1
    <3> QED
      BY <1>1, AboveTransitive
  <2> QED
    BY <1>1, <1>2, <2>1 DEF Reaches
<1>3. CASE p \notin S
  <2>1. PICK s \in S \cap Above[p] :
          \A a \in Above[p] : a = s \/ s \in Above[a] => status[a] = "RUNNING"
    BY <1>3 DEF Reaches
  <2> QED
    BY <1>1, <2>1 DEF Reaches
<1> QED
  BY <1>2, <1>3

\* A node further below is reached through its parent.
LEMMA ReachesUp ==
  ASSUME NEW n \in Nodes, NEW S \in SUBSET Kids(n),
         NEW p \in Nodes, p # n, NEW d \in Kids(p), Reaches(S, d)
  PROVE  Reaches(S, p) /\ status[p] = "RUNNING"
<1>1. Above[d] = {p} \cup Above[p] /\ Parent[d] = p
  BY AboveKid
<1>2. d \notin S
  BY <1>1, AboveKid
<1>3. PICK s \in S \cap Above[d] :
        \A a \in Above[d] : a = s \/ s \in Above[a] => status[a] = "RUNNING"
  BY <1>2 DEF Reaches
<1>4. CASE s = p
  BY <1>1, <1>3, <1>4 DEF Reaches
<1>5. CASE s \in Above[p]
  BY <1>1, <1>3, <1>5 DEF Reaches
<1> QED
  BY <1>1, <1>4, <1>5
-----------------------------------------------------------------------------
(* What a step at the node n leaves of the invariant of all other nodes.   *)

\* The node above n sees n return, go on as it was, or wait for a child.
Link(n) ==
  n # Root =>
    \/ /\ Fresh(n)' /\ n \in Ticked /\ ~Fresh(n)
       /\ Parent[n] \in Path' /\ Kids(Parent[n]) \cap Ticked' = {n}
    \/ heard'[n] = heard[n] /\ status'[n] = status[n]
    \/ /\ heard'[n] = heard[n] /\ status'[n] = "RUNNING"
       /\ n \in Ticked /\ ~Fresh(n) /\ Parent[n] \in Path'

\* A step at n that halts the children S of n, after which the activations of P
\* are over.
Elsewhere(n, S, P) ==
  /\ kind' = kind
  /\ Link(n) /\ (n # Root => Parent[n] \notin P)
  /\ \A p \in Nodes \ {n} :
       /\ p \in Path' <=> p \in Path
       /\ Reaches(S, p) => p \notin Path
       /\ status'[p] = IF Reaches(S, p) THEN "IDLE" ELSE status[p]
       /\ idx'[p] = IF Halts(S, p) THEN 0 ELSE idx[p]
       /\ skip'[p] = IF Halts(S, p) THEN {} ELSE skip[p]
       /\ p \in Over => p \in P \/ p \in Over'
       /\ p \in P => p \in Over
       /\ \A d \in Kids(p) :
            /\ d # n => heard'[d] = IF p \in P \/ Halts(S, p) THEN "none" ELSE heard[d]
            /\ Fresh(d) => Fresh(d)'
            /\ d \in Ticked' => d \in Ticked
            /\ at' = d /\ back' = "none" => at = d /\ back = "none" /\ ~Reaches(S, d)
            /\ at' = d /\ back' = "none" /\ d = n => status'[n] = status[n]

LEMMA KindIs ==
  ASSUME TypeOK, NEW p \in Nodes
  PROVE  /\ kind[p] \in Leaf \cup Control \cup Decorator
         /\ kind[p] \in Leaf <=> Children[p] = <<>>
         /\ kind[p] \in Decorator => Len(Children[p]) = 1
         /\ kind[p] = "Parallel" => Count[p] \in 1 .. Len(Children[p])
         /\ kind[p] \notin Leaf => Len(Children[p]) > 0
         /\ Count[p] \in Nat
<1>1. kind \in Kinds /\ kind \in [Nodes -> Leaf \cup Control \cup Decorator]
  BY KindAssumption DEF TypeOK
<1>2. /\ kind[p] \in Leaf <=> p \in Leaves
      /\ kind[p] \in Decorator => Len(Children[p]) = 1
      /\ kind[p] = "Parallel" => Count[p] \in 1 .. Len(Children[p])
  BY <1>1, KindAssumption
<1>3. p \in Leaves <=> Children[p] = <<>>
  BY DEF Leaves
<1>4. Children[p] # <<>> => Len(Children[p]) > 0
  BY Children1
<1> QED
  BY <1>1, <1>2, <1>3, <1>4, KindAssumption

\* Whoever is ticked has a parent that waits.
LEMMA TickedBelow ==
  ASSUME TypeOK, NEW p \in Nodes, NEW c \in Kids(p), c \in Ticked
  PROVE  p \in Path
<1>1. at \in Nodes /\ Path = Above[at]
  <2>1. CASE at = "outside"
    BY <2>1, TreeAssumption DEF Ticked, Path
  <2>2. CASE at # "outside"
    BY <2>2 DEF Path, TypeOK
  <2> QED
    BY <2>1, <2>2
<1>2. Above[c] = {p} \cup Above[p]
  BY AboveKid
<1>3. c = at \/ c \in Above[at]
  BY <1>1 DEF Ticked
<1> QED
  BY <1>1, <1>2, <1>3, AboveTransitive

\* What it does to another node p and its children.
Framed(n, S, P, p) ==
  /\ Halts(S, p) =>
       /\ idx'[p] = 0 /\ skip'[p] = {} /\ p \notin Path /\ status'[p] = "IDLE"
       /\ \A d \in Kids(p) : d # n /\ status'[d] = "IDLE" /\ heard'[d] = "none"
  /\ ~Halts(S, p) =>
       /\ idx'[p] = idx[p] /\ skip'[p] = skip[p]
       /\ \A d \in Kids(p) \ {n} :
            /\ status'[d] = status[d]
            /\ heard'[d] = IF p \in P THEN "none" ELSE heard[d]
  /\ n \in Kids(p) =>
       /\ n # Root /\ Parent[n] = p /\ ~Reaches(S, p) /\ p \notin P
       /\ status'[p] = status[p]

LEMMA FrameFacts ==
  ASSUME IInv, NEW n \in Nodes, NEW S \in SUBSET Kids(n), NEW P, Elsewhere(n, S, P),
         NEW p \in Nodes \ {n}
  PROVE  Framed(n, S, P, p)
<1>1. n \in Kids(p) =>
        /\ n # Root /\ Parent[n] = p /\ ~Reaches(S, p) /\ p \notin P
        /\ status'[p] = status[p]
  <2> SUFFICES ASSUME n \in Kids(p)
               PROVE  /\ n # Root /\ Parent[n] = p /\ ~Reaches(S, p) /\ p \notin P
                      /\ status'[p] = status[p]
    OBVIOUS
  <2>1. n # Root /\ Parent[n] = p /\ p \in Above[n]
    BY AboveKid
  <2>2. ~Reaches(S, p)
    BY <2>1, ReachesBelow
  <2> QED
    BY <2>1, <2>2 DEF Elsewhere
<1>2. ASSUME Halts(S, p)
      PROVE  /\ idx'[p] = 0 /\ skip'[p] = {} /\ p \notin Path /\ status'[p] = "IDLE"
             /\ \A d \in Kids(p) : d # n /\ status'[d] = "IDLE" /\ heard'[d] = "none"
  <2>1. Reaches(S, p) /\ status[p] = "RUNNING"
    BY <1>2 DEF Halts
  <2>2. n \notin Kids(p)
    BY <1>1, <2>1
  <2>3. \A d \in Kids(p) : d \in Nodes \ {n} /\ Reaches(S, d)
    BY <2>1, <2>2, ReachesDown, AboveKid
  <2> QED
    BY <1>2, <2>1, <2>3 DEF Elsewhere
<1>3. ASSUME ~Halts(S, p)
      PROVE  /\ idx'[p] = idx[p] /\ skip'[p] = skip[p]
             /\ \A d \in Kids(p) \ {n} :
                  /\ status'[d] = status[d]
                  /\ heard'[d] = IF p \in P THEN "none" ELSE heard[d]
  <2>1. \A d \in Kids(p) \ {n} : d \in Nodes \ {n} /\ ~Reaches(S, d)
    BY <1>3, ReachesUp, AboveKid DEF Halts
  <2> QED
    BY <1>3, <2>1 DEF Elsewhere
<1> QED
  BY <1>1, <1>2, <1>3 DEF Framed

LEMMA QuietFrame ==
  ASSUME IInv, NEW n \in Nodes, NEW S \in SUBSET Kids(n), NEW P, Elsewhere(n, S, P),
         NEW p \in Nodes \ {n}
  PROVE  Quiet(p)'
<1> SUFFICES ASSUME p \notin Path', status'[p] # "RUNNING",
                    kind[p] = "SequenceStar" => status'[p] = "SUCCESS"
             PROVE  /\ idx'[p] = 0 /\ skip'[p] = {}
                    /\ kind[p] \in {"Sequence", "Fallback", "Parallel"} /\ p \notin Over'
                         => \A d \in Kids(p) : heard'[d] = "none"
  BY DEF Quiet, Elsewhere
<1>0. Framed(n, S, P, p)
  BY FrameFacts
<1>1. CASE Halts(S, p)
  <2>1. idx'[p] = 0 /\ skip'[p] = {} /\ \A d \in Kids(p) : heard'[d] = "none"
    BY <1>0, <1>1 DEF Framed
  <2> QED
    BY Zenon, <2>1
<1>2. CASE ~Halts(S, p)
  <2>1. /\ idx'[p] = idx[p] /\ skip'[p] = skip[p]
        /\ \A d \in Kids(p) \ {n} : heard'[d] = IF p \in P THEN "none" ELSE heard[d]
        /\ n \in Kids(p) => n # Root /\ Parent[n] = p /\ p \notin P
    BY <1>0, <1>2 DEF Framed
  <2>2. /\ p \notin Path /\ status[p] # "RUNNING"
        /\ kind[p] = "SequenceStar" => status[p] = "SUCCESS"
        /\ p \in Over => p \in P \/ p \in Over'
        /\ Link(n)
    BY <1>2 DEF Elsewhere, Halts
  <2>3. /\ idx[p] = 0 /\ skip[p] = {}
        /\ kind[p] \in {"Sequence", "Fallback", "Parallel"} /\ p \notin Over
             => \A d \in Kids(p) : heard[d] = "none"
    BY <2>2 DEF IInv, Local, Quiet
  <2>4. n \in Kids(p) => heard'[n] = heard[n]
    BY <2>1, <2>2 DEF Link
  <2>5. ASSUME kind[p] \in {"Sequence", "Fallback", "Parallel"}, p \notin Over',
               NEW d \in Kids(p)
        PROVE  heard'[d] = "none"
    <3>1. CASE d = n
      BY <2>1, <2>2, <2>3, <2>4, <2>5, <3>1
    <3>2. CASE d # n /\ p \in P
      BY <2>1, <3>2
    <3>3. CASE d # n /\ p \notin P
      BY <2>1, <2>2, <2>3, <2>5, <3>3
    <3> QED
      BY <3>1, <3>2, <3>3
  <2> QED
    BY <2>1, <2>3, <2>5
<1> QED
  BY <1>1, <1>2

LEMMA UnusedFrame ==
  ASSUME IInv, NEW n \in Nodes, NEW S \in SUBSET Kids(n), NEW P, Elsewhere(n, S, P),
         NEW p \in Nodes \ {n}
  PROVE  Unused(p)'
<1>0. Framed(n, S, P, p)
  BY FrameFacts
<1>1. (idx'[p] = 0 /\ skip'[p] = {}) \/ (idx'[p] = idx[p] /\ skip'[p] = skip[p])
  BY <1>0 DEF Framed
<1>2. kind' = kind /\ Unused(p)
  BY DEF Elsewhere, IInv, Local
<1> QED
  BY <1>1, <1>2 DEF Unused

LEMMA InOrderFrame ==
  ASSUME IInv, NEW n \in Nodes, NEW S \in SUBSET Kids(n), NEW P, Elsewhere(n, S, P),
         NEW p \in Nodes \ {n}
  PROVE  InOrder(p)'
<1>0. Framed(n, S, P, p)
  BY FrameFacts
<1>1. /\ kind' = kind /\ Link(n)
      /\ \A d \in Kids(p) : /\ d \in Ticked' => d \in Ticked
                            /\ Fresh(d) => Fresh(d)'
  BY DEF Elsewhere
<1>2. TypeOK /\ idx \in [Nodes -> Nat] /\ InOrder(p) /\ Quiet(p)
  BY DEF IInv, Local
<1> SUFFICES ASSUME kind[p] \in Memory
             PROVE  /\ idx'[p] < Len(Children[p])
                    /\ \A c \in Kids(p) \cap Ticked' : Pos[c] = idx'[p] + 1
                    /\ p \notin Over' => \A d \in Kids(p) :
                         /\ Pos[d] <= idx'[p] => Passed(p, d)'
                         /\ Pos[d] > idx'[p] + 1 => heard'[d] = "none"
                         /\ Pos[d] = idx'[p] + 1 =>
                              \/ Fresh(d)'
                              \/ heard'[d] \in {"none", "RUNNING"}
                              \/ kind[p] = "SequenceStar" /\ heard'[d] = "FAILURE"
  BY <1>1 DEF InOrder
<1>3. Len(Children[p]) > 0
  BY <1>2, KindIs DEF Memory, Leaf
<1>4. \A d \in Kids(p) : Pos[d] \in Nat /\ Pos[d] > 0
  BY KidOf, Children1
<1>5. CASE Halts(S, p)
  <2>1. idx'[p] = 0 /\ p \notin Path /\ \A d \in Kids(p) : heard'[d] = "none"
    BY <1>0, <1>5 DEF Framed
  <2>2. \A c \in Kids(p) : c \notin Ticked'
    BY <1>1, <1>2, <2>1, TickedBelow
  <2> QED
    BY <1>3, <1>4, <2>1, <2>2
<1>6. CASE ~Halts(S, p)
  <2>1. /\ idx'[p] = idx[p]
        /\ \A d \in Kids(p) \ {n} : heard'[d] = IF p \in P THEN "none" ELSE heard[d]
        /\ n \in Kids(p) => n # Root /\ Parent[n] = p /\ p \notin P
    BY <1>0, <1>6 DEF Framed
  <2>2. /\ idx[p] < Len(Children[p])
        /\ \A c \in Kids(p) \cap Ticked : Pos[c] = idx[p] + 1
        /\ p \notin Over => \A d \in Kids(p) :
             /\ Pos[d] <= idx[p] => Passed(p, d)
             /\ Pos[d] > idx[p] + 1 => heard[d] = "none"
             /\ Pos[d] = idx[p] + 1 =>
                  \/ Fresh(d)
                  \/ heard[d] \in {"none", "RUNNING"}
                  \/ kind[p] = "SequenceStar" /\ heard[d] = "FAILURE"
    BY <1>2 DEF InOrder
  <2>3. \A c \in Kids(p) \cap Ticked' : Pos[c] = idx'[p] + 1
    BY <1>1, <2>1, <2>2
  <2>4. CASE p \in P
    <3>1. \A d \in Kids(p) : d # n /\ heard'[d] = "none"
      BY <2>1, <2>4
    <3>2. at = p /\ back \in Decided /\ (back = "FAILURE" => kind[p] # "SequenceStar")
      BY <2>4 DEF Elsewhere, Over, Decided
    <3>3. p \notin Path /\ status[p] = back
      BY <3>2, NotAboveItself DEF IInv, Focus, Path, Decided
    <3>4. idx[p] = 0
      BY <1>2, <3>2, <3>3 DEF Quiet, Decided
    <3> QED
      BY <1>4, <2>1, <2>2, <2>3, <3>1, <3>4
  <2>5. CASE p \notin P
    <3> SUFFICES ASSUME p \notin Over', NEW d \in Kids(p)
                 PROVE  /\ Pos[d] <= idx'[p] => Passed(p, d)'
                        /\ Pos[d] > idx'[p] + 1 => heard'[d] = "none"
                        /\ Pos[d] = idx'[p] + 1 =>
                             \/ Fresh(d)'
                             \/ heard'[d] \in {"none", "RUNNING"}
                             \/ kind[p] = "SequenceStar" /\ heard'[d] = "FAILURE"
      BY <2>1, <2>2, <2>3
    <3>1. p \notin Over
      BY <2>5 DEF Elsewhere
    <3>2. CASE d # n \/ (heard'[d] = heard[d] /\ status'[d] = status[d])
      <4>1. heard'[d] = heard[d] /\ status'[d] = status[d]
        BY <1>0, <1>6, <2>5, <3>2 DEF Framed
      <4>2. Passed(p, d) => Passed(p, d)'
        BY <1>1, <4>1 DEF Passed, Advancing
      <4> QED
        BY <1>1, <2>1, <2>2, <3>1, <4>1, <4>2
    <3>3. CASE d = n /\ ~(heard'[d] = heard[d] /\ status'[d] = status[d])
      <4>1. n \in Ticked
        BY <1>1, <2>1, <3>3 DEF Link
      <4>2. Pos[d] = idx'[p] + 1 /\ idx'[p] \in Nat
        BY <1>2, <2>1, <2>2, <3>3, <4>1
      <4>3. Fresh(n)' \/ heard'[n] = heard[n]
        BY <1>1, <2>1, <3>3 DEF Link
      <4>4. ~Fresh(n) \/ Fresh(n)'
        BY <1>1, <3>3
      <4> QED
        BY <2>1, <2>2, <3>1, <3>3, <4>2, <4>3, <4>4
    <3> QED
      BY <3>2, <3>3
  <2> QED
    BY <2>4, <2>5
<1> QED
  BY <1>5, <1>6

LEMMA ReactingFrame ==
  ASSUME IInv, NEW n \in Nodes, NEW S \in SUBSET Kids(n), NEW P, Elsewhere(n, S, P),
         NEW p \in Nodes \ {n}
  PROVE  Reacting(p)'
<1>0. Framed(n, S, P, p)
  BY FrameFacts
<1> SUFFICES ASSUME kind[p] \in Reactive,
                    NEW c \in Kids(p), c \in Ticked', NEW d \in Kids(p)
             PROVE  /\ Pos[d] < Pos[c] => heard'[d] = Advancing(p)
                    /\ Pos[d] > Pos[c] => heard'[d] = "none"
  BY DEF Reacting, Advancing, Elsewhere
<1>1. c \in Ticked /\ p \in Path
  BY TickedBelow DEF Elsewhere, IInv
<1>2. /\ Pos[d] < Pos[c] => heard[d] = Advancing(p)
      /\ Pos[d] > Pos[c] => heard[d] = "none"
  BY <1>1 DEF IInv, Local, Reacting
<1>3. p \notin P /\ ~Halts(S, p)
  <2>1. p \notin Over
    BY <1>1, NotAboveItself DEF Over, Path
  <2> QED
    BY <1>0, <1>1, <2>1 DEF Elsewhere, Framed
<1>4. CASE d # n
  BY <1>0, <1>2, <1>3, <1>4 DEF Framed
<1>5. CASE d = n
  <2>1. n # Root /\ Parent[n] = p
    BY <1>0, <1>5 DEF Framed
  <2>2. c = n \/ heard'[n] = heard[n]
    BY <2>1 DEF Elsewhere, Link
  <2>3. Pos[n] \in Nat
    BY <1>5, KidOf, Children1
  <2> QED
    BY <1>2, <1>5, <2>2, <2>3
<1> QED
  BY <1>4, <1>5

LEMMA ListedFrame ==
  ASSUME IInv, NEW n \in Nodes, NEW S \in SUBSET Kids(n), NEW P, Elsewhere(n, S, P),
         NEW p \in Nodes \ {n}
  PROVE  Listed(p)'
<1>0. Framed(n, S, P, p)
  BY FrameFacts
<1>1. /\ kind' = kind /\ Link(n)
      /\ p \in Over => p \in P \/ p \in Over'
      /\ p \in P => p \in Over
      /\ \A d \in Kids(p) : /\ d \in Ticked' => d \in Ticked
                            /\ Fresh(d) => Fresh(d)'
  BY DEF Elsewhere
<1>2. TypeOK /\ Listed(p) /\ Quiet(p) /\ Focus
  BY DEF IInv, Local
<1> DEFINE
      Kept(d) == heard'[d] = status'[d] /\ status'[d] \in Decided
      Open(d) == \/ Fresh(d)'
                 \/ /\ status'[d] \notin Decided
                    /\ p \notin Over' => heard'[d] \in {"none", "RUNNING"}
      Counted(c) ==
        /\ Cardinality(SeenBefore(p, c, "SUCCESS")') < Count[p]
        /\ Cardinality(SeenBefore(p, c, "FAILURE")') <= Len(Children[p]) - Count[p]
      Current(c) ==
        /\ c \in skip'[p] => Fresh(c)'
        /\ \A d \in Kids(p) : Pos[d] < Pos[c] => heard'[d] # "none"
        /\ Counted(c)
<1> SUFFICES ASSUME kind[p] = "Parallel"
             PROVE  /\ skip'[p] \subseteq Kids(p)
                    /\ \A d \in skip'[p] : Kept(d)
                    /\ \A d \in Kids(p) \ skip'[p] : Open(d)
                    /\ \A c \in Kids(p) \cap Ticked' : Current(c)
  BY <1>1, Zenon DEF Listed
<1>3. /\ skip[p] \subseteq Kids(p)
      /\ \A d \in skip[p] : heard[d] = status[d] /\ status[d] \in Decided
      /\ \A d \in Kids(p) \ skip[p] :
           \/ Fresh(d)
           \/ /\ status[d] \notin Decided
              /\ p \notin Over => heard[d] \in {"none", "RUNNING"}
      /\ \A c \in Kids(p) \cap Ticked :
           /\ c \in skip[p] => Fresh(c)
           /\ \A d \in Kids(p) : Pos[d] < Pos[c] => heard[d] # "none"
           /\ Cardinality(SeenBefore(p, c, "SUCCESS")) < Count[p]
           /\ Cardinality(SeenBefore(p, c, "FAILURE")) <= Len(Children[p]) - Count[p]
  BY <1>2 DEF Listed
<1>4. CASE Halts(S, p)
  <2>1. /\ skip'[p] = {} /\ p \notin Path
        /\ \A d \in Kids(p) : status'[d] = "IDLE" /\ heard'[d] = "none"
    BY <1>0, <1>4 DEF Framed
  <2>2. \A c \in Kids(p) : c \notin Ticked'
    BY <1>1, <1>2, <2>1, TickedBelow
  <2>3. \A d \in Kids(p) : Open(d)
    BY <2>1 DEF Decided
  <2> HIDE DEF Open, Kept, Current
  <2> QED
    BY <2>1, <2>2, <2>3
<1>5. CASE ~Halts(S, p) /\ p \in P
  <2>1. /\ skip'[p] = skip[p] /\ n \notin Kids(p)
        /\ \A d \in Kids(p) : status'[d] = status[d] /\ heard'[d] = "none"
    BY <1>0, <1>5 DEF Framed
  <2>2. at = p /\ back \in Decided
    BY <1>1, <1>5 DEF Over, Decided
  <2>3. p \notin Path /\ status[p] \in Decided
    BY <1>2, <2>2, NotAboveItself DEF Focus, Path, Decided
  <2>4. skip[p] = {}
    BY <1>2, <2>3 DEF Quiet, Decided
  <2>5. \A c \in Kids(p) : c \notin Ticked'
    BY <1>1, <1>2, <2>3, TickedBelow
  <2>6. \A d \in Kids(p) : ~Fresh(d)
    BY <2>2, AboveKid DEF Fresh
  <2>7. \A d \in Kids(p) : Open(d)
    BY <1>3, <2>1, <2>4, <2>6
  <2> HIDE DEF Open, Kept, Current
  <2> QED
    BY <2>1, <2>4, <2>5, <2>7
<1>6. CASE ~Halts(S, p) /\ p \notin P
  <2>1. /\ skip'[p] = skip[p]
        /\ \A d \in Kids(p) \ {n} : status'[d] = status[d] /\ heard'[d] = heard[d]
        /\ n \in Kids(p) => n # Root /\ Parent[n] = p
    BY <1>0, <1>6 DEF Framed
  <2>2. p \notin Over' => p \notin Over
    BY <1>1, <1>6
  <2>3. n \in skip[p] => heard'[n] = heard[n] /\ status'[n] = status[n]
    BY <1>1, <1>3, <2>1 DEF Link
  <2>4. ASSUME NEW d \in skip'[p]
        PROVE  Kept(d)
    BY <1>3, <2>1, <2>3, <2>4
  <2>5. ASSUME NEW d \in Kids(p) \ skip'[p]
        PROVE  Open(d)
    <3>1. CASE d # n
      BY <1>1, <1>3, <2>1, <2>2, <2>5, <3>1
    <3>2. CASE d = n
      <4>1. \/ Fresh(n)'
            \/ heard'[n] = heard[n] /\ status'[n] = status[n]
            \/ heard'[n] = heard[n] /\ status'[n] = "RUNNING" /\ ~Fresh(n)
        BY <1>1, <2>1, <2>5, <3>2 DEF Link
      <4> QED
        BY <1>1, <1>3, <2>1, <2>2, <2>5, <3>2, <4>1 DEF Decided
    <3> QED
      BY <3>1, <3>2
  <2>6. ASSUME NEW c \in Kids(p) \cap Ticked'
        PROVE  Current(c)
    <3>1. c \in Kids(p) \cap Ticked
      BY <1>1, <2>6
    <3>2. c \in skip'[p] => Fresh(c)'
      BY <1>1, <1>3, <2>1, <3>1
    <3>3. \/ n \notin Kids(p)
          \/ n = c
          \/ heard'[n] = heard[n] /\ status'[n] = status[n]
          \/ /\ heard'[n] = heard[n] /\ status'[n] = "RUNNING"
             /\ status[n] \notin Decided
      <4> SUFFICES ASSUME n \in Kids(p), n # c
                   PROVE  \/ heard'[n] = heard[n] /\ status'[n] = status[n]
                          \/ /\ heard'[n] = heard[n] /\ status'[n] = "RUNNING"
                             /\ status[n] \notin Decided
        OBVIOUS
      <4>1. \/ heard'[n] = heard[n] /\ status'[n] = status[n]
            \/ /\ heard'[n] = heard[n] /\ status'[n] = "RUNNING"
               /\ n \in Ticked /\ ~Fresh(n)
        BY <1>1, <2>1, <2>6 DEF Link
      <4> QED
        BY <1>3, <4>1
    <3>4. \A d \in Kids(p) : Pos[d] \in Nat
      BY KidOf, Children1
    <3>5. ASSUME NEW d \in Kids(p), Pos[d] < Pos[c]
          PROVE  /\ heard'[d] = heard[d]
                 /\ \A r \in Decided : status'[d] = r <=> status[d] = r
      <4>1. d # c
        BY <3>4, <3>5
      <4>2. CASE d = n
        BY <3>3, <4>1, <4>2 DEF Decided
      <4> QED
        BY <2>1, <4>2
    <3>6. \A r \in Decided : SeenBefore(p, c, r)' = SeenBefore(p, c, r)
      BY <3>5 DEF SeenBefore
    <3>7. Counted(c)
      BY <1>3, <3>1, <3>6 DEF Decided
    <3>8. \A d \in Kids(p) : Pos[d] < Pos[c] => heard'[d] # "none"
      BY <1>3, <3>1, <3>5
    <3> HIDE DEF Counted
    <3> QED
      BY <3>2, <3>7, <3>8
  <2> HIDE DEF Open, Kept, Current
  <2> QED
    BY <1>3, <2>1, <2>4, <2>5, <2>6
<1> QED
  BY <1>4, <1>5, <1>6

LEMMA TimedOutFrame ==
  ASSUME IInv, NEW n \in Nodes, NEW S \in SUBSET Kids(n), NEW P, Elsewhere(n, S, P),
         NEW p \in Nodes \ {n}
  PROVE  TimedOut(p)'
<1>0. Framed(n, S, P, p)
  BY FrameFacts
<1> SUFFICES ASSUME kind[p] = "Timeout", idx'[p] = 2
             PROVE  p \notin Path' /\ status'[First(p)] # "RUNNING"
  BY DEF TimedOut, Elsewhere, First
<1>1. idx'[p] = idx[p] /\ ~Halts(S, p)
  BY <1>0 DEF Framed
<1>2. p \notin Path /\ status[First(p)] # "RUNNING" /\ TypeOK
  BY <1>1 DEF IInv, Local, TimedOut
<1>3. p \notin Path' /\ Link(n)
  BY <1>2 DEF Elsewhere
<1>4. First(p) \in Kids(p)
  BY <1>2, KindIs, ChildAt DEF First, Decorator
<1>5. CASE First(p) # n
  BY <1>0, <1>1, <1>2, <1>3, <1>4, <1>5 DEF Framed
<1>6. CASE First(p) = n
  <2>1. n # Root /\ Parent[n] = p
    BY <1>0, <1>4, <1>6 DEF Framed
  <2> QED
    BY <1>2, <1>3, <1>6, <2>1 DEF Link
<1> QED
  BY <1>5, <1>6

LEMMA MarkedFrame ==
  ASSUME IInv, NEW n \in Nodes, NEW S \in SUBSET Kids(n), NEW P, Elsewhere(n, S, P),
         NEW p \in Nodes \ {n}
  PROVE  Marked(p)'
<1>1. /\ kind' = kind
      /\ p \in Path' <=> p \in Path
      /\ p \in Path => status'[p] = status[p]
  BY DEF Elsewhere
<1>2. Marked(p) /\ TypeOK
  BY DEF IInv, Local
<1>3. p \in Path' /\ kind'[p] \in Marking => status'[p] = "RUNNING"
  BY <1>1, <1>2 DEF Marked
<1>4. ASSUME kind[p] = "SubTree", at' = First(p), back' = "none", status'[at'] = "RUNNING"
      PROVE  status'[p] = "RUNNING"
  <2> DEFINE d == First(p)
  <2>1. d \in Kids(p) /\ d \in Nodes
    BY <1>2, <1>4, KindIs, ChildAt DEF First, Decorator, Wrapper
  <2> HIDE DEF d
  <2>2. /\ at = d /\ back = "none" /\ ~Reaches(S, d)
        /\ d = n => status'[n] = status[n]
    BY <1>4, <2>1 DEF Elsewhere, d
  <2>3. status[at] = "RUNNING"
    BY <1>4, <2>1, <2>2 DEF Elsewhere, d
  <2>4. status[p] = "RUNNING"
    BY <1>2, <1>4, <2>2, <2>3 DEF Marked, d
  <2>5. p \in Path
    BY <2>1, <2>2, AboveKid, TreeAssumption DEF Path
  <2> QED
    BY <1>1, <2>4, <2>5
<1> QED
  BY <1>1, <1>3, <1>4, Zenon DEF Marked, First

LEMMA ClosedFrame ==
  ASSUME IInv, NEW n \in Nodes, NEW S \in SUBSET Kids(n), NEW P, Elsewhere(n, S, P),
         NEW p \in Nodes \ {n}
  PROVE  Closed(p)'
<1>0. Framed(n, S, P, p)
  BY FrameFacts
<1>1. /\ p \in Path' <=> p \in Path
      /\ status'[p] = IF Reaches(S, p) THEN "IDLE" ELSE status[p]
      /\ Link(n) /\ Closed(p)
  BY DEF Elsewhere, IInv, Local
<1> SUFFICES ASSUME NEW d \in Kids(p), status'[d] = "RUNNING"
             PROVE  status'[p] = "RUNNING" \/ p \in Path'
  BY DEF Closed
<1>2. ~Halts(S, p)
  BY <1>0 DEF Framed
<1>3. status[p] = "RUNNING" => status'[p] = "RUNNING"
  BY <1>1, <1>2 DEF Halts
<1>4. CASE d # n
  <2>1. status[d] = "RUNNING"
    BY <1>0, <1>2, <1>4 DEF Framed
  <2> QED
    BY <1>1, <1>3, <2>1 DEF Closed
<1>5. CASE d = n
  <2>1. n # Root /\ Parent[n] = p
    BY <1>0, <1>5 DEF Framed
  <2>2. p \in Path' \/ status'[n] = status[n]
    BY <1>1, <2>1 DEF Link
  <2> QED
    BY <1>1, <1>3, <1>5, <2>2 DEF Closed
<1> QED
  BY <1>4, <1>5

LEMMA LocalFrame ==
  ASSUME IInv, NEW n \in Nodes, NEW S \in SUBSET Kids(n), NEW P, Elsewhere(n, S, P)
  PROVE  \A p \in Nodes \ {n} : Local(p)'
<1> SUFFICES ASSUME NEW p \in Nodes \ {n}
             PROVE  Local(p)'
  OBVIOUS
<1>1. Quiet(p)' /\ Unused(p)' /\ InOrder(p)' /\ Reacting(p)' /\ Listed(p)'
  BY QuietFrame, UnusedFrame, InOrderFrame, ReactingFrame, ListedFrame
<1>2. TimedOut(p)' /\ Marked(p)' /\ Closed(p)'
  BY TimedOutFrame, MarkedFrame, ClosedFrame
<1>3. Settled(p)'
  BY DEF IInv, Local, Settled, Elsewhere
<1> QED
  BY <1>1, <1>2, <1>3 DEF Local
-----------------------------------------------------------------------------
(* The steps at a node n that is ticked, or whose child has come to a      *)
(* result.                                                                 *)

Active(n) ==
  \/ at = n /\ back = "none"
  \/ at \in Kids(n) /\ back # "none"

LEMMA ActiveFacts ==
  ASSUME NEW n \in Nodes, Active(n)
  PROVE  /\ at \in Nodes /\ at # "outside" /\ Path = Above[at] /\ Above[n] \subseteq Path
         /\ \A p \in Nodes \ {n} : p \in Above[n] <=> p \in Path
         /\ n \in Ticked /\ ~Fresh(n) /\ n \notin Over
         /\ n # Root => Parent[n] \in Above[n] /\ Parent[n] \notin Over
         /\ Over \subseteq Kids(n)
         /\ \A p \in Nodes \ {n} : \A d \in Kids(p) : ~Fresh(d)
         /\ n \notin Above[n] /\ n # "outside"
<1>1. CASE at = n /\ back = "none"
  <2>1. Over = {}
    BY <1>1 DEF Over
  <2>2. Path = Above[n] /\ n \notin Above[n] /\ n # "outside"
    BY <1>1, NotAboveItself, TreeAssumption DEF Path
  <2>3. n # Root => Parent[n] \in Above[n]
    BY AboveIs
  <2> QED
    BY <1>1, <2>1, <2>2, <2>3 DEF Ticked, Fresh
<1>2. CASE at \in Kids(n) /\ back # "none"
  <2>1. /\ at \in Nodes /\ at # Root /\ Parent[at] = n /\ Above[at] = {n} \cup Above[n]
        /\ at \notin Above[n] /\ at # n /\ n \notin Above[n]
    BY <1>2, AboveKid
  <2>2. at # "outside" /\ n # "outside"
    BY <2>1, TreeAssumption
  <2>3. Path = Above[at]
    BY <2>2 DEF Path
  <2>4. n # Root => Parent[n] \in Above[n]
    BY AboveIs
  <2>5. Over \subseteq {at}
    BY DEF Over
  <2>6. \A p \in Nodes \ {n} : \A d \in Kids(p) : d # at
    BY <1>2, <2>1, KidOf
  <2> QED
    BY <1>2, <2>1, <2>2, <2>3, <2>4, <2>5, <2>6 DEF Ticked, Fresh
<1> QED
  BY <1>1, <1>2 DEF Active

LEMMA ReturnElsewhere ==
  ASSUME IInv, NEW n \in Nodes, Active(n), NEW S \in SUBSET Kids(n),
         NEW r, NEW i, NEW k, r # "none", Return(n, r, S, i, k)
  PROVE  Elsewhere(n, S, Over)
<1>1. /\ at \in Nodes /\ Path = Above[at] /\ Above[n] \subseteq Path
      /\ \A p \in Nodes \ {n} : p \in Above[n] <=> p \in Path
      /\ n \in Ticked /\ ~Fresh(n)
      /\ n # Root => Parent[n] \in Above[n] /\ Parent[n] \notin Over
      /\ \A p \in Nodes \ {n} : \A d \in Kids(p) : ~Fresh(d)
      /\ n # "outside"
  BY ActiveFacts
<1>2. at' = n /\ back' = r /\ kind' = kind
  BY DEF Return
<1>3. Path' = Above[n] /\ Ticked' = Above[n] \cup {n}
  BY <1>1, <1>2 DEF Path, Ticked
<1>4. ASSUME n # Root
      PROVE  /\ Fresh(n)' /\ Parent[n] \in Path'
             /\ Kids(Parent[n]) \cap Ticked' = {n}
  <2>1. Parent[n] \in Nodes /\ n \in Kids(Parent[n])
    BY <1>4, ParentOf
  <2>2. \A d \in Kids(Parent[n]) : d \notin Above[n]
    BY <2>1, AboveKid
  <2> QED
    BY <1>1, <1>2, <1>3, <1>4, <2>1, <2>2 DEF Fresh
<1>5. Link(n)
  BY <1>1, <1>4 DEF Link
<1>6. ASSUME NEW p \in Nodes \ {n}
      PROVE  /\ Reaches(S, p) => p \notin Path
             /\ status'[p] = IF Reaches(S, p) THEN "IDLE" ELSE status[p]
             /\ idx'[p] = IF Halts(S, p) THEN 0 ELSE idx[p]
             /\ skip'[p] = IF Halts(S, p) THEN {} ELSE skip[p]
  <2>1. Reaches(S, p) => p \notin Path
    BY <1>1, ReachesBelow
  <2> QED
    BY <2>1 DEF Return, StatusAfter, IdxAfter, SkipAfter
<1>7. ASSUME NEW p \in Nodes \ {n}, NEW d \in Kids(p), d # n
      PROVE  heard'[d] = IF p \in Over \/ Halts(S, p) THEN "none" ELSE heard[d]
  <2>1. d \in Nodes /\ d # Root /\ Parent[d] = p
    BY KidOf
  <2> QED
    BY <1>7, <2>1 DEF Return, HeardAfter, Forget
<1>8. ASSUME NEW p \in Nodes \ {n}, NEW d \in Kids(p)
      PROVE  d \in Ticked' => d \in Ticked
  BY <1>1, <1>3 DEF Ticked
<1> QED
  BY <1>1, <1>2, <1>3, <1>5, <1>6, <1>7, <1>8 DEF Elsewhere

\* What the return from n does to n and its children.
Gives(n, r, S, i, k) ==
  /\ at' = n /\ back' = r /\ kind' = kind
  /\ status'[n] = r /\ idx'[n] = i /\ skip'[n] = k /\ heard'[n] = r
  /\ n \notin Path' /\ Kids(n) \cap Ticked' = {}
  /\ n \in Over' <=> r \in Decided /\ ~(r = "FAILURE" /\ kind[n] = "SequenceStar")
  /\ \A d \in Kids(n) :
       /\ status'[d] = IF d \in S THEN "IDLE" ELSE status[d]
       /\ heard'[d] = heard[d] /\ d # n

LEMMA ReturnGives ==
  ASSUME IInv, NEW n \in Nodes, Active(n), NEW S \in SUBSET Kids(n),
         NEW r, NEW i, NEW k, Return(n, r, S, i, k)
  PROVE  Gives(n, r, S, i, k)
<1>1. TypeOK /\ idx \in [Nodes -> Nat] /\ n \notin Over /\ n \notin Above[n] /\ n # "outside"
  BY ActiveFacts DEF IInv
<1>2. at' = n /\ back' = r /\ kind' = kind
  BY DEF Return
<1>3. status'[n] = r /\ idx'[n] = i /\ skip'[n] = k /\ heard'[n] = r
  BY <1>1 DEF Return, StatusAfter, IdxAfter, SkipAfter, HeardAfter, Forget
<1>4. Path' = Above[n] /\ Ticked' = Above[n] \cup {n}
  BY <1>1, <1>2 DEF Path, Ticked
<1>5. n \in Over' <=> r \in Decided /\ ~(r = "FAILURE" /\ kind[n] = "SequenceStar")
  BY <1>2 DEF Over, Decided
<1>6. ~Halts(S, n)
  BY ReachesBelow DEF Halts
<1>7. ASSUME NEW d \in Kids(n)
      PROVE  /\ status'[d] = IF d \in S THEN "IDLE" ELSE status[d]
             /\ heard'[d] = heard[d]
             /\ d # n /\ d \notin Above[n]
  <2>1. d \in Nodes /\ d # Root /\ Parent[d] = n /\ d # n /\ d \notin Above[n]
    BY AboveKid
  <2>2. Reaches(S, d) <=> d \in S
    BY ReachesKid
  <2> QED
    BY <1>1, <1>6, <2>1, <2>2 DEF Return, StatusAfter, HeardAfter, Forget
<1> QED
  BY <1>1, <1>2, <1>3, <1>4, <1>5, <1>7 DEF Gives

\* How far the progress of a node can be.
Within(n, i) == i \in 0 .. (IF kind[n] \in Control THEN Len(Children[n])
                            ELSE IF kind[n] = "Timeout" THEN 2 ELSE Count[n])

\* The result r leaves the activation of n open.
Stays(n, r) == r = "RUNNING" \/ (r = "FAILURE" /\ kind[n] = "SequenceStar")

\* The node n may return r, halt S and keep i and k.
Proper(n, r, S, i, k) ==
  /\ r \in {"RUNNING"} \cup Decided /\ Within(n, i) /\ k \subseteq Kids(n)
  /\ Stays(n, r) \/ (i = 0 /\ k = {})
  /\ kind[n] # "Parallel" => k = {}
  /\ kind[n] = "SubTree" => i = 0
  /\ kind[n] = "Timeout" => i # 2
  /\ kind[n] = "Sync" => r # "RUNNING"
  /\ \A d \in Kids(n) \ S : status[d] = "RUNNING" => r = "RUNNING"

ProperMemory(n, r, i) ==
  kind[n] \in Memory =>
    /\ i < Len(Children[n])
    /\ Stays(n, r) => \A d \in Kids(n) :
         /\ Pos[d] <= i => Passed(n, d)
         /\ Pos[d] > i + 1 => heard[d] = "none"
         /\ Pos[d] = i + 1 =>
              \/ heard[d] \in {"none", "RUNNING"}
              \/ kind[n] = "SequenceStar" /\ heard[d] = "FAILURE"

ProperList(n, r, S, k) ==
  kind[n] = "Parallel" =>
    /\ r \in Decided => S = Kids(n)
    /\ r = "RUNNING" =>
         /\ S = {}
         /\ \A d \in k : heard[d] = status[d] /\ status[d] \in Decided
         /\ \A d \in Kids(n) \ k : status[d] \notin Decided /\ heard[d] \in {"none", "RUNNING"}

LEMMA ReturnLocal ==
  ASSUME IInv, NEW n \in Nodes, NEW S \in SUBSET Kids(n), NEW r, NEW i, NEW k,
         Gives(n, r, S, i, k),
         Proper(n, r, S, i, k), ProperMemory(n, r, i), ProperList(n, r, S, k)
  PROVE  Local(n)'
<1>1. TypeOK
  BY DEF IInv
<1>2. Quiet(n)'
  <2> SUFFICES ASSUME r # "RUNNING", kind[n] = "SequenceStar" => r = "SUCCESS"
               PROVE  i = 0 /\ k = {} /\ n \in Over'
    BY DEF Quiet, Gives
  <2> QED
    BY DEF Proper, Stays, Gives, Decided
<1>3. Unused(n)'
  BY DEF Unused, Gives, Proper
<1>4. InOrder(n)'
  <2>1. \A d \in Kids(n) : heard'[d] = heard[d]
    BY DEF Gives
  <2>2. n \notin Over' => Stays(n, r)
    BY DEF Gives, Stays, Proper, Decided
  <2>3. kind' = kind /\ idx'[n] = i /\ Kids(n) \cap Ticked' = {}
    BY DEF Gives
  <2> SUFFICES ASSUME kind[n] \in Memory
               PROVE  /\ i < Len(Children[n])
                      /\ n \notin Over' => \A d \in Kids(n) :
                           /\ Pos[d] <= i => Passed(n, d)'
                           /\ Pos[d] > i + 1 => heard'[d] = "none"
                           /\ Pos[d] = i + 1 =>
                                \/ Fresh(d)'
                                \/ heard'[d] \in {"none", "RUNNING"}
                                \/ kind[n] = "SequenceStar" /\ heard'[d] = "FAILURE"
    BY <2>3 DEF InOrder
  <2>4. \A d \in Kids(n) : Passed(n, d) => Passed(n, d)'
    BY <2>3 DEF Passed, Advancing, Gives
  <2> QED
    BY <2>1, <2>2, <2>4 DEF ProperMemory
<1>5. Reacting(n)'
  BY DEF Reacting, Gives
<1>6. Listed(n)'
  <2> SUFFICES ASSUME kind[n] = "Parallel"
               PROVE  Listed(n)'
    BY DEF Listed, Gives
  <2>1. /\ skip'[n] = k /\ Kids(n) \cap Ticked' = {}
        /\ \A d \in Kids(n) : /\ status'[d] = IF d \in S THEN "IDLE" ELSE status[d]
                              /\ heard'[d] = heard[d]
    BY DEF Gives
  <2>2. CASE r \in Decided
    <3>1. k = {} /\ n \in Over' /\ S = Kids(n)
      BY <2>2 DEF Proper, ProperList, Gives, Stays, Decided
    <3> QED
      BY <2>1, <3>1 DEF Listed, Decided
  <2>3. CASE r = "RUNNING"
    <3>1. /\ k \subseteq Kids(n) /\ S = {}
          /\ \A d \in k : heard[d] = status[d] /\ status[d] \in Decided
          /\ \A d \in Kids(n) \ k : status[d] \notin Decided /\ heard[d] \in {"none", "RUNNING"}
      BY <2>3 DEF Proper, ProperList
    <3> QED
      BY <2>1, <3>1 DEF Listed
  <2> QED
    BY <2>2, <2>3 DEF Proper
<1>7. TimedOut(n)'
  BY DEF TimedOut, Gives, Proper
<1>8. Marked(n)'
  <2>1. kind[n] = "SubTree" => First(n) \in Kids(n)
    BY <1>1, KindIs, ChildAt DEF First, Decorator, Wrapper
  <2>2. First(n)' = First(n)
    BY DEF First
  <2> QED
    BY <2>1, <2>2 DEF Marked, Gives
<1>9. Closed(n)'
  BY DEF Closed, Gives, Proper
<1>10. Settled(n)'
  BY DEF Settled, Gives, Proper
<1> QED
  BY <1>2, <1>3, <1>4, <1>5, <1>6, <1>7, <1>8, <1>9, <1>10 DEF Local

\* A promise is about what the children have been heard to say, and no more.
LEMMA PromiseKept ==
  ASSUME NEW n \in Nodes, NEW r, Promise(n, r), kind' = kind,
         \A d \in Kids(n) : heard'[d] = heard[d]
  PROVE  Promise(n, r)'
<1>1. DOMAIN Children[n] = 1 .. Len(Children[n]) /\ Len(Children[n]) \in Nat
  BY Children1
<1>2. \A i \in DOMAIN Children[n] : heard'[Children[n][i]] = heard[Children[n][i]]
  BY <1>1, ChildAt
<1>3. Advancing(n)' = Advancing(n)
  BY DEF Advancing
<1>4. SequencePromise(n, r) => SequencePromise(n, r)'
  <2> DEFINE h(i) == heard[Children[n][i]]
             H(i) == heard'[Children[n][i]]
             list == DOMAIN Children[n]
  <2> SUFFICES ASSUME SequencePromise(n, r)
               PROVE  SequencePromise(n, r)'
    OBVIOUS
  <2>1. \A i \in list : H(i) = h(i)
    BY <1>2
  <2>2. CASE r = Advancing(n) /\ \A i \in list : h(i) = r
    BY <1>3, <2>1, <2>2 DEF SequencePromise
  <2>3. CASE /\ r # Advancing(n)
             /\ \E i \in list :
                  /\ h(i) = r
                  /\ \A j \in 1 .. i - 1 : h(j) = Advancing(n)
                  /\ \A j \in list : j > i => h(j) = "none"
    <3>1. PICK i \in list : /\ h(i) = r
                            /\ \A j \in 1 .. i - 1 : h(j) = Advancing(n)
                            /\ \A j \in list : j > i => h(j) = "none"
      BY <2>3
    <3>2. \A j \in 1 .. i - 1 : j \in list
      BY <1>1, <3>1
    <3>3. /\ H(i) = r
          /\ \A j \in 1 .. i - 1 : H(j) = Advancing(n)
          /\ \A j \in list : j > i => H(j) = "none"
      BY <2>1, <3>1, <3>2
    <3> QED
      BY <1>3, <2>3, <3>3 DEF SequencePromise
  <2> QED
    BY <2>2, <2>3 DEF SequencePromise
<1>5. ParallelPromise(n, r) => ParallelPromise(n, r)'
  <2>1. \A x : {c \in Kids(n) : heard'[c] = x} = {c \in Kids(n) : heard[c] = x}
    OBVIOUS
  <2> QED
    BY <2>1 DEF ParallelPromise
<1> QED
  BY <1>4, <1>5 DEF Promise

LEMMA TypesAfter ==
  ASSUME IInv, NEW n \in Nodes, NEW S \in SUBSET Kids(n),
         NEW s \in Status, NEW i, Within(n, i), NEW k \in SUBSET Nodes,
         kind' = kind,
         status' = [StatusAfter(S) EXCEPT ![n] = s],
         idx' = [IdxAfter(S) EXCEPT ![n] = i],
         skip' = [SkipAfter(S) EXCEPT ![n] = k],
         at' \in Nodes \cup {"outside"},
         back' \in (Status \cup {"none"}) \ {"IDLE"},
         heard' \in [Nodes -> Status \cup {"none"}]
  PROVE  TypeOK' /\ (idx \in [Nodes -> Nat])'
<1>1. TypeOK /\ idx \in [Nodes -> Nat]
  BY DEF IInv
<1>2. i \in Nat
  <2>1. Len(Children[n]) \in Nat /\ Count[n] \in Nat
    BY <1>1, Children1, KindIs
  <2> QED
    BY <2>1 DEF Within
<1>3. status' \in [Nodes -> Status]
  BY <1>1 DEF StatusAfter, TypeOK, Status
<1>4. idx' \in [Nodes -> Nat]
  BY <1>1, <1>2 DEF IdxAfter
<1>5. skip' \in [Nodes -> SUBSET Nodes]
  BY <1>1 DEF SkipAfter, TypeOK
<1>6. ASSUME NEW p \in Nodes
      PROVE  Within(p, idx'[p])
  <2>1. Within(p, idx[p])
    BY <1>1 DEF TypeOK, Within
  <2>2. Within(p, 0)
    <3>1. Len(Children[p]) \in Nat /\ Count[p] \in Nat
      BY <1>1, Children1, KindIs
    <3> QED
      BY <3>1 DEF Within
  <2>3. (idx'[p] = i /\ p = n) \/ idx'[p] = 0 \/ idx'[p] = idx[p]
    BY DEF IdxAfter
  <2> QED
    BY <2>1, <2>2, <2>3
<1>7. \A p \in Nodes : Within(p, idx'[p]) <=>
        idx'[p] \in 0 .. (IF kind'[p] \in Control THEN Len(Children[p])
                          ELSE IF kind'[p] = "Timeout" THEN 2 ELSE Count[p])
  BY DEF Within
<1>8. kind' \in Kinds
  BY <1>1 DEF TypeOK
<1> QED
  BY <1>3, <1>4, <1>5, <1>6, <1>7, <1>8 DEF TypeOK, Status

LEMMA HeardTypes ==
  ASSUME IInv, NEW P, NEW S
  PROVE  Forget(P, S) \in [Nodes -> Status \cup {"none"}]
  BY DEF IInv, TypeOK, Forget

\* A proper return preserves the invariant.
LEMMA Returned ==
  ASSUME IInv, NEW n \in Nodes, Active(n), NEW S \in SUBSET Kids(n),
         NEW r, NEW i, NEW k, Return(n, r, S, i, k),
         Proper(n, r, S, i, k), ProperMemory(n, r, i), ProperList(n, r, S, k),
         Promise(n, r)
  PROVE  IInv'
<1>1. r # "none" /\ r \in Status \ {"IDLE"}
  BY DEF Proper, Status, Decided
<1>2. Gives(n, r, S, i, k) /\ Elsewhere(n, S, Over)
  BY <1>1, ReturnGives, ReturnElsewhere
<1>3. \A p \in Nodes : Local(p)'
  BY <1>2, LocalFrame, ReturnLocal
<1>4. heard' \in [Nodes -> Status \cup {"none"}]
  <2>1. HeardAfter(S) \in [Nodes -> Status \cup {"none"}]
    BY HeardTypes DEF HeardAfter
  <2> QED
    BY <1>1, <2>1 DEF Return
<1>5. TypeOK' /\ (idx \in [Nodes -> Nat])'
  <2>1. k \in SUBSET Nodes /\ Within(n, i)
    BY Children1 DEF Proper
  <2> QED
    BY <1>1, <1>4, <2>1, TypesAfter DEF Return
<1>6. Focus'
  BY <1>2, TreeAssumption DEF Focus, Gives
<1>7. Verdicts'
  <2>1. Promise(n, r)'
    BY <1>2, PromiseKept DEF Gives
  <2> QED
    BY <1>2, <2>1 DEF Verdicts, Promise, Gives
<1> QED
  BY <1>3, <1>5, <1>6, <1>7 DEF IInv
-----------------------------------------------------------------------------
(* The steps from a node n down to its child c.                            *)

\* S is halted, the activations of P are over, n is left with s, i and k, and c
\* is ticked (b = "none") or its status b is looked at.
Down(n, c, b, S, P, s, i, k) ==
  /\ at' = c /\ back' = b /\ kind' = kind
  /\ status' = [StatusAfter(S) EXCEPT ![n] = s]
  /\ idx' = [IdxAfter(S) EXCEPT ![n] = i]
  /\ skip' = [SkipAfter(S) EXCEPT ![n] = k]
  /\ heard' = Forget(P, S)
  /\ P = Over \/ (P = {n} /\ back = "none")
  /\ s \in {status[n], "RUNNING"}

LEMMA DownElsewhere ==
  ASSUME IInv, NEW n \in Nodes, Active(n), NEW S \in SUBSET Kids(n),
         NEW c \in Kids(n), NEW b, NEW P, NEW s, NEW i, NEW k,
         Down(n, c, b, S, P, s, i, k)
  PROVE  Elsewhere(n, S, P)
<1>1. /\ at \in Nodes /\ Path = Above[at] /\ Above[n] \subseteq Path
      /\ \A p \in Nodes \ {n} : p \in Above[n] <=> p \in Path
      /\ n \in Ticked /\ ~Fresh(n)
      /\ n # Root => Parent[n] \in Above[n] /\ Parent[n] \notin Over
      /\ Over \subseteq Kids(n) /\ n \notin Above[n]
      /\ \A p \in Nodes \ {n} : \A d \in Kids(p) : ~Fresh(d)
  BY ActiveFacts
<1>2. c \in Nodes /\ c # "outside" /\ c # n /\ Above[c] = {n} \cup Above[n]
  BY AboveKid, TreeAssumption
<1>3. at' = c /\ kind' = kind
  BY DEF Down
<1>4. Path' = {n} \cup Above[n] /\ Ticked' = {n, c} \cup Above[n]
  BY <1>2, <1>3 DEF Path, Ticked
<1>5. /\ n # Root => Parent[n] \notin P
      /\ \A p \in Nodes \ {n} : p \in Over <=> p \in P
  <2>1. CASE P = Over
    BY <1>1, <2>1
  <2>2. CASE P = {n} /\ back = "none"
    BY <1>1, <2>2 DEF Over
  <2> QED
    BY <2>1, <2>2 DEF Down
<1>6. n \in DOMAIN StatusAfter(S) /\ ~Reaches(S, n) /\ status'[n] = s
  BY ReachesBelow DEF Down, StatusAfter
<1>7. ASSUME n # Root
      PROVE  heard'[n] = heard[n] /\ Parent[n] \in Path'
  <2>1. Parent[n] \in Nodes /\ ~Halts(S, Parent[n])
    BY <1>1, <1>7, ParentOf, ReachesBelow DEF Halts
  <2> QED
    BY <1>1, <1>4, <1>5, <1>7, <2>1 DEF Down, Forget
<1>8. Link(n)
  BY <1>1, <1>6, <1>7 DEF Link, Down
<1>9. ASSUME NEW p \in Nodes \ {n}
      PROVE  /\ Reaches(S, p) => p \notin Path
             /\ status'[p] = IF Reaches(S, p) THEN "IDLE" ELSE status[p]
             /\ idx'[p] = IF Halts(S, p) THEN 0 ELSE idx[p]
             /\ skip'[p] = IF Halts(S, p) THEN {} ELSE skip[p]
  <2>1. Reaches(S, p) => p \notin Path
    BY <1>1, ReachesBelow
  <2> QED
    BY <2>1 DEF Down, StatusAfter, IdxAfter, SkipAfter
<1>10. ASSUME NEW p \in Nodes \ {n}, NEW d \in Kids(p)
       PROVE  /\ heard'[d] = IF p \in P \/ Halts(S, p) THEN "none" ELSE heard[d]
              /\ d # c /\ (d \in Ticked' => d \in Ticked)
  <2>1. d \in Nodes /\ d # Root /\ Parent[d] = p /\ d # c
    BY KidOf
  <2> QED
    BY <1>1, <1>4, <2>1 DEF Down, Forget, Ticked
<1>11. \A p \in Nodes \ {n} : p \in Path' <=> p \in Path
  BY <1>1, <1>4
<1> QED
  BY <1>1, <1>3, <1>5, <1>8, <1>9, <1>10, <1>11 DEF Elsewhere

\* What n and its children are left with.
Takes(n, c, b, S, P, s, i, k) ==
  /\ at' = c /\ back' = b /\ kind' = kind
  /\ status'[n] = s /\ idx'[n] = i /\ skip'[n] = k
  /\ n \in Path' /\ Kids(n) \cap Ticked' = {c} /\ n \notin Over'
  /\ \A d \in Kids(n) :
       /\ status'[d] = IF d \in S THEN "IDLE" ELSE status[d]
       /\ heard'[d] = IF n \in P THEN "none" ELSE heard[d]
       /\ d # n

LEMMA DownTakes ==
  ASSUME IInv, NEW n \in Nodes, Active(n), NEW S \in SUBSET Kids(n),
         NEW c \in Kids(n), NEW b, NEW P, NEW s, NEW i, NEW k,
         Down(n, c, b, S, P, s, i, k)
  PROVE  Takes(n, c, b, S, P, s, i, k)
<1>1. /\ at' = c /\ back' = b /\ kind' = kind
      /\ status'[n] = s /\ idx'[n] = i /\ skip'[n] = k
  BY DEF Down, StatusAfter, IdxAfter, SkipAfter
<1>2. c \in Nodes /\ c # "outside" /\ c # n /\ Above[c] = {n} \cup Above[n]
  BY AboveKid, TreeAssumption
<1>3. Path' = {n} \cup Above[n] /\ Ticked' = {n, c} \cup Above[n]
  BY <1>1, <1>2 DEF Path, Ticked
<1>4. n \notin Over'
  BY <1>1, <1>2 DEF Over
<1>5. ~Halts(S, n)
  BY ReachesBelow DEF Halts
<1>6. ASSUME NEW d \in Kids(n)
      PROVE  /\ status'[d] = IF d \in S THEN "IDLE" ELSE status[d]
             /\ heard'[d] = IF n \in P THEN "none" ELSE heard[d]
             /\ d # n /\ d \notin Above[n]
  <2>1. d \in Nodes /\ d # Root /\ Parent[d] = n /\ d # n /\ d \notin Above[n]
    BY AboveKid
  <2>2. Reaches(S, d) <=> d \in S
    BY ReachesKid
  <2> QED
    BY <1>5, <2>1, <2>2 DEF Down, StatusAfter, Forget
<1>7. Kids(n) \cap Ticked' = {c}
  BY <1>3, <1>6
<1> QED
  BY <1>1, <1>3, <1>4, <1>6, <1>7 DEF Takes

\* The node n may go down to c in this way.
Fit(n, c, b, S, P, s, i, k) ==
  /\ Within(n, i) /\ k \subseteq Kids(n) /\ c \notin S
  /\ kind[n] # "Parallel" => k = {} /\ b = "none"
  /\ kind[n] = "SubTree" => i = 0
  /\ kind[n] = "Timeout" => i # 2
  /\ kind[n] \in Marking \/ (kind[n] = "SubTree" /\ status[c] = "RUNNING") => s = "RUNNING"
  /\ kind[n] \notin Reactive => P = Over
  /\ b # "none" => b = status[c] /\ b = heard[c] /\ c \in k /\ b \in Decided

FitMemory(n, c, i) ==
  kind[n] \in Memory =>
    /\ i < Len(Children[n]) /\ Pos[c] = i + 1
    /\ \A d \in Kids(n) :
         /\ Pos[d] <= i => Passed(n, d)
         /\ Pos[d] > i + 1 => heard[d] = "none"
         /\ Pos[d] = i + 1 =>
              \/ heard[d] \in {"none", "RUNNING"}
              \/ kind[n] = "SequenceStar" /\ heard[d] = "FAILURE"

FitReactive(n, c, P) ==
  kind[n] \in Reactive => \A d \in Kids(n) :
    /\ Pos[d] < Pos[c] => n \notin P /\ heard[d] = Advancing(n)
    /\ Pos[d] > Pos[c] => n \in P \/ heard[d] = "none"

FitList(n, c, b, S, k) ==
  kind[n] = "Parallel" =>
    /\ S = {}
    /\ \A d \in k : heard[d] = status[d] /\ status[d] \in Decided
    /\ \A d \in Kids(n) \ k : status[d] \notin Decided /\ heard[d] \in {"none", "RUNNING"}
    /\ c \in k => b # "none"
    /\ \A d \in Kids(n) : Pos[d] < Pos[c] => heard[d] # "none"
    /\ Cardinality(SeenBefore(n, c, "SUCCESS")) < Count[n]
    /\ Cardinality(SeenBefore(n, c, "FAILURE")) <= Len(Children[n]) - Count[n]

LEMMA DownLocal ==
  ASSUME IInv, NEW n \in Nodes, Active(n), NEW S \in SUBSET Kids(n),
         NEW c \in Kids(n), NEW b, NEW P, NEW s, NEW i, NEW k,
         Takes(n, c, b, S, P, s, i, k), Fit(n, c, b, S, P, s, i, k),
         FitMemory(n, c, i), FitReactive(n, c, P), FitList(n, c, b, S, k)
  PROVE  Local(n)'
<1>1. TypeOK /\ n \notin Over
  BY ActiveFacts DEF IInv
<1>2. Quiet(n)'
  BY DEF Quiet, Takes
<1>3. Unused(n)'
  BY DEF Unused, Takes, Fit
<1>4. InOrder(n)'
  <2> SUFFICES ASSUME kind[n] \in Memory
               PROVE  InOrder(n)'
    BY DEF InOrder, Takes
  <2>1. n \notin P
    BY <1>1 DEF Fit, Memory, Reactive
  <2>2. \A d \in Kids(n) : heard'[d] = heard[d]
    BY <2>1 DEF Takes
  <2>3. kind' = kind /\ idx'[n] = i /\ Kids(n) \cap Ticked' = {c}
    BY DEF Takes
  <2>4. \A d \in Kids(n) : Passed(n, d) => Passed(n, d)'
    BY <2>2, <2>3 DEF Passed, Advancing, Takes
  <2> QED
    BY <2>2, <2>3, <2>4 DEF InOrder, FitMemory
<1>5. Reacting(n)'
  <2> SUFFICES ASSUME kind[n] \in Reactive, NEW d \in Kids(n)
               PROVE  /\ Pos[d] < Pos[c] => heard'[d] = Advancing(n)
                      /\ Pos[d] > Pos[c] => heard'[d] = "none"
    BY DEF Reacting, Advancing, Takes
  <2> QED
    BY DEF FitReactive, Takes
<1>6. Listed(n)'
  <2> SUFFICES ASSUME kind[n] = "Parallel"
               PROVE  Listed(n)'
    BY DEF Listed, Takes
  <2>1. n \notin P /\ S = {}
    BY <1>1 DEF Fit, FitList, Reactive
  <2>2. \A d \in Kids(n) : heard'[d] = heard[d] /\ status'[d] = status[d]
    BY <2>1 DEF Takes
  <2>3. skip'[n] = k /\ Kids(n) \cap Ticked' = {c} /\ k \subseteq Kids(n)
    BY DEF Takes, Fit
  <2>4. \A r : SeenBefore(n, c, r)' = SeenBefore(n, c, r)
    BY <2>2 DEF SeenBefore
  <2>5. c \in k => Fresh(c)'
    BY DEF FitList, Fresh, Takes
  <2>6. /\ \A d \in k : heard[d] = status[d] /\ status[d] \in Decided
        /\ \A d \in Kids(n) \ k : status[d] \notin Decided /\ heard[d] \in {"none", "RUNNING"}
        /\ \A d \in Kids(n) : Pos[d] < Pos[c] => heard[d] # "none"
        /\ Cardinality(SeenBefore(n, c, "SUCCESS")) < Count[n]
        /\ Cardinality(SeenBefore(n, c, "FAILURE")) <= Len(Children[n]) - Count[n]
    BY DEF FitList
  <2> QED
    BY <2>2, <2>3, <2>4, <2>5, <2>6 DEF Listed
<1>7. TimedOut(n)'
  BY DEF TimedOut, Takes, Fit
<1>8. Marked(n)'
  <2>1. kind[n] = "SubTree" /\ First(n) = c /\ status'[c] = "RUNNING" => s = "RUNNING"
    BY DEF Takes, Fit
  <2>2. First(n)' = First(n)
    BY DEF First
  <2>3. kind[n] \in Marking => s = "RUNNING"
    BY DEF Fit
  <2> QED
    BY <2>1, <2>2, <2>3 DEF Marked, Takes
<1>9. Closed(n)'
  BY DEF Closed, Takes
<1>10. Settled(n)'
  <2>1. kind[n] # "Sync"
    <3>1. Children[n] # <<>>
      BY DEF Kids
    <3> QED
      BY <1>1, <3>1, KindIs DEF Leaf
  <2> QED
    BY <2>1 DEF Settled, Takes
<1> QED
  BY <1>2, <1>3, <1>4, <1>5, <1>6, <1>7, <1>8, <1>9, <1>10 DEF Local

\* A step down that fits preserves the invariant.
LEMMA Taken ==
  ASSUME IInv, NEW n \in Nodes, Active(n), NEW S \in SUBSET Kids(n),
         NEW c \in Kids(n), NEW b, NEW P, NEW s, NEW i, NEW k,
         Down(n, c, b, S, P, s, i, k), Fit(n, c, b, S, P, s, i, k),
         FitMemory(n, c, i), FitReactive(n, c, P), FitList(n, c, b, S, k)
  PROVE  IInv'
<1>1. Takes(n, c, b, S, P, s, i, k) /\ Elsewhere(n, S, P) /\ TypeOK /\ n \notin Over
  BY DownTakes, DownElsewhere, ActiveFacts DEF IInv
<1>2. \A p \in Nodes : Local(p)'
  BY <1>1, LocalFrame, DownLocal
<1>3. TypeOK' /\ (idx \in [Nodes -> Nat])'
  <2>1. Forget(P, S) \in [Nodes -> Status \cup {"none"}]
    BY HeardTypes
  <2>2. k \in SUBSET Nodes /\ Within(n, i) /\ c \in Nodes
    BY Children1 DEF Fit
  <2>3. s \in Status /\ b \in (Status \cup {"none"}) \ {"IDLE"}
    BY <1>1 DEF Down, Fit, Status, Decided, TypeOK
  <2> QED
    BY <2>1, <2>2, <2>3, TypesAfter DEF Down
<1>4. c \in Nodes /\ c # "outside" /\ c # Root /\ Parent[c] = n
  BY KidOf, TreeAssumption
<1>5. Focus'
  <2>1. b # "none" => n \notin P
    BY <1>1 DEF Fit, Reactive
  <2> QED
    BY <1>1, <1>4, <2>1 DEF Focus, Takes, Fit
<1>6. Verdicts'
  <2>1. b # "none" => Skipped(c)'
    BY <1>1, <1>4 DEF Skipped, Takes, Fit
  <2> QED
    BY <1>1, <2>1 DEF Verdicts, Takes
<1> QED
  BY <1>2, <1>3, <1>5, <1>6 DEF IInv
-----------------------------------------------------------------------------
(* The first half of a tick: the steps at a node that is ticked.           *)

LEMMA NoHalt ==
  ASSUME IInv
  PROVE  /\ StatusAfter({}) = status /\ IdxAfter({}) = idx /\ SkipAfter({}) = skip
         /\ Forget({}, {}) = heard
<1>1. status \in [Nodes -> Status] /\ skip \in [Nodes -> SUBSET Nodes]
      /\ heard \in [Nodes -> Status \cup {"none"}] /\ idx \in [Nodes -> Nat]
  BY DEF IInv, TypeOK
<1>2. \A n : ~Reaches({}, n) /\ ~Halts({}, n)
  BY DEF Reaches, Halts
<1> QED
  BY <1>1, <1>2 DEF StatusAfter, IdxAfter, SkipAfter, Forget

\* The node n is about to be ticked.
LEMMA TickFacts ==
  ASSUME IInv, NEW n \in Nodes, at = n, back = "none"
  PROVE  /\ Active(n) /\ Over = {} /\ n \notin Path
         /\ \A d \in Kids(n) : ~Fresh(d)
         /\ idx[n] \in Nat /\ Within(n, idx[n]) /\ skip[n] \subseteq Nodes
         /\ status[n] \in Status
<1>1. n # "outside" /\ n \notin Above[n]
  BY NotAboveItself, TreeAssumption
<1> QED
  BY <1>1 DEF Active, Over, Path, Fresh, IInv, TypeOK, Within

\* The first child of an inner node.
LEMMA FirstKid ==
  ASSUME TypeOK, NEW n \in Nodes, kind[n] \notin Leaf
  PROVE  /\ First(n) \in Kids(n) /\ Pos[First(n)] = 1
         /\ kind[n] \in Decorator => Kids(n) = {First(n)}
<1>1. Len(Children[n]) > 0 /\ Len(Children[n]) \in Nat
  BY KindIs, Children1
<1>2. First(n) \in Kids(n) /\ Pos[First(n)] = 1
  BY <1>1, ChildAt DEF First
<1>3. ASSUME kind[n] \in Decorator
      PROVE  Kids(n) = {First(n)}
  <2>1. Len(Children[n]) = 1
    BY <1>3, KindIs
  <2>2. \A d \in Kids(n) : d = First(n)
    BY <2>1, KidOf DEF First
  <2> QED
    BY <1>2, <2>2
<1> QED
  BY <1>2, <1>3

LEMMA TickLeafStep ==
  ASSUME IInv, NEW n \in Nodes, TickLeaf(n)
  PROVE  IInv'
<1>1. at = n /\ back = "none" /\ kind[n] \in Leaf /\ TypeOK
  BY DEF TickLeaf, Ticks, IInv
<1>2. Active(n) /\ status[n] \in Status
  BY <1>1, TickFacts
<1>3. Kids(n) = {}
  BY <1>1, KindIs DEF Kids
<1>4. PICK x \in Results[n] :
        /\ kind[n] = "Sync" => x # "RUNNING"
        /\ Return(n, IF kind[n] = "Stateful" /\ status[n] \in Decided
                     THEN status[n] ELSE x, {}, 0, {})
  BY DEF TickLeaf
<1> DEFINE r == IF kind[n] = "Stateful" /\ status[n] \in Decided THEN status[n] ELSE x
<1>5. r \in {"RUNNING"} \cup Decided /\ (kind[n] = "Sync" => r # "RUNNING")
  <2>1. n \in Leaves
    BY <1>1, KindIs DEF Leaves
  <2> QED
    BY <1>4, <2>1, KindAssumption DEF Decided
<1>6. Return(n, r, {}, 0, {})
  BY <1>4
<1> HIDE DEF r
<1>7. Within(n, 0)
  BY <1>1, KindIs, Children1 DEF Within
<1>8. Proper(n, r, {}, 0, {})
  BY <1>1, <1>3, <1>5, <1>7 DEF Proper, Leaf
<1>9. ProperMemory(n, r, 0) /\ ProperList(n, r, {}, {}) /\ Promise(n, r)
  BY <1>1 DEF ProperMemory, ProperList, Promise, Leaf, Memory, Reactive
<1> QED
  BY <1>2, <1>6, <1>8, <1>9, Returned

LEMMA TickExpiredStep ==
  ASSUME IInv, NEW n \in Nodes, TickExpired(n)
  PROVE  IInv'
<1>1. /\ at = n /\ back = "none" /\ kind[n] = "Timeout" /\ idx[n] = 2 /\ TypeOK
      /\ Return(n, "FAILURE", {}, 0, {})
  BY DEF TickExpired, Ticks, IInv
<1>2. Active(n)
  BY <1>1, TickFacts
<1>3. \A d \in Kids(n) : status[d] # "RUNNING"
  <2>1. Kids(n) = {First(n)}
    BY <1>1, FirstKid DEF Leaf, Decorator
  <2>2. status[First(n)] # "RUNNING"
    BY <1>1 DEF IInv, Local, TimedOut
  <2> QED
    BY <2>1, <2>2
<1>4. Proper(n, "FAILURE", {}, 0, {})
  BY <1>1, <1>3 DEF Proper, Decided, Within, Control, Memory, Reactive
<1>5. /\ ProperMemory(n, "FAILURE", 0) /\ ProperList(n, "FAILURE", {}, {})
      /\ Promise(n, "FAILURE")
  BY <1>1 DEF ProperMemory, ProperList, Promise, Memory, Reactive
<1> QED
  BY <1>1, <1>2, <1>4, <1>5, Returned

LEMMA GateClosesStep ==
  ASSUME Contained, IInv, NEW n \in Nodes, GateCloses(n)
  PROVE  IInv'
<1> DEFINE S == {c \in Kids(n) : kind[n] = "BlackboardCheck" \/ status[c] \in Decided}
<1>1. /\ at = n /\ back = "none" /\ kind[n] \in Gate /\ TypeOK
  BY DEF GateCloses, Ticks, IInv
<1>8. PICK r \in Mismatch(n) : Return(n, r, S, 0, {})
  BY DEF GateCloses
<1>7. r \in {"RUNNING"} \cup Decided
  BY DEF Mismatch, Decided
<1>2. Active(n) /\ S \subseteq Kids(n)
  BY <1>1, TickFacts
<1>3. ASSUME NEW d \in Kids(n) \ S
      PROVE  status[d] # "RUNNING"
  <2>1. kind[n] = "DECO_CounterAttackCheck" /\ d = First(n)
    BY <1>1, <1>3, FirstKid DEF Gate, Leaf, Decorator
  <2>2. n \notin Leaves /\ kind \in Kinds
    BY <1>1, <1>3 DEF Leaves, Kids, TypeOK
  <2>3. kind[d] = "Sync"
    BY <2>1, <2>2 DEF Contained
  <2>4. d \in Nodes
    BY KidOf
  <2> QED
    BY <2>3, <2>4 DEF IInv, Local, Settled
<1> HIDE DEF S
<1>4. Within(n, 0)
  BY <1>1, KindIs, Children1 DEF Within
<1>5. Proper(n, r, S, 0, {})
  BY <1>1, <1>3, <1>4, <1>7 DEF Proper, Gate
<1>6. ProperMemory(n, r, 0) /\ ProperList(n, r, S, {}) /\ Promise(n, r)
  BY <1>1 DEF ProperMemory, ProperList, Promise, Memory, Reactive, Gate
<1> QED
  BY <1>2, <1>5, <1>6, <1>8, Returned

LEMMA DownHere ==
  ASSUME IInv, NEW n \in Nodes, NEW c, NEW b, NEW P, NEW s, NEW i, NEW k,
         at' = c, back' = b, kind' = kind,
         status' = [status EXCEPT ![n] = s], idx' = [idx EXCEPT ![n] = i],
         skip' = [skip EXCEPT ![n] = k], heard' = Forget(P, {}),
         P = Over \/ (P = {n} /\ back = "none"), s \in {status[n], "RUNNING"}
  PROVE  Down(n, c, b, {}, P, s, i, k)
  BY NoHalt DEF Down

LEMMA Unchanged ==
  ASSUME IInv, NEW n \in Nodes
  PROVE  /\ status = [status EXCEPT ![n] = status[n]]
         /\ idx = [idx EXCEPT ![n] = idx[n]]
         /\ skip = [skip EXCEPT ![n] = skip[n]]
  BY DEF IInv, TypeOK

LEMMA TickMemoryStep ==
  ASSUME IInv, NEW n \in Nodes, TickMemory(n)
  PROVE  IInv'
<1> DEFINE c == Children[n][idx[n] + 1]
<1>1. /\ at = n /\ back = "none" /\ kind[n] \in Memory /\ TypeOK
      /\ at' = c /\ back' = "none" /\ heard' = Forget(Over, {})
      /\ kind' = kind /\ skip' = skip /\ idx' = idx
      /\ status' = [status EXCEPT ![n] = "RUNNING"]
  BY DEF TickMemory, Ticks, Descend, IInv
<1>2. /\ Active(n) /\ n \notin Over /\ idx[n] \in Nat /\ Within(n, idx[n])
      /\ \A d \in Kids(n) : ~Fresh(d)
  BY <1>1, TickFacts
<1>3. InOrder(n) /\ Unused(n)
  BY DEF IInv, Local
<1>4. skip[n] = {}
  BY <1>1, <1>3 DEF Unused, Memory
<1>5. c \in Kids(n) /\ Pos[c] = idx[n] + 1
  <2>1. idx[n] + 1 \in 1 .. Len(Children[n])
    BY <1>1, <1>2, <1>3, Children1 DEF InOrder
  <2> QED
    BY <2>1, ChildAt
<1> HIDE DEF c
<1>6. Down(n, c, "none", {}, Over, "RUNNING", idx[n], {})
  BY <1>1, <1>4, DownHere, Unchanged
<1>7. Fit(n, c, "none", {}, Over, "RUNNING", idx[n], {})
  BY <1>1, <1>2, <1>4 DEF Fit, Memory
<1>8. FitMemory(n, c, idx[n])
  BY <1>2, <1>3, <1>5 DEF FitMemory, InOrder
<1>9. FitReactive(n, c, Over) /\ FitList(n, c, "none", {}, {})
  BY <1>1 DEF FitReactive, FitList, Memory, Reactive
<1> QED
  BY <1>2, <1>5, <1>6, <1>7, <1>8, <1>9, Taken

LEMMA TickReactiveStep ==
  ASSUME IInv, NEW n \in Nodes, TickReactive(n)
  PROVE  IInv'
<1> DEFINE c == First(n)
<1>1. /\ at = n /\ back = "none" /\ kind[n] \in Reactive /\ TypeOK
      /\ at' = c /\ back' = "none" /\ heard' = Forget({n}, {})
      /\ kind' = kind /\ skip' = skip /\ idx' = idx /\ status' = status
  BY DEF TickReactive, Ticks, IInv
<1>2. Active(n) /\ Within(n, idx[n])
  BY <1>1, TickFacts
<1>3. skip[n] = {}
  BY <1>1 DEF IInv, Local, Unused, Reactive
<1>4. c \in Kids(n) /\ Pos[c] = 1
  BY <1>1, FirstKid DEF Reactive, Leaf
<1> HIDE DEF c
<1>5. Down(n, c, "none", {}, {n}, status[n], idx[n], {})
  BY <1>1, <1>3, DownHere, Unchanged
<1>6. Fit(n, c, "none", {}, {n}, status[n], idx[n], {})
  BY <1>1, <1>2, <1>3 DEF Fit, Reactive, Marking, Memory, Wrapper
<1>7. FitReactive(n, c, {n})
  <2>1. \A d \in Kids(n) : Pos[d] >= 1 /\ Pos[d] \in Nat
    BY KidOf, Children1
  <2> QED
    BY <1>4, <2>1 DEF FitReactive
<1>8. FitMemory(n, c, idx[n]) /\ FitList(n, c, "none", {}, {})
  BY <1>1 DEF FitMemory, FitList, Memory, Reactive
<1> QED
  BY <1>2, <1>4, <1>5, <1>6, <1>7, <1>8, Taken

LEMMA TickParallelStep ==
  ASSUME IInv, NEW n \in Nodes, TickParallel(n)
  PROVE  IInv'
<1> DEFINE c == First(n)
           b == IF c \in skip[n] THEN status[c] ELSE "none"
<1>1. /\ at = n /\ back = "none" /\ kind[n] = "Parallel" /\ TypeOK
      /\ at' = c /\ back' = b /\ heard' = heard
      /\ kind' = kind /\ skip' = skip /\ idx' = idx /\ status' = status
  BY DEF TickParallel, Ticks, Consider, IInv
<1>2. /\ Active(n) /\ Over = {} /\ Within(n, idx[n])
      /\ \A d \in Kids(n) : ~Fresh(d)
  BY <1>1, TickFacts
<1>3. /\ skip[n] \subseteq Kids(n)
      /\ \A d \in skip[n] : heard[d] = status[d] /\ status[d] \in Decided
      /\ \A d \in Kids(n) \ skip[n] :
           status[d] \notin Decided /\ heard[d] \in {"none", "RUNNING"}
  BY <1>1, <1>2 DEF IInv, Local, Listed
<1>4. c \in Kids(n) /\ Pos[c] = 1
  BY <1>1, FirstKid DEF Leaf
<1>5. b # "none" => b = status[c] /\ b = heard[c] /\ c \in skip[n] /\ b \in Decided
  BY <1>3
<1>6. c \in skip[n] => b # "none"
  BY <1>3 DEF Decided
<1> HIDE DEF c, b
<1>7. Down(n, c, b, {}, Over, status[n], idx[n], skip[n])
  <2>1. heard' = Forget(Over, {})
    BY <1>1, <1>2, NoHalt
  <2> QED
    BY <1>1, <2>1, DownHere, Unchanged
<1>8. Fit(n, c, b, {}, Over, status[n], idx[n], skip[n])
  BY <1>1, <1>2, <1>3, <1>5 DEF Fit, Marking, Memory, Wrapper
<1>9. FitList(n, c, b, {}, skip[n])
  <2>1. \A d \in Kids(n) : Pos[d] >= 1 /\ Pos[d] \in Nat
    BY KidOf, Children1
  <2>2. \A r : SeenBefore(n, c, r) = {}
    BY <1>4, <2>1 DEF SeenBefore
  <2>3. Cardinality({}) = 0
    BY FS_EmptySet
  <2>4. \A r : Cardinality(SeenBefore(n, c, r)) = 0
    BY <2>2, <2>3
  <2>5. Count[n] \in 1 .. Len(Children[n]) /\ Len(Children[n]) \in Nat
    BY <1>1, KindIs, Children1
  <2>6. \A d \in Kids(n) : ~(Pos[d] < Pos[c])
    BY <1>4, <2>1
  <2> QED
    BY <1>3, <1>6, <2>4, <2>5, <2>6 DEF FitList
<1>10. FitMemory(n, c, idx[n]) /\ FitReactive(n, c, Over)
  BY <1>1 DEF FitMemory, FitReactive, Memory, Reactive
<1> QED
  BY <1>2, <1>4, <1>7, <1>8, <1>9, <1>10, Taken

LEMMA TickSwitchStep ==
  ASSUME IInv, NEW n \in Nodes, TickSwitch(n)
  PROVE  IInv'
<1>1. at = n /\ back = "none" /\ kind[n] = "Switch" /\ TypeOK
  BY DEF TickSwitch, Ticks, IInv
<1>2. /\ Active(n) /\ Over = {} /\ Within(n, idx[n]) /\ idx[n] \in Nat
  BY <1>1, TickFacts
<1> DEFINE Old(i) == IF idx[n] \in {0, i} THEN {} ELSE {Children[n][idx[n]]}
<1>3. PICK i \in DOMAIN Children[n] :
        /\ at' = Children[n][i]
        /\ status' = StatusAfter(Old(i))
        /\ idx' = IdxAfter(Old(i))
        /\ skip' = SkipAfter(Old(i))
        /\ heard' = HeardAfter(Old(i))
        /\ kind' = kind /\ back' = back
  BY DEF TickSwitch
<1> DEFINE S == Old(i)
           c == Children[n][i]
<1>4. i \in 1 .. Len(Children[n])
  BY Children1
<1>5. c \in Kids(n) /\ Pos[c] = i
  BY <1>4, ChildAt
<1>6. S \subseteq Kids(n) /\ c \notin S
  <2> SUFFICES ASSUME idx[n] # 0, idx[n] # i
               PROVE  Children[n][idx[n]] \in Kids(n) /\ Children[n][idx[n]] # c
    OBVIOUS
  <2>1. idx[n] \in 1 .. Len(Children[n])
    BY <1>1, <1>2, Children1 DEF Within, Control
  <2>2. Children[n][idx[n]] \in Kids(n) /\ Pos[Children[n][idx[n]]] = idx[n]
    BY <2>1, ChildAt
  <2> QED
    BY <1>5, <2>2
<1>7. /\ at' = c /\ back' = "none" /\ kind' = kind
      /\ status' = StatusAfter(S) /\ idx' = IdxAfter(S) /\ skip' = SkipAfter(S)
      /\ heard' = Forget(Over, S)
  BY <1>1, <1>3 DEF HeardAfter
<1> HIDE DEF S, c
<1>8. skip[n] = {}
  BY <1>1 DEF IInv, Local, Unused
<1>9. Down(n, c, "none", S, Over, status[n], idx[n], {})
  <2>1. ~Reaches(S, n) /\ ~Halts(S, n)
    BY <1>6, ReachesBelow DEF Halts
  <2>2. /\ StatusAfter(S) = [StatusAfter(S) EXCEPT ![n] = status[n]]
        /\ IdxAfter(S) = [IdxAfter(S) EXCEPT ![n] = idx[n]]
        /\ SkipAfter(S) = [SkipAfter(S) EXCEPT ![n] = skip[n]]
    BY <2>1 DEF StatusAfter, IdxAfter, SkipAfter
  <2> QED
    BY <1>7, <1>8, <2>2 DEF Down
<1>10. Fit(n, c, "none", S, Over, status[n], idx[n], {})
  BY <1>1, <1>2, <1>6 DEF Fit, Marking, Memory, Wrapper
<1>11. FitMemory(n, c, idx[n]) /\ FitReactive(n, c, Over) /\ FitList(n, c, "none", S, {})
  BY <1>1 DEF FitMemory, FitReactive, FitList, Memory, Reactive
<1> QED
  BY <1>2, <1>5, <1>6, <1>9, <1>10, <1>11, Taken

\* Decorators that tick their child, once, and keep their count.
LEMMA DecoratorDown ==
  ASSUME IInv, NEW n \in Nodes, at = n, back = "none", kind[n] \in Decorator,
         NEW s, NEW i, at' = First(n), back' = "none", heard' = Forget(Over, {}),
         kind' = kind, skip' = skip, status' = [status EXCEPT ![n] = s],
         idx' = [idx EXCEPT ![n] = i],
         Within(n, i), kind[n] = "Timeout" => i # 2, kind[n] = "SubTree" => i = 0,
         s \in {status[n], "RUNNING"},
         kind[n] \in Marking \/ (kind[n] = "SubTree" /\ status[First(n)] = "RUNNING")
           => s = "RUNNING"
  PROVE  IInv'
<1>1. Active(n) /\ TypeOK
  BY TickFacts DEF IInv
<1>2. First(n) \in Kids(n)
  BY <1>1, FirstKid DEF Decorator, Wrapper, Gate, Leaf
<1>3. skip[n] = {}
  BY DEF IInv, Local, Unused, Decorator, Wrapper, Gate
<1>4. Down(n, First(n), "none", {}, Over, s, i, {})
  BY <1>3, DownHere, Unchanged
<1>5. Fit(n, First(n), "none", {}, Over, s, i, {})
  BY DEF Fit, Decorator, Wrapper, Gate
<1>6. /\ FitMemory(n, First(n), i) /\ FitReactive(n, First(n), Over)
      /\ FitList(n, First(n), "none", {}, {})
  BY DEF FitMemory, FitReactive, FitList, Memory, Reactive, Decorator, Wrapper, Gate
<1> QED
  BY <1>1, <1>2, <1>4, <1>5, <1>6, Taken

LEMMA TickWrapperStep ==
  ASSUME IInv, NEW n \in Nodes, TickWrapper(n)
  PROVE  IInv'
<1> DEFINE s == IF kind[n] = "SubTree" /\ status[n] # "IDLE" THEN status[n] ELSE "RUNNING"
<1>1. /\ at = n /\ back = "none" /\ kind[n] \in Wrapper /\ TypeOK
      /\ at' = First(n) /\ back' = "none" /\ heard' = Forget(Over, {})
      /\ kind' = kind /\ skip' = skip /\ idx' = idx
      /\ status' = [status EXCEPT ![n] = s]
  BY DEF TickWrapper, Ticks, Descend, IInv, TypeOK
<1>2. n \notin Path /\ Within(n, idx[n]) /\ idx' = [idx EXCEPT ![n] = idx[n]]
  BY <1>1, TickFacts, Unchanged
<1>3. kind[n] \in Decorator /\ kind[n] # "Timeout" /\ (kind[n] = "SubTree" => idx[n] = 0)
  BY <1>1 DEF Decorator, Wrapper, IInv, Local, Unused
<1>4. s \in {status[n], "RUNNING"}
  OBVIOUS
<1>5. kind[n] \in Marking \/ (kind[n] = "SubTree" /\ status[First(n)] = "RUNNING")
        => s = "RUNNING"
  <2>1. First(n) \in Kids(n)
    BY <1>1, <1>3, FirstKid DEF Wrapper, Leaf
  <2>2. status[First(n)] = "RUNNING" => status[n] = "RUNNING"
    BY <1>2, <2>1 DEF IInv, Local, Closed
  <2> QED
    BY <2>2 DEF Marking, Memory, Wrapper
<1> HIDE DEF s
<1> QED
  BY <1>1, <1>2, <1>3, <1>4, <1>5, DecoratorDown

LEMMA TickTimeoutStep ==
  ASSUME IInv, NEW n \in Nodes, TickTimeout(n)
  PROVE  IInv'
<1>1. /\ at = n /\ back = "none" /\ kind[n] = "Timeout"
      /\ at' = First(n) /\ back' = "none" /\ heard' = Forget(Over, {})
      /\ kind' = kind /\ skip' = skip
      /\ status' = [status EXCEPT ![n] = "RUNNING"] /\ idx' = [idx EXCEPT ![n] = 1]
  BY DEF TickTimeout, Ticks, Descend
<1>2. kind[n] \in Decorator /\ Within(n, 1)
  BY <1>1 DEF Decorator, Within, Control, Memory, Reactive
<1>3. kind[n] # "SubTree"
  BY <1>1
<1> DEFINE s == "RUNNING"
           i == 1
<1>4. /\ status' = [status EXCEPT ![n] = s] /\ idx' = [idx EXCEPT ![n] = i]
      /\ Within(n, i) /\ i # 2 /\ s \in {status[n], "RUNNING"} /\ s = "RUNNING"
  BY <1>1, <1>2
<1> HIDE DEF s, i
<1> QED
  BY <1>1, <1>2, <1>3, <1>4, DecoratorDown

LEMMA GateOpensStep ==
  ASSUME IInv, NEW n \in Nodes, GateOpens(n)
  PROVE  IInv'
<1> DEFINE s == IF kind[n] = "BlackboardCheck" THEN "RUNNING" ELSE status[n]
<1>1. /\ at = n /\ back = "none" /\ kind[n] \in Gate /\ TypeOK
      /\ at' = First(n) /\ back' = "none" /\ heard' = Forget(Over, {})
      /\ kind' = kind /\ skip' = skip /\ idx' = idx
      /\ status' = [status EXCEPT ![n] = s]
  BY DEF GateOpens, Ticks, Descend, IInv, TypeOK
<1>2. Within(n, idx[n]) /\ idx' = [idx EXCEPT ![n] = idx[n]]
  BY <1>1, TickFacts, Unchanged
<1>3. kind[n] \in Decorator /\ kind[n] \notin {"Timeout", "SubTree"}
  BY <1>1 DEF Decorator, Gate
<1>4. s \in {status[n], "RUNNING"}
  OBVIOUS
<1>5. kind[n] \in Marking => s = "RUNNING"
  BY <1>1 DEF Marking, Gate, Memory, Wrapper
<1> HIDE DEF s
<1> QED
  BY <1>1, <1>2, <1>3, <1>4, <1>5, DecoratorDown
-----------------------------------------------------------------------------
(* The second half: the steps of a node n whose child c has come to a      *)
(* result.                                                                 *)

LEMMA HearsFacts ==
  ASSUME IInv, NEW c \in Nodes, at = c, c # Root, back # "none"
  PROVE  /\ Parent[c] \in Nodes /\ c \in Kids(Parent[c]) /\ Active(Parent[c])
         /\ status[c] = back /\ heard[c] = back
         /\ back \in {"RUNNING"} \cup Decided
         /\ Parent[c] \in Path /\ Parent[c] \notin Over /\ c \in Ticked
         /\ \A d \in Kids(Parent[c]) : Fresh(d) => d = c
         /\ Pos[c] \in 1 .. Len(Children[Parent[c]]) /\ Len(Children[Parent[c]]) \in Nat
         /\ \A d \in Kids(Parent[c]) : Pos[d] \in 1 .. Len(Children[Parent[c]])
         /\ \A d \in Kids(Parent[c]) : Pos[d] = Pos[c] => d = c
         /\ idx[Parent[c]] \in Nat /\ Within(Parent[c], idx[Parent[c]])
         /\ kind[Parent[c]] \notin Leaf
<1> DEFINE n == Parent[c]
<1>1. n \in Nodes /\ c \in Kids(n)
  BY ParentOf
<1>2. Active(n)
  BY <1>1 DEF Active
<1>3. n \in Path /\ n \notin Over /\ c \in Ticked
  <2>1. Above[c] = {n} \cup Above[n] /\ c # "outside"
    BY <1>1, AboveKid, TreeAssumption
  <2> QED
    BY <1>1, <1>2, <2>1, ActiveFacts DEF Path, Ticked
<1>4. status[c] = back /\ heard[c] = back /\ back \in {"RUNNING"} \cup Decided
  BY DEF IInv, Focus, TypeOK, Decided, Status
<1>5. \A d \in Kids(n) : Pos[d] \in 1 .. Len(Children[n]) /\ Children[n][Pos[d]] = d
  BY <1>1, KidOf
<1>6. idx[n] \in Nat /\ Within(n, idx[n])
  BY <1>1 DEF IInv, TypeOK, Within
<1>7. kind[n] \notin Leaf
  <2>1. Children[n] # <<>>
    BY <1>1 DEF Kids
  <2> QED
    BY <1>1, <2>1, KindIs DEF IInv
<1> QED
  BY <1>1, <1>2, <1>3, <1>4, <1>5, <1>6, <1>7, Children1 DEF Fresh

\* A child that has not let its parent go on is the last one heard.
LEMMA PromiseAt ==
  ASSUME NEW n \in Nodes, NEW c \in Kids(n), NEW r, r # Advancing(n), heard[c] = r,
         \A d \in Kids(n) : /\ Pos[d] < Pos[c] => heard[d] = Advancing(n)
                            /\ Pos[d] > Pos[c] => heard[d] = "none"
  PROVE  SequencePromise(n, r)
<1> DEFINE h(i) == heard[Children[n][i]]
           i == Pos[c]
<1>1. DOMAIN Children[n] = 1 .. Len(Children[n]) /\ Len(Children[n]) \in Nat
  BY Children1
<1>2. i \in 1 .. Len(Children[n]) /\ h(i) = r
  BY KidOf
<1>3. \A j \in 1 .. Len(Children[n]) :
        Children[n][j] \in Kids(n) /\ Pos[Children[n][j]] = j
  BY ChildAt
<1>4. \A j \in 1 .. i - 1 : h(j) = Advancing(n)
  BY <1>1, <1>2, <1>3
<1>5. \A j \in 1 .. Len(Children[n]) : j > i => h(j) = "none"
  BY <1>3
<1> QED
  BY <1>1, <1>2, <1>4, <1>5 DEF SequencePromise

\* All children have let their parent go on.
LEMMA PromiseAll ==
  ASSUME NEW n \in Nodes, NEW r, r = Advancing(n), \A d \in Kids(n) : heard[d] = r
  PROVE  SequencePromise(n, r)
<1>1. \A i \in DOMAIN Children[n] : heard[Children[n][i]] = r
  BY DEF Kids
<1> QED
  BY <1>1 DEF SequencePromise

\* What the parent of c has heard before and behind c, if it is a loop over its
\* children.
LEMMA Loop ==
  ASSUME IInv, NEW c \in Nodes, at = c, c # Root, back # "none",
         NEW n, n = Parent[c], kind[n] \in Memory \cup Reactive
  PROVE  /\ \A d \in Kids(n) : /\ Pos[d] < Pos[c] => heard[d] = Advancing(n)
                               /\ Pos[d] > Pos[c] => heard[d] = "none"
         /\ kind[n] \in Memory =>
              /\ Pos[c] = idx[n] + 1 /\ idx[n] < Len(Children[n])
              /\ \A d \in Kids(n) : Pos[d] <= idx[n] => Passed(n, d)
         /\ skip[n] = {}
<1>1. /\ n \in Nodes /\ c \in Kids(n) /\ c \in Ticked /\ n \notin Over /\ idx[n] \in Nat
      /\ \A d \in Kids(n) : Pos[d] \in Nat
  BY HearsFacts
<1>2. InOrder(n) /\ Reacting(n) /\ Unused(n)
  BY <1>1 DEF IInv, Local
<1>3. skip[n] = {}
  BY <1>2 DEF Unused, Memory, Reactive
<1>4. CASE kind[n] \in Memory
  <2>1. /\ Pos[c] = idx[n] + 1 /\ idx[n] < Len(Children[n])
        /\ \A d \in Kids(n) : /\ Pos[d] <= idx[n] => Passed(n, d)
                              /\ Pos[d] > idx[n] + 1 => heard[d] = "none"
    BY <1>1, <1>2, <1>4 DEF InOrder
  <2> QED
    BY <1>1, <1>3, <2>1 DEF Passed
<1>5. CASE kind[n] \in Reactive
  BY <1>1, <1>2, <1>3, <1>5 DEF Reacting, Reactive, Memory
<1> QED
  BY <1>4, <1>5

LEMMA ChildRunningStep ==
  ASSUME IInv, NEW c \in Nodes, at = c, ChildRunning(c)
  PROVE  IInv'
<1> DEFINE n == Parent[c]
<1>1. /\ c # Root /\ kind[n] \in Memory \cup Decorator /\ back = "RUNNING"
      /\ Return(n, "RUNNING", {}, idx[n], {})
  BY DEF ChildRunning, Hears
<1>2. /\ n \in Nodes /\ c \in Kids(n) /\ Active(n) /\ heard[c] = back /\ n \in Path
      /\ \A d \in Kids(n) : Pos[d] = Pos[c] => d = c
      /\ Within(n, idx[n])
  BY <1>1, HearsFacts
<1> HIDE DEF n
<1>3. Proper(n, "RUNNING", {}, idx[n], {})
  <2>1. Unused(n) /\ TimedOut(n)
    BY <1>2 DEF IInv, Local
  <2> QED
    BY <1>1, <1>2, <2>1 DEF Proper, Stays, Unused, TimedOut, Memory, Decorator, Wrapper, Gate
<1>4. ProperMemory(n, "RUNNING", idx[n])
  <2> SUFFICES ASSUME kind[n] \in Memory
               PROVE  ProperMemory(n, "RUNNING", idx[n])
    BY DEF ProperMemory
  <2>1. /\ Pos[c] = idx[n] + 1 /\ idx[n] < Len(Children[n])
        /\ \A d \in Kids(n) : /\ Pos[d] <= idx[n] => Passed(n, d)
                              /\ Pos[d] > Pos[c] => heard[d] = "none"
    BY <1>1, <1>2, Loop DEF n
  <2> QED
    BY <1>1, <1>2, <2>1 DEF ProperMemory
<1>5. Promise(n, "RUNNING")
  <2>1. ASSUME kind[n] \in Memory \cup Reactive
        PROVE  SequencePromise(n, "RUNNING")
    <3>1. \A d \in Kids(n) : /\ Pos[d] < Pos[c] => heard[d] = Advancing(n)
                             /\ Pos[d] > Pos[c] => heard[d] = "none"
      BY <1>1, <1>2, <2>1, Loop DEF n
    <3>2. "RUNNING" # Advancing(n)
      BY DEF Advancing
    <3> QED
      BY <1>1, <1>2, <3>1, <3>2, PromiseAt
  <2> QED
    BY <1>1, <2>1 DEF Promise, Memory, Decorator, Wrapper, Gate
<1>6. ProperList(n, "RUNNING", {}, {})
  BY <1>1 DEF ProperList, Memory, Decorator, Wrapper, Gate
<1> QED
  BY <1>1, <1>2, <1>3, <1>4, <1>5, <1>6, Returned

LEMMA ReactiveRunningStep ==
  ASSUME IInv, NEW c \in Nodes, at = c, ReactiveRunning(c)
  PROVE  IInv'
<1> DEFINE n == Parent[c]
           S == From(c) \ {c}
<1>1. /\ c # Root /\ kind[n] \in Reactive /\ back = "RUNNING"
      /\ Return(n, "RUNNING", S, 0, {})
  BY DEF ReactiveRunning, Hears
<1>2. /\ n \in Nodes /\ c \in Kids(n) /\ Active(n) /\ heard[c] = back
      /\ S \subseteq Kids(n) /\ TypeOK
  BY <1>1, HearsFacts DEF From, IInv
<1>3. \A d \in Kids(n) : /\ Pos[d] < Pos[c] => heard[d] = Advancing(n)
                         /\ Pos[d] > Pos[c] => heard[d] = "none"
  BY <1>1, Loop
<1> HIDE DEF n, S
<1>4. Within(n, 0)
  BY <1>2, KindIs, Children1 DEF Within
<1>5. Proper(n, "RUNNING", S, 0, {})
  BY <1>1, <1>4 DEF Proper, Stays, Reactive
<1>6. Promise(n, "RUNNING")
  <2>1. "RUNNING" # Advancing(n)
    BY DEF Advancing
  <2>2. SequencePromise(n, "RUNNING")
    BY <1>1, <1>2, <1>3, <2>1, PromiseAt
  <2> QED
    BY <1>1, <2>2 DEF Promise, Reactive
<1>7. ProperMemory(n, "RUNNING", 0) /\ ProperList(n, "RUNNING", S, {})
  BY <1>1 DEF ProperMemory, ProperList, Memory, Reactive
<1> QED
  BY <1>1, <1>2, <1>5, <1>6, <1>7, Returned

LEMMA NextChildStep ==
  ASSUME IInv, NEW c \in Nodes, at = c, NextChild(c)
  PROVE  IInv'
<1> DEFINE n == Parent[c]
           e == Sibling(c)
           i == IF kind[n] \in Memory THEN idx[n] + 1 ELSE idx[n]
<1>1. /\ c # Root /\ kind[n] \in Memory \cup Reactive /\ back = Advancing(n)
      /\ back # "none" /\ back # "RUNNING" /\ Pos[c] # Len(Children[n])
      /\ at' = e /\ back' = "none" /\ heard' = Forget(Over, {})
      /\ kind' = kind /\ skip' = skip /\ status' = status
      /\ idx' = [idx EXCEPT ![n] = i]
  BY DEF NextChild, Hears, Descend, IsLast, Advancing
<1>2. /\ n \in Nodes /\ c \in Kids(n) /\ Active(n) /\ status[c] = back /\ heard[c] = back
      /\ n \in Path /\ n \notin Over
      /\ Pos[c] \in 1 .. Len(Children[n]) /\ Len(Children[n]) \in Nat
      /\ \A d \in Kids(n) : Pos[d] \in 1 .. Len(Children[n])
      /\ \A d \in Kids(n) : Pos[d] = Pos[c] => d = c
      /\ idx[n] \in Nat /\ Within(n, idx[n])
  BY <1>1, HearsFacts
<1>3. /\ \A d \in Kids(n) : /\ Pos[d] < Pos[c] => heard[d] = Advancing(n)
                            /\ Pos[d] > Pos[c] => heard[d] = "none"
      /\ kind[n] \in Memory =>
           /\ Pos[c] = idx[n] + 1 /\ idx[n] < Len(Children[n])
           /\ \A d \in Kids(n) : Pos[d] <= idx[n] => Passed(n, d)
      /\ skip[n] = {}
  BY <1>1, Loop
<1>4. e \in Kids(n) /\ Pos[e] = Pos[c] + 1
  <2>1. Pos[c] + 1 \in 1 .. Len(Children[n])
    BY <1>1, <1>2
  <2> QED
    BY <1>2, <2>1, ChildAt DEF Sibling
<1>5. Passed(n, c)
  BY <1>1, <1>2 DEF Passed
<1>6. Within(n, i)
  <2>1. CASE kind[n] \in Memory
    BY <1>2, <1>3, <2>1 DEF Within, Control
  <2>2. CASE kind[n] \notin Memory
    BY <1>2, <2>2
  <2> QED
    BY <2>1, <2>2
<1>7. /\ kind[n] \in Memory => i = idx[n] + 1
      /\ i \in Nat
  BY <1>2
<1> HIDE DEF n, e, i
<1>8. Down(n, e, "none", {}, Over, status[n], i, {})
  <2>1. status' = [status EXCEPT ![n] = status[n]] /\ skip' = [skip EXCEPT ![n] = {}]
    BY <1>1, <1>2, <1>3, Unchanged
  <2> QED
    BY <1>1, <1>2, <2>1, DownHere
<1>9. Fit(n, e, "none", {}, Over, status[n], i, {})
  <2>1. kind[n] \in Marking => status[n] = "RUNNING"
    BY <1>2 DEF IInv, Local, Marked
  <2> QED
    BY <1>1, <1>6, <2>1 DEF Fit, Memory, Reactive
<1>10. FitMemory(n, e, i)
  <2> SUFFICES ASSUME kind[n] \in Memory
               PROVE  FitMemory(n, e, i)
    BY DEF FitMemory
  <2>1. i < Len(Children[n]) /\ Pos[e] = i + 1 /\ Pos[c] = i
    BY <1>1, <1>2, <1>3, <1>4, <1>7
  <2>2. ASSUME NEW d \in Kids(n)
        PROVE  /\ Pos[d] <= i => Passed(n, d)
               /\ Pos[d] >= i + 1 => heard[d] = "none"
    BY <1>2, <1>3, <1>5, <1>7, <2>1
  <2> QED
    BY <1>2, <1>7, <2>1, <2>2 DEF FitMemory
<1>11. FitReactive(n, e, Over)
  <2>1. ASSUME NEW d \in Kids(n)
        PROVE  /\ Pos[d] < Pos[e] => heard[d] = Advancing(n)
               /\ Pos[d] > Pos[e] => heard[d] = "none"
    BY <1>1, <1>2, <1>3, <1>4
  <2> QED
    BY <1>2, <2>1 DEF FitReactive
<1>12. FitList(n, e, "none", {}, {})
  BY <1>1 DEF FitList, Memory, Reactive
<1> QED
  BY <1>2, <1>4, <1>8, <1>9, <1>10, <1>11, <1>12, Taken

LEMMA AllAdvancedStep ==
  ASSUME IInv, NEW c \in Nodes, at = c, AllAdvanced(c)
  PROVE  IInv'
<1> DEFINE n == Parent[c]
<1>1. /\ c # Root /\ kind[n] \in Memory \cup Reactive /\ back = Advancing(n)
      /\ back \in Decided /\ Pos[c] = Len(Children[n])
      /\ Return(n, back, Kids(n), 0, {})
  BY DEF AllAdvanced, Hears, IsLast, Restart, Advancing, Decided
<1>2. /\ n \in Nodes /\ c \in Kids(n) /\ Active(n) /\ heard[c] = back /\ TypeOK
      /\ \A d \in Kids(n) : Pos[d] \in 1 .. Len(Children[n])
      /\ \A d \in Kids(n) : Pos[d] = Pos[c] => d = c
      /\ Len(Children[n]) \in Nat
  BY <1>1, HearsFacts DEF IInv, Decided
<1>3. \A d \in Kids(n) : Pos[d] < Pos[c] => heard[d] = Advancing(n)
  BY <1>1, Loop DEF Decided
<1> HIDE DEF n
<1>4. Promise(n, back)
  <2>1. \A d \in Kids(n) : heard[d] = back
    BY <1>1, <1>2, <1>3
  <2>2. SequencePromise(n, back)
    BY <1>1, <1>2, <2>1, PromiseAll
  <2> QED
    BY <1>1, <2>2 DEF Promise, Memory, Reactive
<1>5. Within(n, 0)
  BY <1>2, KindIs, Children1 DEF Within
<1>6. Proper(n, back, Kids(n), 0, {})
  BY <1>1, <1>5 DEF Proper, Memory, Reactive, Decided
<1>7. ProperMemory(n, back, 0)
  <2>1. 0 < Len(Children[n])
    BY <1>1, <1>2, KidOf, Children1
  <2>2. ~Stays(n, back)
    BY <1>1 DEF Stays, Advancing, Decided
  <2> QED
    BY <2>1, <2>2 DEF ProperMemory
<1>8. ProperList(n, back, Kids(n), {})
  BY <1>1 DEF ProperList, Memory, Reactive
<1> QED
  BY <1>1, <1>2, <1>4, <1>6, <1>7, <1>8, Returned

LEMMA DecidesStep ==
  ASSUME IInv, NEW c \in Nodes, at = c, Decides(c)
  PROVE  IInv'
<1> DEFINE n == Parent[c]
           star == kind[n] = "SequenceStar"
           S == IF star THEN From(c) ELSE Kids(n)
           i == IF star THEN idx[n] ELSE 0
<1>1. /\ c # Root /\ kind[n] \in Memory \cup Reactive /\ back \in Decided
      /\ back # Advancing(n)
      /\ Return(n, back, S, i, {})
  BY DEF Decides, Hears
<1>2. /\ n \in Nodes /\ c \in Kids(n) /\ Active(n) /\ heard[c] = back /\ TypeOK
      /\ \A d \in Kids(n) : Pos[d] \in 1 .. Len(Children[n])
      /\ \A d \in Kids(n) : Pos[d] = Pos[c] => d = c
      /\ Len(Children[n]) \in Nat
      /\ Within(n, idx[n]) /\ idx[n] \in Nat
      /\ S \subseteq Kids(n)
      /\ \A d \in Kids(n) : star /\ d \notin S => Pos[d] < Pos[c]
  BY <1>1, HearsFacts DEF IInv, Decided, From
<1>3. /\ \A d \in Kids(n) : /\ Pos[d] < Pos[c] => heard[d] = Advancing(n)
                            /\ Pos[d] > Pos[c] => heard[d] = "none"
      /\ kind[n] \in Memory =>
           /\ Pos[c] = idx[n] + 1 /\ idx[n] < Len(Children[n])
           /\ \A d \in Kids(n) : Pos[d] <= idx[n] => Passed(n, d)
  BY <1>1, Loop DEF Decided
<1>4. /\ star => back = "FAILURE" /\ i = idx[n] /\ kind[n] \in Memory
      /\ ~star => i = 0 /\ S = Kids(n)
  BY <1>1 DEF Advancing, Decided, Memory
<1> HIDE DEF n, star, S, i
<1>5. Promise(n, back)
  <2>1. SequencePromise(n, back)
    BY <1>1, <1>2, <1>3, PromiseAt
  <2> QED
    BY <1>1, <2>1 DEF Promise, Memory, Reactive
<1>6. Within(n, i)
  <2>1. Within(n, 0)
    BY <1>2, KindIs, Children1 DEF Within
  <2> QED
    BY <1>2, <1>4, <2>1
<1>7. Proper(n, back, S, i, {})
  <2>1. Stays(n, back) \/ i = 0
    BY <1>4 DEF Stays, star
  <2>2. \A d \in Kids(n) \ S : status[d] # "RUNNING"
    BY <1>2, <1>3, <1>4 DEF Passed
  <2> QED
    BY <1>1, <1>6, <2>1, <2>2 DEF Proper, Memory, Reactive, Decided
<1>8. ProperMemory(n, back, i)
  <2> SUFFICES ASSUME kind[n] \in Memory
               PROVE  ProperMemory(n, back, i)
    BY DEF ProperMemory
  <2>1. CASE star
    <3>1. \A d \in Kids(n) : Pos[d] = i + 1 => heard[d] = "FAILURE"
      BY <1>2, <1>3, <1>4, <2>1
    <3> QED
      BY <1>2, <1>3, <1>4, <2>1, <3>1 DEF ProperMemory, star
  <2>2. CASE ~star
    <3>1. ~Stays(n, back) /\ 0 < Len(Children[n])
      BY <1>1, <1>2, <1>3, <2>2 DEF Stays, star, Decided
    <3> QED
      BY <1>4, <2>2, <3>1 DEF ProperMemory
  <2> QED
    BY <2>1, <2>2
<1>9. ProperList(n, back, S, {})
  BY <1>1 DEF ProperList, Memory, Reactive
<1> QED
  BY <1>1, <1>2, <1>5, <1>7, <1>8, <1>9, Returned

LEMMA SwitchHearsStep ==
  ASSUME IInv, NEW c \in Nodes, at = c, SwitchHears(c)
  PROVE  IInv'
<1> DEFINE n == Parent[c]
           S == IF back = "RUNNING" THEN {} ELSE Kids(n)
           i == IF back = "RUNNING" THEN Pos[c] ELSE 0
<1>1. /\ c # Root /\ kind[n] = "Switch" /\ back \in Decided \cup {"RUNNING"}
      /\ Return(n, back, S, i, {})
  BY DEF SwitchHears, Hears
<1>2. /\ n \in Nodes /\ Active(n) /\ TypeOK
      /\ Pos[c] \in 1 .. Len(Children[n]) /\ Len(Children[n]) \in Nat
  BY <1>1, HearsFacts DEF IInv, Decided
<1>3. Within(n, i) /\ S \subseteq Kids(n)
  BY <1>1, <1>2 DEF Within, Control
<1>4. /\ back = "RUNNING" \/ i = 0
      /\ \A d \in Kids(n) \ S : back = "RUNNING"
  OBVIOUS
<1> HIDE DEF n, S, i
<1>5. Proper(n, back, S, i, {})
  BY <1>1, <1>3, <1>4 DEF Proper, Stays
<1>6. ProperMemory(n, back, i) /\ ProperList(n, back, S, {}) /\ Promise(n, back)
  BY <1>1 DEF ProperMemory, ProperList, Promise, Memory, Reactive
<1> QED
  BY <1>1, <1>2, <1>3, <1>5, <1>6, Returned

LEMMA TickAgainStep ==
  ASSUME IInv, NEW c \in Nodes, at = c, TickAgain(c)
  PROVE  IInv'
<1> DEFINE n == Parent[c]
           i == idx[n] + 1
<1>1. /\ c # Root /\ kind[n] \in {"Repeat", "RetryUntilSuccesful"} /\ back \in Decided
      /\ Again(n)
      /\ at' = c /\ back' = "none" /\ heard' = Forget(Over, {})
      /\ kind' = kind /\ skip' = skip /\ status' = status
      /\ idx' = [idx EXCEPT ![n] = i]
  BY DEF TickAgain, Hears, Descend, Tries
<1>2. /\ n \in Nodes /\ c \in Kids(n) /\ Active(n) /\ TypeOK /\ n \in Path
      /\ idx[n] \in Nat
  BY <1>1, HearsFacts DEF IInv, Decided
<1>3. Within(n, i)
  <2>1. Count[n] \in Nat
    BY <1>2, KindIs
  <2>2. idx[n] + 1 < Count[n]
    <3>1. CASE kind[n] = "Repeat"
      BY <1>1, <3>1 DEF Again
    <3>2. CASE kind[n] = "RetryUntilSuccesful"
      BY <1>1, <3>2 DEF Again
    <3> QED
      BY <1>1, <3>1, <3>2
  <2> QED
    BY <1>1, <1>2, <2>1, <2>2 DEF Within, Control, Memory, Reactive
<1>4. status[n] = "RUNNING" /\ skip[n] = {}
  BY <1>1, <1>2 DEF IInv, Local, Marked, Marking, Wrapper, Unused
<1> HIDE DEF n, i
<1>5. Down(n, c, "none", {}, Over, "RUNNING", i, {})
  <2>1. status' = [status EXCEPT ![n] = "RUNNING"] /\ skip' = [skip EXCEPT ![n] = {}]
    BY <1>1, <1>2, <1>4, Unchanged
  <2> QED
    BY <1>1, <1>2, <2>1, DownHere
<1>6. Fit(n, c, "none", {}, Over, "RUNNING", i, {})
  BY <1>1, <1>3 DEF Fit, Memory, Reactive
<1>7. FitMemory(n, c, i) /\ FitReactive(n, c, Over) /\ FitList(n, c, "none", {}, {})
  BY <1>1 DEF FitMemory, FitReactive, FitList, Memory, Reactive
<1> QED
  BY <1>2, <1>5, <1>6, <1>7, Taken

LEMMA RetryNextTickStep ==
  ASSUME IInv, NEW c \in Nodes, at = c, RetryNextTick(c)
  PROVE  IInv'
<1> DEFINE n == Parent[c]
           i == idx[n] + 1
<1>1. /\ c # Root /\ kind[n] = "CanRetry" /\ back = "FAILURE" /\ idx[n] < Count[n]
      /\ Return(n, "RUNNING", {c}, i, {})
  BY DEF RetryNextTick, Hears, MayRetry
<1>2. /\ n \in Nodes /\ c \in Kids(n) /\ Active(n) /\ TypeOK /\ idx[n] \in Nat
  BY <1>1, HearsFacts DEF IInv
<1>3. Within(n, i)
  <2>1. Count[n] \in Nat
    BY <1>2, KindIs
  <2> QED
    BY <1>1, <1>2, <2>1 DEF Within, Control, Memory, Reactive
<1> HIDE DEF n, i
<1>4. Proper(n, "RUNNING", {c}, i, {})
  BY <1>1, <1>3 DEF Proper, Stays
<1>5. ProperMemory(n, "RUNNING", i) /\ ProperList(n, "RUNNING", {c}, {}) /\ Promise(n, "RUNNING")
  BY <1>1 DEF ProperMemory, ProperList, Promise, Memory, Reactive
<1> QED
  BY <1>1, <1>2, <1>4, <1>5, Returned

LEMMA DecoratorDecidesStep ==
  ASSUME IInv, NEW c \in Nodes, at = c, DecoratorDecides(c)
  PROVE  IInv'
<1> DEFINE n == Parent[c]
           r == CASE kind[n] = "Inverter" -> Flip(back)
                  [] kind[n] = "ForceSuccess" -> "SUCCESS"
                  [] kind[n] = "ForceFailure" -> "FAILURE"
                  [] OTHER -> back
<1>1. /\ c # Root /\ kind[n] \in Decorator /\ back \in Decided
      /\ Return(n, r, {c}, 0, {})
  BY DEF DecoratorDecides, Hears, Resets
<1>2. n \in Nodes /\ c \in Kids(n) /\ Active(n) /\ TypeOK
  BY <1>1, HearsFacts DEF IInv, Decided
<1>3. r \in Decided
  BY <1>1 DEF Flip, Decided
<1> HIDE DEF n, r
<1>4. Kids(n) = {c}
  BY <1>1, <1>2, FirstKid DEF Decorator, Wrapper, Gate, Leaf
<1>5. Within(n, 0)
  BY <1>2, KindIs, Children1 DEF Within
<1>6. Proper(n, r, {c}, 0, {})
  BY <1>1, <1>3, <1>4, <1>5 DEF Proper, Decided, Decorator, Wrapper, Gate
<1>7. ProperMemory(n, r, 0) /\ ProperList(n, r, {c}, {}) /\ Promise(n, r)
  BY <1>1 DEF ProperMemory, ProperList, Promise, Memory, Reactive, Decorator, Wrapper, Gate
<1> QED
  BY <1>1, <1>2, <1>6, <1>7, Returned

\* The children of n up to c that have the status r.
Upto(n, c, r) == {d \in Kids(n) : Pos[d] <= Pos[c] /\ status[d] = r}
\* Those that have been heard to say r.
HeardAs(n, r) == {d \in Kids(n) : heard[d] = r}

\* What a Parallel knows when its child c has come to a result: the children that
\* have been heard to decide are those that have the decided status, and there
\* are not enough of them before c.
LEMMA ParallelFacts ==
  ASSUME IInv, NEW c \in Nodes, at = c, c # Root, back # "none",
         NEW n, n = Parent[c], kind[n] = "Parallel"
  PROVE  /\ \A r \in Decided : \A d \in Kids(n) : status[d] = r <=> heard[d] = r
         /\ \A d \in Kids(n) : Pos[d] <= Pos[c] => heard[d] # "none"
         /\ \A d \in Kids(n) \ {c} : d \notin skip[n] =>
              status[d] \notin Decided /\ heard[d] \in {"none", "RUNNING"}
         /\ skip[n] \subseteq Kids(n)
         /\ \A d \in skip[n] : heard[d] = status[d] /\ status[d] \in Decided
         /\ \A r : /\ IsFiniteSet(Upto(n, c, r)) /\ Cardinality(Upto(n, c, r)) \in Nat
                   /\ IsFiniteSet(HeardAs(n, r))
                   /\ Cardinality(HeardAs(n, r)) \in Nat
         /\ Cardinality(Upto(n, c, "SUCCESS")) <=
              IF back = "SUCCESS" THEN Count[n] ELSE Count[n] - 1
         /\ back # "FAILURE" =>
              Cardinality(Upto(n, c, "FAILURE")) <= Len(Children[n]) - Count[n]
         /\ Count[n] \in 1 .. Len(Children[n]) /\ Len(Children[n]) \in Nat
<1>1. /\ n \in Nodes /\ c \in Kids(n) /\ c \in Ticked /\ n \notin Over
      /\ status[c] = back /\ heard[c] = back
      /\ \A d \in Kids(n) : Fresh(d) => d = c
      /\ \A d \in Kids(n) : Pos[d] \in Nat
      /\ \A d \in Kids(n) : Pos[d] = Pos[c] => d = c
      /\ Len(Children[n]) \in Nat
  BY HearsFacts
<1>2. /\ skip[n] \subseteq Kids(n)
      /\ \A d \in skip[n] : heard[d] = status[d] /\ status[d] \in Decided
      /\ \A d \in Kids(n) \ skip[n] :
           d = c \/ (status[d] \notin Decided /\ heard[d] \in {"none", "RUNNING"})
      /\ \A d \in Kids(n) : Pos[d] < Pos[c] => heard[d] # "none"
      /\ Cardinality(SeenBefore(n, c, "SUCCESS")) < Count[n]
      /\ Cardinality(SeenBefore(n, c, "FAILURE")) <= Len(Children[n]) - Count[n]
  BY <1>1 DEF IInv, Local, Listed
<1>3. Count[n] \in 1 .. Len(Children[n])
  BY <1>1, KindIs DEF IInv
<1>4. \A r \in Decided : \A d \in Kids(n) : status[d] = r <=> heard[d] = r
  BY <1>1, <1>2 DEF Decided
<1>5. \A d \in Kids(n) : Pos[d] <= Pos[c] => heard[d] # "none"
  <2> SUFFICES ASSUME NEW d \in Kids(n), Pos[d] <= Pos[c], heard[d] = "none"
               PROVE  FALSE
    OBVIOUS
  <2>1. Pos[d] \in Nat /\ Pos[c] \in Nat /\ d # c
    BY <1>1
  <2>2. Pos[d] < Pos[c]
    BY <1>1, <2>1
  <2> QED
    BY <1>2, <2>2
<1>6. IsFiniteSet(Kids(n))
  <2>1. Kids(n) \subseteq Nodes /\ IsFiniteSet(Nodes)
    BY <1>1, Children1, TreeAssumption
  <2> QED
    BY <2>1, FS_Subset
<1>7. \A T \in SUBSET Kids(n) : IsFiniteSet(T) /\ Cardinality(T) \in Nat
  BY <1>6, FS_Subset, FS_CardinalityType
<1>8. \A r : /\ Upto(n, c, r) \in SUBSET Kids(n) /\ SeenBefore(n, c, r) \in SUBSET Kids(n)
             /\ HeardAs(n, r) \in SUBSET Kids(n)
  BY DEF Upto, SeenBefore, HeardAs
<1>9. ASSUME NEW r
      PROVE  /\ Cardinality(SeenBefore(n, c, r)) \in Nat
             /\ Cardinality(Upto(n, c, r)) \in Nat
             /\ back = r => Cardinality(Upto(n, c, r)) = Cardinality(SeenBefore(n, c, r)) + 1
             /\ back # r => Upto(n, c, r) = SeenBefore(n, c, r)
  <2>1. /\ IsFiniteSet(SeenBefore(n, c, r)) /\ Cardinality(SeenBefore(n, c, r)) \in Nat
        /\ Cardinality(Upto(n, c, r)) \in Nat
    BY <1>7, <1>8
  <2>2. c \notin SeenBefore(n, c, r)
    BY <1>1 DEF SeenBefore
  <2>3. CASE back = r
    <3>1. Upto(n, c, r) = SeenBefore(n, c, r) \cup {c}
      BY <1>1, <2>3 DEF Upto, SeenBefore
    <3> QED
      BY <2>1, <2>2, <2>3, <3>1, FS_AddElement
  <2>4. CASE back # r
    <3>1. Upto(n, c, r) = SeenBefore(n, c, r)
      BY <1>1, <2>4 DEF Upto, SeenBefore
    <3> QED
      BY <2>1, <2>4, <3>1
  <2> QED
    BY <2>3, <2>4
<1>10. Cardinality(Upto(n, c, "SUCCESS")) <=
         IF back = "SUCCESS" THEN Count[n] ELSE Count[n] - 1
  <2>1. Cardinality(SeenBefore(n, c, "SUCCESS")) \in Nat /\ Count[n] \in Nat
    BY <1>3, <1>9
  <2>2. CASE back = "SUCCESS"
    BY <1>2, <1>9, <2>1, <2>2
  <2>3. CASE back # "SUCCESS"
    BY <1>2, <1>9, <2>1, <2>3
  <2> QED
    BY <2>2, <2>3
<1>11. back # "FAILURE" =>
         Cardinality(Upto(n, c, "FAILURE")) <= Len(Children[n]) - Count[n]
  BY <1>2, <1>9
<1>12. \A r : /\ IsFiniteSet(Upto(n, c, r)) /\ Cardinality(Upto(n, c, r)) \in Nat
              /\ IsFiniteSet(HeardAs(n, r))
              /\ Cardinality(HeardAs(n, r)) \in Nat
  BY <1>7, <1>8
<1> QED
  BY <1>1, <1>2, <1>3, <1>4, <1>5, <1>10, <1>11, <1>12

\* A Parallel decides when enough children have succeeded or too many failed.
LEMMA ParallelDecides ==
  ASSUME IInv, NEW c \in Nodes, at = c, c # Root, back # "none",
         NEW n, n = Parent[c], kind[n] = "Parallel", back \in Decided,
         \/ back = "SUCCESS" /\ Cardinality(Upto(n, c, "SUCCESS")) = Count[n]
         \/ /\ back = "FAILURE"
            /\ Cardinality(Upto(n, c, "FAILURE")) > Len(Children[n]) - Count[n],
         Return(n, back, Kids(n), 0, {})
  PROVE  IInv'
<1>1. n \in Nodes /\ Active(n) /\ TypeOK
  BY HearsFacts DEF IInv
<1>2. /\ \A d \in Kids(n) : status[d] = back <=> heard[d] = back
      /\ IsFiniteSet(HeardAs(n, back))
      /\ Cardinality(HeardAs(n, back)) \in Nat
      /\ Cardinality(Upto(n, c, back)) \in Nat
      /\ Count[n] \in 1 .. Len(Children[n]) /\ Len(Children[n]) \in Nat
  BY ParallelFacts
<1>3. Cardinality(Upto(n, c, back)) <= Cardinality(HeardAs(n, back))
  <2>1. Upto(n, c, back) \in SUBSET HeardAs(n, back)
    BY <1>2 DEF Upto, HeardAs
  <2> QED
    BY <1>2, <2>1, FS_Subset
<1>4. Promise(n, back)
  <2>1. CASE back = "SUCCESS"
    BY <1>2, <1>3, <2>1 DEF Promise, ParallelPromise, HeardAs, Memory, Reactive
  <2>2. CASE back = "FAILURE"
    BY <1>2, <1>3, <2>2 DEF Promise, ParallelPromise, HeardAs, Memory, Reactive
  <2> QED
    BY <2>1, <2>2 DEF Decided
<1>5. Within(n, 0)
  BY <1>1, KindIs, Children1 DEF Within
<1>6. Proper(n, back, Kids(n), 0, {})
  BY <1>5 DEF Proper, Decided
<1>7. ProperMemory(n, back, 0) /\ ProperList(n, back, Kids(n), {})
  BY DEF ProperMemory, ProperList, Memory, Decided
<1> QED
  BY <1>1, <1>4, <1>6, <1>7, Returned

\* Its skip list gets the child that has decided.
Listing(n, c) == IF back \in Decided THEN skip[n] \cup {c} ELSE skip[n]

LEMMA ListingFacts ==
  ASSUME IInv, NEW c \in Nodes, at = c, c # Root, back # "none",
         NEW n, n = Parent[c], kind[n] = "Parallel"
  PROVE  /\ Listing(n, c) \subseteq Kids(n)
         /\ \A d \in Listing(n, c) : heard[d] = status[d] /\ status[d] \in Decided
         /\ \A d \in Kids(n) \ Listing(n, c) :
              status[d] \notin Decided /\ heard[d] \in {"none", "RUNNING"}
         /\ \A d \in Kids(n) \ {c} : d \in Listing(n, c) <=> d \in skip[n]
<1>1. /\ c \in Kids(n) /\ status[c] = back /\ heard[c] = back
      /\ back \in {"RUNNING"} \cup Decided
  BY HearsFacts
<1>2. /\ skip[n] \subseteq Kids(n)
      /\ \A d \in skip[n] : heard[d] = status[d] /\ status[d] \in Decided
      /\ \A d \in Kids(n) \ {c} : d \notin skip[n] =>
           status[d] \notin Decided /\ heard[d] \in {"none", "RUNNING"}
  BY ParallelFacts
<1> QED
  BY <1>1, <1>2 DEF Listing, Decided

LEMMA ParallelWaits ==
  ASSUME IInv, NEW c \in Nodes, at = c, c # Root, back # "none",
         NEW n, n = Parent[c], kind[n] = "Parallel",
         ~(back = "SUCCESS" /\ Cardinality(Upto(n, c, "SUCCESS")) = Count[n]),
         ~(/\ back = "FAILURE"
           /\ Cardinality(Upto(n, c, "FAILURE")) > Len(Children[n]) - Count[n])
  PROVE  /\ Cardinality(Upto(n, c, "SUCCESS")) < Count[n]
         /\ Cardinality(Upto(n, c, "FAILURE")) <= Len(Children[n]) - Count[n]
<1>1. /\ Cardinality(Upto(n, c, "SUCCESS")) \in Nat
      /\ Cardinality(Upto(n, c, "FAILURE")) \in Nat
      /\ Cardinality(Upto(n, c, "SUCCESS")) <=
           IF back = "SUCCESS" THEN Count[n] ELSE Count[n] - 1
      /\ back # "FAILURE" =>
           Cardinality(Upto(n, c, "FAILURE")) <= Len(Children[n]) - Count[n]
      /\ Count[n] \in 1 .. Len(Children[n]) /\ Len(Children[n]) \in Nat
  BY ParallelFacts
<1> QED
  BY <1>1

LEMMA ParallelRuns ==
  ASSUME IInv, NEW c \in Nodes, at = c, c # Root, back # "none",
         NEW n, n = Parent[c], kind[n] = "Parallel", IsLast(c),
         Cardinality(Upto(n, c, "SUCCESS")) < Count[n],
         Cardinality(Upto(n, c, "FAILURE")) <= Len(Children[n]) - Count[n],
         Return(n, "RUNNING", {}, 0, Listing(n, c))
  PROVE  IInv'
<1> DEFINE k == Listing(n, c)
<1>1. /\ n \in Nodes /\ Active(n) /\ TypeOK /\ Pos[c] = Len(Children[n])
      /\ \A d \in Kids(n) : Pos[d] \in 1 .. Len(Children[n])
      /\ Len(Children[n]) \in Nat
  BY HearsFacts DEF IInv, IsLast
<1>2. \A d \in Kids(n) : Pos[d] <= Pos[c]
  BY <1>1
<1>3. /\ k \subseteq Kids(n)
      /\ \A d \in k : heard[d] = status[d] /\ status[d] \in Decided
      /\ \A d \in Kids(n) \ k : status[d] \notin Decided /\ heard[d] \in {"none", "RUNNING"}
  BY ListingFacts
<1>4. \A r \in Decided : HeardAs(n, r) = Upto(n, c, r)
  BY <1>2, ParallelFacts DEF Upto, HeardAs
<1>5. Cardinality(HeardAs(n, "none")) = 0
  <2>1. HeardAs(n, "none") = {}
    BY <1>2, ParallelFacts DEF HeardAs
  <2> QED
    BY <2>1, FS_EmptySet
<1>6. Promise(n, "RUNNING")
  <2>1. /\ Cardinality(HeardAs(n, "SUCCESS")) < Count[n]
        /\ Cardinality(HeardAs(n, "FAILURE")) <= Len(Children[n]) - Count[n]
    BY <1>4 DEF Decided
  <2>2. /\ Cardinality(HeardAs(n, "SUCCESS")) \in Nat
        /\ Cardinality(HeardAs(n, "FAILURE")) \in Nat
        /\ Count[n] \in 1 .. Len(Children[n])
    BY ParallelFacts
  <2>3. ParallelPromise(n, "RUNNING")
    <3>1. /\ ~(Cardinality(HeardAs(n, "SUCCESS")) >= Count[n])
          /\ ~(Cardinality(HeardAs(n, "FAILURE")) > Len(Children[n]) - Count[n])
      BY <1>1, <2>1, <2>2
    <3> QED
      BY <1>5, <3>1, Zenon DEF ParallelPromise, HeardAs
  <2> QED
    BY <2>3 DEF Promise, Memory, Reactive
<1> HIDE DEF k
<1>7. Within(n, 0)
  BY <1>1, KindIs, Children1 DEF Within
<1>8. Proper(n, "RUNNING", {}, 0, k)
  BY <1>3, <1>7 DEF Proper, Stays
<1>9. ProperMemory(n, "RUNNING", 0) /\ ProperList(n, "RUNNING", {}, k)
  BY <1>3 DEF ProperMemory, ProperList, Memory, Decided
<1> QED
  BY <1>1, <1>6, <1>8, <1>9, Returned DEF k

LEMMA ParallelGoesOn ==
  ASSUME IInv, NEW c \in Nodes, at = c, c # Root, back # "none",
         NEW n, n = Parent[c], kind[n] = "Parallel", ~IsLast(c),
         Cardinality(Upto(n, c, "SUCCESS")) < Count[n],
         Cardinality(Upto(n, c, "FAILURE")) <= Len(Children[n]) - Count[n],
         Consider(n, Sibling(c)), skip' = [skip EXCEPT ![n] = Listing(n, c)],
         heard' = Forget(Over, {}), kind' = kind, status' = status, idx' = idx
  PROVE  IInv'
<1> DEFINE k == Listing(n, c)
           e == Sibling(c)
           b == IF e \in skip[n] THEN status[e] ELSE "none"
<1>1. /\ n \in Nodes /\ Active(n) /\ TypeOK /\ c \in Kids(n)
      /\ Pos[c] \in 1 .. Len(Children[n]) /\ Pos[c] # Len(Children[n])
      /\ \A d \in Kids(n) : Pos[d] \in 1 .. Len(Children[n])
      /\ Len(Children[n]) \in Nat
      /\ Within(n, idx[n])
  BY HearsFacts DEF IInv, IsLast
<1>2. e \in Kids(n) /\ Pos[e] = Pos[c] + 1 /\ e # c
  <2>1. Pos[c] + 1 \in 1 .. Len(Children[n]) /\ Pos[c] + 1 # Pos[c]
    BY <1>1
  <2>2. e \in Kids(n) /\ Pos[e] = Pos[c] + 1
    BY <1>1, <2>1, ChildAt DEF Sibling
  <2> QED
    BY <2>1, <2>2
<1>3. /\ k \subseteq Kids(n)
      /\ \A d \in k : heard[d] = status[d] /\ status[d] \in Decided
      /\ \A d \in Kids(n) \ k : status[d] \notin Decided /\ heard[d] \in {"none", "RUNNING"}
      /\ e \in k <=> e \in skip[n]
  BY <1>2, ListingFacts
<1>4. /\ b # "none" => b = status[e] /\ b = heard[e] /\ e \in k /\ b \in Decided
      /\ e \in k => b # "none"
  BY <1>3 DEF Decided
<1>5. at' = e /\ back' = b
  BY DEF Consider
<1> HIDE DEF k, e, b
<1>6. Down(n, e, b, {}, Over, status[n], idx[n], k)
  BY <1>1, <1>5, DownHere, Unchanged DEF k
<1>7. Fit(n, e, b, {}, Over, status[n], idx[n], k)
  BY <1>1, <1>3, <1>4 DEF Fit, Marking, Memory, Wrapper
<1>8. FitList(n, e, b, {}, k)
  <2>1. \A r : SeenBefore(n, e, r) = Upto(n, c, r)
    <3>1. \A d \in Kids(n) : Pos[d] < Pos[e] <=> Pos[d] <= Pos[c]
      BY <1>1, <1>2
    <3> QED
      BY <3>1 DEF SeenBefore, Upto
  <2>2. \A d \in Kids(n) : Pos[d] < Pos[e] => heard[d] # "none"
    <3>1. \A d \in Kids(n) : Pos[d] < Pos[e] => Pos[d] <= Pos[c]
      BY <1>1, <1>2
    <3> QED
      BY <3>1, ParallelFacts
  <2> QED
    BY <1>3, <1>4, <2>1, <2>2 DEF FitList
<1>9. FitMemory(n, e, idx[n]) /\ FitReactive(n, e, Over)
  BY DEF FitMemory, FitReactive, Memory, Reactive
<1> QED
  BY <1>1, <1>2, <1>6, <1>7, <1>8, <1>9, Taken

LEMMA ParallelHearsStep ==
  ASSUME IInv, NEW c \in Nodes, at = c, ParallelHears(c)
  PROVE  IInv'
<1> DEFINE n == Parent[c]
           enough == back = "SUCCESS" /\ Cardinality(Upto(n, c, "SUCCESS")) = Count[n]
           hopeless ==
             /\ back = "FAILURE"
             /\ Cardinality(Upto(n, c, "FAILURE")) > Len(Children[n]) - Count[n]
           goes == /\ Consider(n, Sibling(c))
                   /\ skip' = [skip EXCEPT ![n] = Listing(n, c)]
                   /\ heard' = Forget(Over, {})
                   /\ UNCHANGED <<kind, status, idx>>
<1>1. c # Root /\ kind[n] = "Parallel" /\ back # "none"
  BY DEF ParallelHears, Hears, Decided
<1>2. \/ enough /\ Return(n, "SUCCESS", Kids(n), 0, {})
      \/ hopeless /\ Return(n, "FAILURE", Kids(n), 0, {})
      \/ /\ ~enough /\ ~hopeless
         /\ IF IsLast(c) THEN Return(n, "RUNNING", {}, 0, Listing(n, c)) ELSE goes
  BY Zenon DEF ParallelHears, Upto, Listing
<1>3. CASE (enough /\ Return(n, "SUCCESS", Kids(n), 0, {}))
           \/ (hopeless /\ Return(n, "FAILURE", Kids(n), 0, {}))
  <2>1. back \in Decided /\ (enough \/ hopeless) /\ Return(n, back, Kids(n), 0, {})
    BY <1>3 DEF Decided
  <2> QED
    BY <1>1, <2>1, ParallelDecides
<1>4. CASE /\ ~enough /\ ~hopeless
           /\ IF IsLast(c) THEN Return(n, "RUNNING", {}, 0, Listing(n, c)) ELSE goes
  <2>1. /\ Cardinality(Upto(n, c, "SUCCESS")) < Count[n]
        /\ Cardinality(Upto(n, c, "FAILURE")) <= Len(Children[n]) - Count[n]
    BY <1>1, <1>4, ParallelWaits
  <2>2. CASE IsLast(c)
    BY <1>1, <1>4, <2>1, <2>2, ParallelRuns
  <2>3. CASE ~IsLast(c)
    BY <1>1, <1>4, <2>1, <2>3, ParallelGoesOn
  <2> QED
    BY <2>2, <2>3
<1> QED
  BY <1>2, <1>3, <1>4
-----------------------------------------------------------------------------
(* The host, the timers and an exception.                                  *)

LEMMA RootFacts ==
  /\ Root \in Nodes /\ Root # "outside" /\ Above[Root] = {}
  /\ \A p \in Nodes : Root \notin Kids(p)
<1>1. Root \in Nodes /\ Root # "outside"
  BY TreeAssumption
<1>2. Above[Root] = {}
  BY <1>1, AboveIs
<1> QED
  BY <1>1, <1>2, KidOf

\* Between two ticks nobody waits.
LEMMA OutsideFacts ==
  ASSUME IInv, at = "outside"
  PROVE  /\ back = "none" /\ Path = {} /\ Over = {} /\ Ticked = {}
         /\ \A d \in Nodes : ~Fresh(d)
<1>1. "outside" \notin Nodes
  BY TreeAssumption
<1> QED
  BY <1>1 DEF IInv, Focus, Path, Over, Ticked, Fresh

LEMMA TickRootStep ==
  ASSUME IInv, TickRoot
  PROVE  IInv'
<1>1. at = "outside"
  BY DEF TickRoot
<1>2. /\ back = "none" /\ Path = {} /\ Over = {} /\ Ticked = {}
      /\ \A d \in Nodes : ~Fresh(d)
  BY <1>1, OutsideFacts
<1>3. /\ at' = Root /\ back' = "none" /\ kind' = kind /\ status' = status
      /\ idx' = idx /\ skip' = skip /\ heard' = heard
  BY <1>2, NoHalt DEF TickRoot, Descend
<1>4. /\ Path' = {} /\ Over' = {} /\ Ticked' = {Root}
      /\ \A d \in Nodes : ~Fresh(d)'
  BY <1>3, RootFacts DEF Path, Over, Ticked, Fresh
<1>5. ASSUME NEW p \in Nodes
      PROVE  Local(p)'
  <2>1. Local(p) /\ TypeOK
    BY DEF IInv
  <2>2. \A d \in Kids(p) : d # Root /\ d \in Nodes
    BY RootFacts, AboveKid
  <2>3. Quiet(p)' /\ Unused(p)' /\ Settled(p)' /\ Closed(p)' /\ TimedOut(p)'
    BY <1>2, <1>3, <1>4, <2>1
       DEF Local, Quiet, Unused, Settled, Closed, TimedOut, First
  <2>4. InOrder(p)'
    <3>1. \A d \in Kids(p) : Passed(p, d)' <=> Passed(p, d)
      BY <1>3 DEF Passed, Advancing
    <3> QED
      BY <1>2, <1>3, <1>4, <2>1, <2>2, <3>1 DEF Local, InOrder
  <2>5. Reacting(p)' /\ Listed(p)'
    BY <1>2, <1>3, <1>4, <2>1, <2>2 DEF Local, Reacting, Listed
  <2>6. Marked(p)'
    <3>1. kind[p] = "SubTree" => First(p) \in Kids(p)
      BY <2>1, FirstKid DEF Leaf
    <3>2. First(p)' = First(p)
      BY DEF First
    <3> QED
      BY <1>3, <1>4, <2>2, <3>1, <3>2 DEF Marked
  <2> QED
    BY <2>3, <2>4, <2>5, <2>6 DEF Local
<1>6. TypeOK' /\ (idx \in [Nodes -> Nat])'
  BY <1>3, RootFacts DEF IInv, TypeOK
<1>7. Focus' /\ Verdicts'
  BY <1>3, RootFacts DEF Focus, Verdicts
<1> QED
  BY <1>5, <1>6, <1>7 DEF IInv

LEMMA RootReturnsStep ==
  ASSUME IInv, RootReturns
  PROVE  IInv'
<1> DEFINE s == IF status[Root] \in Decided THEN "IDLE" ELSE status[Root]
<1>1. /\ at = Root /\ back # "none" /\ at' = "outside" /\ back' = "none"
      /\ status' = [status EXCEPT ![Root] = s]
      /\ heard' = [Forget(Over, {}) EXCEPT ![Root] = "none"]
      /\ kind' = kind /\ idx' = idx /\ skip' = skip
  BY DEF RootReturns, IInv, TypeOK
<1>2. /\ TypeOK /\ idx \in [Nodes -> Nat] /\ Focus /\ Local(Root)
      /\ status[Root] = back
  BY <1>1, RootFacts DEF IInv, Focus
<1>3. /\ Path = {} /\ Path' = {} /\ Ticked = {Root} /\ Ticked' = {} /\ Over' = {}
      /\ Over \subseteq {Root}
      /\ \A d \in Nodes \ {Root} : ~Fresh(d)
      /\ \A d \in Nodes : ~Fresh(d)'
  BY <1>1, RootFacts, TreeAssumption DEF Path, Ticked, Over, Fresh
<1>4. \A n : ~Reaches({}, n) /\ ~Halts({}, n)
  BY DEF Reaches, Halts
<1>5. ASSUME NEW p \in Nodes, NEW d \in Kids(p)
      PROVE  /\ d \in Nodes \ {Root} /\ Parent[d] = p
             /\ heard'[d] = IF p \in Over THEN "none" ELSE heard[d]
             /\ status'[d] = status[d]
  <2>1. d \in Nodes \ {Root} /\ Parent[d] = p
    BY KidOf
  <2> QED
    BY <1>1, <1>2, <1>4, <2>1 DEF Forget, TypeOK
<1>6. Elsewhere(Root, {}, Over)
  <2>1. \A p \in Nodes \ {Root} : status'[p] = status[p]
    BY <1>1, <1>2 DEF TypeOK
  <2> QED
    BY <1>1, <1>3, <1>4, <1>5, <2>1, RootFacts, TreeAssumption DEF Elsewhere, Link
<1>7. Local(Root)'
  <2>1. /\ Root \in Nodes /\ status'[Root] = s /\ s \in {"IDLE", "RUNNING"}
        /\ s = "RUNNING" <=> status[Root] = "RUNNING"
        /\ back = "RUNNING" \/ back \in Decided
    BY <1>1, <1>2, RootFacts DEF TypeOK, Status, Decided
  <2>2. Root \in Over <=> back \in Decided /\ (back = "FAILURE" => kind[Root] # "SequenceStar")
    BY <1>1 DEF Over, Decided
  <2>3. Root \in Over =>
          /\ idx[Root] = 0 /\ skip[Root] = {}
          /\ \A d \in Kids(Root) : heard'[d] = "none"
    <3>1. ASSUME Root \in Over
          PROVE  idx[Root] = 0 /\ skip[Root] = {}
      BY <1>2, <1>3, <2>2, <3>1 DEF Local, Quiet, Decided
    <3> QED
      BY <1>5, <2>1, <3>1
  <2>4. Root \notin Over => \A d \in Kids(Root) : heard'[d] = heard[d]
    BY <1>5, <2>1
  <2>5. Quiet(Root)'
    BY <1>1, <1>2, <2>1, <2>2, <2>3 DEF Quiet
  <2>6. Unused(Root)' /\ Settled(Root)'
    BY <1>1, <1>2, <2>1 DEF Local, Unused, Settled
  <2>7. InOrder(Root)'
    <3> SUFFICES ASSUME kind[Root] \in Memory
                 PROVE  InOrder(Root)'
      BY <1>1 DEF InOrder
    <3>1. /\ idx'[Root] < Len(Children[Root]) /\ Kids(Root) \cap Ticked' = {}
          /\ \A d \in Kids(Root) : ~Fresh(d) /\ Pos[d] \in Nat /\ Pos[d] > 0
      BY <1>1, <1>2, <1>3, <1>5, <2>1, KidOf, Children1 DEF Local, InOrder
    <3>2. CASE Root \in Over
      BY <1>1, <2>3, <3>1, <3>2 DEF InOrder
    <3>3. CASE Root \notin Over
      <4>1. \A d \in Kids(Root) : Passed(Root, d)' <=> Passed(Root, d)
        BY <1>1, <1>5, <2>1, <2>4, <3>3 DEF Passed, Advancing
      <4> QED
        BY <1>1, <1>2, <2>4, <3>1, <3>3, <4>1 DEF Local, InOrder
    <3> QED
      BY <3>2, <3>3
  <2>8. Reacting(Root)' /\ TimedOut(Root)' /\ Closed(Root)'
    <3>1. kind[Root] = "Timeout" => First(Root) \in Kids(Root)
      BY <1>2, <2>1, FirstKid DEF Leaf
    <3>2. First(Root)' = First(Root)
      BY DEF First
    <3> QED
      BY <1>1, <1>2, <1>3, <1>5, <2>1, <3>1, <3>2 DEF Local, Reacting, TimedOut, Closed
  <2>9. Listed(Root)'
    <3> SUFFICES ASSUME kind[Root] = "Parallel"
                 PROVE  Listed(Root)'
      BY <1>1 DEF Listed
    <3>1. \A d \in Kids(Root) : status'[d] = status[d] /\ ~Fresh(d)
      BY <1>3, <1>5, <2>1
    <3>2. CASE Root \in Over
      BY <1>1, <1>2, <1>3, <2>3, <3>1, <3>2 DEF Local, Listed
    <3>3. CASE Root \notin Over
      BY <1>1, <1>2, <1>3, <2>4, <3>1, <3>3 DEF Local, Listed
    <3> QED
      BY <3>2, <3>3
  <2>10. Marked(Root)'
    <3>1. kind[Root] = "SubTree" => First(Root) \in Nodes
      BY <1>2, <1>5, <2>1, FirstKid DEF Leaf
    <3> QED
      BY <1>1, <1>3, <3>1, TreeAssumption DEF Marked, First
  <2> QED
    BY <2>5, <2>6, <2>7, <2>8, <2>9, <2>10 DEF Local
<1>8. \A p \in Nodes : Local(p)'
  <2>1. {} \in SUBSET Kids(Root) /\ Root \in Nodes
    BY RootFacts
  <2> QED
    BY <1>6, <1>7, <2>1, LocalFrame
<1>9. TypeOK' /\ (idx \in [Nodes -> Nat])'
  <2>1. Forget(Over, {}) \in [Nodes -> Status \cup {"none"}]
    BY HeardTypes
  <2>2. heard' \in [Nodes -> Status \cup {"none"}]
    BY <1>1, <2>1
  <2>3. status' \in [Nodes -> Status]
    BY <1>1, <1>2 DEF TypeOK, Status
  <2> QED
    BY <1>1, <1>2, <2>2, <2>3 DEF TypeOK
<1>10. Focus' /\ Verdicts'
  BY <1>1 DEF Focus, Verdicts
<1> QED
  BY <1>8, <1>9, <1>10 DEF IInv

LEMMA HaltRootStep ==
  ASSUME IInv, HaltRoot
  PROVE  IInv'
<1> DEFINE S == Kids(Root)
<1>1. /\ at = "outside" /\ at' = at /\ back' = back /\ kind' = kind
      /\ status' = [StatusAfter(S) EXCEPT ![Root] = "IDLE"]
      /\ idx' = [IdxAfter(S) EXCEPT ![Root] = 0]
      /\ skip' = [SkipAfter(S) EXCEPT ![Root] = {}]
      /\ heard' = Forget({Root}, S)
  BY DEF HaltRoot
<1>2. /\ back = "none" /\ Path = {} /\ Over = {} /\ Ticked = {}
      /\ \A d \in Nodes : ~Fresh(d)
      /\ TypeOK /\ Root \in Nodes /\ S \in SUBSET Kids(Root)
  BY <1>1, OutsideFacts, RootFacts DEF IInv
<1>3. /\ Path' = {} /\ Over' = {} /\ Ticked' = {}
      /\ \A d \in Nodes : ~Fresh(d)'
  BY <1>1, <1>2, TreeAssumption DEF Path, Over, Ticked, Fresh
<1> HIDE DEF S
<1>4. ASSUME NEW p \in Nodes, NEW d \in Kids(p)
      PROVE  /\ d \in Nodes \ {Root} /\ Parent[d] = p
             /\ heard'[d] = IF p = Root \/ Halts(S, p) THEN "none" ELSE heard[d]
  <2>1. d \in Nodes \ {Root} /\ Parent[d] = p
    BY KidOf
  <2> QED
    BY <1>1, <2>1 DEF Forget
<1>5. Elsewhere(Root, S, {Root})
  <2>1. ASSUME NEW p \in Nodes \ {Root}
        PROVE  /\ status'[p] = IF Reaches(S, p) THEN "IDLE" ELSE status[p]
               /\ idx'[p] = IF Halts(S, p) THEN 0 ELSE idx[p]
               /\ skip'[p] = IF Halts(S, p) THEN {} ELSE skip[p]
    BY <1>1 DEF StatusAfter, IdxAfter, SkipAfter
  <2>2. ASSUME NEW p \in Nodes \ {Root}, NEW d \in Kids(p)
        PROVE  /\ d # Root
                 => heard'[d] = IF p \in {Root} \/ Halts(S, p) THEN "none" ELSE heard[d]
               /\ ~Fresh(d) /\ d \notin Ticked' /\ at' # d /\ d # Root
    <3>1. d \in Nodes \ {Root}
      BY <1>4
    <3>2. p # Root
      OBVIOUS
    <3> QED
      BY <1>1, <1>2, <1>3, <1>4, <3>1, <3>2, TreeAssumption
  <2>3. kind' = kind /\ Link(Root)
    BY <1>1 DEF Link
  <2> QED
    BY <1>2, <1>3, <2>1, <2>2, <2>3 DEF Elsewhere
<1>6. Local(Root)'
  <2>1. status'[Root] = "IDLE" /\ idx'[Root] = 0 /\ skip'[Root] = {}
    BY <1>1, <1>2 DEF StatusAfter, IdxAfter, SkipAfter
  <2>2. \A d \in Kids(Root) : status'[d] = "IDLE" /\ heard'[d] = "none" /\ ~Fresh(d)'
    <3> SUFFICES ASSUME NEW d \in Kids(Root)
                 PROVE  status'[d] = "IDLE" /\ heard'[d] = "none" /\ ~Fresh(d)'
      OBVIOUS
    <3>1. Reaches(S, d)
      BY <1>2, ReachesKid DEF S
    <3> QED
      BY <1>1, <1>2, <1>3, <1>4, <3>1 DEF StatusAfter
  <2>3. InOrder(Root)'
    <3>1. \A d \in Kids(Root) : Pos[d] \in Nat /\ Pos[d] > 0
      BY <1>2, KidOf, Children1
    <3>2. kind[Root] \in Memory => 0 < Len(Children[Root])
      BY <1>2, KindIs DEF Memory, Leaf
    <3> SUFFICES ASSUME kind[Root] \in Memory
                 PROVE  InOrder(Root)'
      BY <1>1 DEF InOrder
    <3>3. \A d \in Kids(Root) : /\ ~(Pos[d] <= idx'[Root])
                                /\ heard'[d] = "none"
      BY <2>1, <2>2, <3>1
    <3>4. idx'[Root] < Len(Children[Root]) /\ Kids(Root) \cap Ticked' = {}
      BY <1>3, <2>1, <3>2
    <3> QED
      BY <3>3, <3>4 DEF InOrder
  <2>4. Quiet(Root)' /\ Unused(Root)' /\ Reacting(Root)' /\ TimedOut(Root)' /\ Settled(Root)'
    BY <1>1, <1>3, <2>1, <2>2 DEF Quiet, Unused, Reacting, TimedOut, Settled
  <2>5. Closed(Root)'
    BY <2>2 DEF Closed
  <2>6. Listed(Root)'
    BY <1>1, <1>3, <2>1, <2>2 DEF Listed, Decided
  <2>7. Marked(Root)'
    <3>1. kind[Root] = "SubTree" => First(Root) \in Nodes
      BY <1>2, <1>4, FirstKid DEF Leaf
    <3> QED
      BY <1>1, <1>3, <3>1, TreeAssumption DEF Marked, First
  <2> QED
    BY <2>3, <2>4, <2>5, <2>6, <2>7 DEF Local
<1>7. \A p \in Nodes : Local(p)'
  BY <1>2, <1>5, <1>6, LocalFrame
<1>8. TypeOK' /\ (idx \in [Nodes -> Nat])'
  <2>1. Forget({Root}, S) \in [Nodes -> Status \cup {"none"}]
    BY HeardTypes
  <2>2. Within(Root, 0) /\ "IDLE" \in Status /\ {} \in SUBSET Nodes
    BY <1>2, KindIs, Children1 DEF Within, Status
  <2> QED
    BY <1>1, <1>2, <2>1, <2>2, TypesAfter
<1>9. Focus' /\ Verdicts'
  BY <1>1, <1>2 DEF Focus, Verdicts
<1> QED
  BY <1>7, <1>8, <1>9 DEF IInv

LEMMA ExpireStep ==
  ASSUME IInv, NEW m \in Nodes, Expire(m)
  PROVE  IInv'
<1> DEFINE S == Kids(m)
<1>1. /\ kind[m] = "Timeout" /\ idx[m] = 1 /\ m \notin Path
      /\ at' = at /\ back' = back /\ kind' = kind
      /\ status' = StatusAfter(S)
      /\ idx' = [IdxAfter(S) EXCEPT ![m] = 2]
      /\ skip' = SkipAfter(S)
      /\ heard' = Forget({}, S)
  BY DEF Expire, Path
<1>2. /\ TypeOK /\ Focus /\ Verdicts /\ Local(m) /\ S \in SUBSET Kids(m)
      /\ Path' = Path /\ Over' = Over /\ Ticked' = Ticked
      /\ \A d : Fresh(d)' <=> Fresh(d)
  BY <1>1 DEF IInv, Path, Over, Ticked, Fresh
<1>3. status[m] = "RUNNING"
  <2>1. status[m] # "RUNNING" => idx[m] = 0
    BY <1>1, <1>2 DEF Local, Quiet
  <2> QED
    BY <1>1, <2>1
<1> HIDE DEF S
<1>4. \A p \in Nodes : Reaches(S, p) => m \in Above[p] /\ p # m /\ p \notin Above[m]
  BY <1>2, ReachesBelow
\* The timer fires only when nobody below it is being ticked.
<1>5. \A p \in Nodes : Reaches(S, p) => p \notin Path /\ p # at
  <2> SUFFICES ASSUME NEW p \in Nodes, Reaches(S, p)
               PROVE  p \notin Path /\ p # at
    OBVIOUS
  <2>1. m \in Above[p]
    BY <1>4
  <2>2. CASE at = "outside"
    BY <2>2, TreeAssumption DEF Path
  <2>3. CASE at # "outside"
    <3>1. at \in Nodes /\ Path = Above[at]
      BY <1>2, <2>3 DEF TypeOK, Path
    <3>2. p \notin Above[at]
      BY <1>1, <2>1, <3>1, AboveTransitive
    <3> QED
      BY <1>1, <2>1, <3>1, <3>2
  <2> QED
    BY <2>2, <2>3
<1>6. ASSUME NEW p \in Nodes, NEW d \in Kids(p)
      PROVE  /\ d \in Nodes \ {Root} /\ Parent[d] = p
             /\ heard'[d] = IF Halts(S, p) THEN "none" ELSE heard[d]
  <2>1. d \in Nodes \ {Root} /\ Parent[d] = p
    BY KidOf
  <2> QED
    BY <1>1, <2>1 DEF Forget
<1>7. /\ \A p \in Nodes : /\ status'[p] = IF Reaches(S, p) THEN "IDLE" ELSE status[p]
                          /\ skip'[p] = IF Halts(S, p) THEN {} ELSE skip[p]
      /\ \A p \in Nodes \ {m} : idx'[p] = IF Halts(S, p) THEN 0 ELSE idx[p]
      /\ ~Reaches(S, m) /\ ~Halts(S, m) /\ idx'[m] = 2
  BY <1>1, <1>4 DEF StatusAfter, SkipAfter, IdxAfter, Halts
<1>8. m # Root => heard'[m] = heard[m] /\ Parent[m] \in Nodes
  <2> SUFFICES ASSUME m # Root PROVE heard'[m] = heard[m] /\ Parent[m] \in Nodes
    OBVIOUS
  <2>1. Parent[m] \in Nodes /\ m \in Kids(Parent[m]) /\ Parent[m] \in Above[m]
    BY ParentOf, AboveKid
  <2>2. ~Halts(S, Parent[m])
    BY <1>4, <2>1 DEF Halts
  <2> QED
    BY <1>6, <2>1, <2>2
<1>9. Elsewhere(m, S, {})
  <2>1. Link(m)
    BY <1>7, <1>8 DEF Link
  <2>2. \A p \in Nodes \ {m} : \A d \in Kids(p) :
          /\ heard'[d] = IF Halts(S, p) THEN "none" ELSE heard[d]
          /\ at = d => ~Reaches(S, d)
    BY <1>5, <1>6
  <2> QED
    BY <1>1, <1>2, <1>5, <1>7, <2>1, <2>2 DEF Elsewhere
<1>10. Local(m)'
  <2>1. First(m) \in Kids(m) /\ First(m)' = First(m)
    BY <1>1, <1>2, FirstKid DEF Leaf, First
  <2>2. \A d \in Kids(m) : status'[d] = "IDLE"
    <3>1. \A d \in Kids(m) : Reaches(S, d)
      BY <1>2, ReachesKid DEF S
    <3> QED
      BY <1>6, <1>7, <3>1
  <2>3. status'[m] = "RUNNING" /\ skip'[m] = skip[m] /\ m \notin Path'
    BY <1>1, <1>2, <1>3, <1>7
  <2>4. Quiet(m)' /\ Unused(m)' /\ TimedOut(m)' /\ Closed(m)' /\ Settled(m)'
    BY <1>1, <1>2, <2>1, <2>2, <2>3
       DEF Local, Quiet, Unused, TimedOut, Closed, Settled
  <2>5. InOrder(m)' /\ Reacting(m)' /\ Listed(m)' /\ Marked(m)'
    BY <1>1, <1>2, <2>3 DEF InOrder, Reacting, Listed, Marked, Memory, Reactive
  <2> QED
    BY <2>4, <2>5 DEF Local
<1>11. \A p \in Nodes : Local(p)'
  BY <1>2, <1>9, <1>10, LocalFrame
<1>12. TypeOK' /\ (idx \in [Nodes -> Nat])'
  <2> DEFINE s == status[m]
             k == skip[m]
             i == 2
  <2>1. Forget({}, S) \in [Nodes -> Status \cup {"none"}]
    BY HeardTypes
  <2>2. /\ status' = [StatusAfter(S) EXCEPT ![m] = s]
        /\ skip' = [SkipAfter(S) EXCEPT ![m] = k]
        /\ idx' = [IdxAfter(S) EXCEPT ![m] = i]
    BY <1>1, <1>7 DEF StatusAfter, SkipAfter
  <2>3. s \in Status /\ k \in SUBSET Nodes /\ Within(m, i)
    BY <1>1, <1>2 DEF TypeOK, Status, Within, Control, Memory, Reactive
  <2>4. at' \in Nodes \cup {"outside"} /\ back' \in (Status \cup {"none"}) \ {"IDLE"}
    BY <1>1, <1>2 DEF TypeOK
  <2>5. heard' \in [Nodes -> Status \cup {"none"}]
    BY <1>1, <2>1
  <2>6. kind' = kind /\ S \in SUBSET Kids(m)
    BY <1>1, <1>2
  <2> HIDE DEF s, k, i
  <2> QED
    BY <2>2, <2>3, <2>4, <2>5, <2>6, TypesAfter
<1>13. ASSUME at # "outside"
       PROVE  /\ at \in Nodes /\ status'[at] = status[at] /\ heard'[at] = heard[at]
              /\ \A d \in Kids(at) : heard'[d] = heard[d]
              /\ Skipped(at)' <=> Skipped(at)
  <2>1. at \in Nodes /\ status'[at] = status[at] /\ ~Halts(S, at)
    BY <1>2, <1>5, <1>7, <1>13 DEF TypeOK, Halts
  <2>2. at # Root => Parent[at] \in Nodes /\ at \in Kids(Parent[at]) /\ ~Halts(S, Parent[at])
    <3> SUFFICES ASSUME at # Root
                 PROVE  Parent[at] \in Nodes /\ at \in Kids(Parent[at]) /\ ~Halts(S, Parent[at])
      OBVIOUS
    <3>1. Parent[at] \in Nodes /\ at \in Kids(Parent[at]) /\ Parent[at] \in Above[at]
      BY <2>1, ParentOf, AboveIs
    <3>2. Parent[at] \in Path
      BY <1>13, <3>1 DEF Path
    <3> QED
      BY <1>5, <3>1, <3>2 DEF Halts
  <2>3. heard'[at] = heard[at]
    BY <1>1, <2>1, <2>2 DEF Forget
  <2>4. \A d \in Kids(at) : heard'[d] = heard[d]
    BY <1>6, <2>1
  <2>5. at # Root => skip'[Parent[at]] = skip[Parent[at]]
    BY <1>7, <2>2
  <2> QED
    BY <1>1, <2>1, <2>3, <2>4, <2>5 DEF Skipped
<1>14. Focus'
  BY <1>1, <1>2, <1>13 DEF Focus
<1>15. Verdicts'
  <2> SUFFICES ASSUME at # "outside", back # "none", ~Skipped(at)
               PROVE  Promise(at, back)'
    BY <1>1, <1>13 DEF Verdicts, Promise
  <2>1. Promise(at, back)
    BY <1>2 DEF Verdicts, Promise
  <2>2. PICK n \in Nodes, r \in Status : n = at /\ r = back
    BY <1>2, <1>13 DEF TypeOK
  <2>3. Promise(n, r) /\ kind' = kind /\ \A d \in Kids(n) : heard'[d] = heard[d]
    BY <1>1, <1>13, <2>1, <2>2
  <2>4. Promise(n, r)'
    BY <2>3, PromiseKept
  <2>5. at' = n /\ back' = r
    BY <1>1, <2>2
  <2> QED
    BY <2>4, <2>5 DEF Promise, SequencePromise, ParallelPromise, Advancing
<1> QED
  BY <1>11, <1>12, <1>14, <1>15 DEF IInv

\* A node above n is above it by one of its children.
LEMMA AboveVia ==
  ASSUME NEW n \in Nodes, NEW p \in Above[n]
  PROVE  \E d \in Kids(p) : d = n \/ d \in Above[n]
<1> DEFINE S == {m \in Nodes : p \in Above[m] /\ ~\E d \in Kids(p) : d = m \/ d \in Above[m]}
<1>1. ASSUME S # {}
      PROVE  FALSE
  <2>1. PICK m \in S : m = Root \/ Parent[m] \notin S
    BY <1>1, Topmost
  <2>2. m # Root /\ Above[m] = {Parent[m]} \cup Above[Parent[m]]
    BY <2>1, AboveIs
  <2>3. Parent[m] \in Nodes /\ m \in Kids(Parent[m])
    BY <2>1, <2>2, ParentOf
  <2>4. p # Parent[m] /\ p \in Above[Parent[m]]
    BY <2>1, <2>2, <2>3
  <2>5. PICK d \in Kids(p) : d = Parent[m] \/ d \in Above[Parent[m]]
    BY <2>1, <2>2, <2>3, <2>4
  <2> QED
    BY <2>1, <2>2, <2>5
<1> QED
  BY <1>1

\* An exception leaves every node that waited RUNNING, or without progress.
LEMMA ThrowStep ==
  ASSUME Contained, IInv, NEW n \in Nodes, Throw(n)
  PROVE  IInv'
<1>1. /\ at = n /\ back = "none" /\ kind[n] \in Leaf /\ kind \in Throwing
      /\ at' = "outside" /\ back' = back /\ kind' = kind /\ status' = status
      /\ idx' = idx /\ skip' = skip /\ heard' = heard
  BY DEF Throw, Ticks
<1>2. /\ TypeOK /\ idx \in [Nodes -> Nat] /\ "outside" \notin Nodes
      /\ Path = Above[n] /\ Path \subseteq Nodes
  BY <1>1, TreeAssumption, AboveNodes DEF IInv, Path
<1>3. /\ Path' = {} /\ Ticked' = {} /\ Over = {} /\ Over' = {}
      /\ \A d : ~Fresh(d) /\ ~Fresh(d)'
  BY <1>1, <1>2 DEF Path, Ticked, Over, Fresh
<1>4. Kids(n) = {}
  BY <1>1, <1>2, KindIs DEF Kids
<1>5. ASSUME NEW p \in Path
      PROVE  \/ status[p] = "RUNNING"
             \/ /\ kind[p] = "SubTree"
                /\ \A d \in Kids(p) : d = n
  <2>1. PICK d \in Kids(p) : d = n \/ d \in Above[n]
    BY <1>2, AboveVia
  <2>2. p \in Nodes \ Leaves /\ kind \in Kinds
    BY <1>2, <2>1 DEF Leaves, Kids, TypeOK
  <2>3. CASE kind[p] \in Marking
    BY <2>2, <2>3 DEF IInv, Local, Marked
  <2>4. CASE kind[p] = "SubTree" /\ First(p) \in Leaves
    <3>1. Kids(p) = {First(p)} /\ Kids(First(p)) = {}
      <4>1. Kids(p) = {First(p)}
        BY <1>2, <2>2, <2>4, FirstKid DEF Leaf, Decorator, Wrapper
      <4>2. Children[First(p)] = <<>>
        BY <2>4 DEF Leaves
      <4>3. Kids(First(p)) = {}
        BY <4>2 DEF Kids
      <4> QED
        BY <4>1, <4>3
    <3>2. d \notin Above[n]
      <4> SUFFICES ASSUME d \in Above[n] PROVE FALSE
        OBVIOUS
      <4>1. \E e \in Kids(d) : e = n \/ e \in Above[n]
        BY AboveVia
      <4> QED
        BY <2>1, <3>1, <4>1
    <3> QED
      BY <2>1, <2>4, <3>1, <3>2
  <2> QED
    BY <1>1, <2>2, <2>3, <2>4 DEF Contained
<1>6. ASSUME NEW p \in Nodes
      PROVE  Local(p)'
  <2>1. Local(p)
    BY DEF IInv
  <2>2. Quiet(p)'
    <3> SUFFICES ASSUME status[p] # "RUNNING",
                        kind[p] = "SequenceStar" => status[p] = "SUCCESS"
                 PROVE  /\ idx[p] = 0 /\ skip[p] = {}
                        /\ kind[p] \in {"Sequence", "Fallback", "Parallel"}
                             => \A d \in Kids(p) : heard[d] = "none"
      BY <1>1, Zenon DEF Quiet
    <3>1. CASE p \in Path
      BY <1>5, <2>1, <3>1 DEF Local, Unused
    <3>2. CASE p \notin Path
      BY <1>3, <2>1, <3>2 DEF Local, Quiet
    <3> QED
      BY <3>1, <3>2
  <2>3. Closed(p)'
    <3> SUFFICES ASSUME NEW d \in Kids(p), status[d] = "RUNNING"
                 PROVE  status[p] = "RUNNING"
      BY <1>1 DEF Closed
    <3>1. CASE p \notin Path
      BY <2>1, <3>1 DEF Local, Closed
    <3>2. CASE p \in Path /\ status[p] # "RUNNING"
      <4>1. kind[p] = "SubTree" /\ d = n
        BY <1>5, <3>2
      <4>2. n = First(p)
        BY <1>2, <4>1, FirstKid DEF Leaf, Decorator, Wrapper
      <4> QED
        BY <1>1, <2>1, <4>1, <4>2 DEF Local, Marked
    <3> QED
      BY <3>1, <3>2
  <2>4. InOrder(p)'
    <3>1. \A d \in Kids(p) : Passed(p, d)' <=> Passed(p, d)
      BY <1>1 DEF Passed, Advancing
    <3> QED
      BY <1>1, <1>3, <2>1, <3>1 DEF Local, InOrder
  <2>5. Unused(p)' /\ Reacting(p)' /\ TimedOut(p)' /\ Settled(p)'
    BY <1>1, <1>3, <2>1 DEF Local, Unused, Reacting, TimedOut, Settled, First
  <2>6. Listed(p)'
    BY <1>1, <1>3, <2>1 DEF Local, Listed
  <2>7. Marked(p)'
    <3>1. kind[p] = "SubTree" => First(p) \in Nodes
      BY <1>2, FirstKid, AboveKid DEF Leaf
    <3> QED
      BY <1>1, <1>2, <1>3, <3>1 DEF Marked, First
  <2> QED
    BY <2>2, <2>3, <2>4, <2>5, <2>6, <2>7 DEF Local
<1>7. TypeOK' /\ (idx \in [Nodes -> Nat])' /\ Focus' /\ Verdicts'
  BY <1>1, <1>2 DEF TypeOK, Focus, Verdicts
<1> QED
  BY <1>6, <1>7 DEF IInv
-----------------------------------------------------------------------------
(* The theorems.                                                           *)

LEMMA InitIInv ==
  ASSUME Init
  PROVE  IInv
<1>1. /\ kind \in Kinds /\ at = "outside" /\ back = "none"
      /\ status = [n \in Nodes |-> "IDLE"] /\ idx = [n \in Nodes |-> 0]
      /\ skip = [n \in Nodes |-> {}] /\ heard = [n \in Nodes |-> "none"]
  BY DEF Init
<1>2. /\ Path = {} /\ Ticked = {} /\ Over = {} /\ \A d \in Nodes : ~Fresh(d)
  BY <1>1, TreeAssumption DEF Path, Ticked, Over, Fresh
<1>3. TypeOK
  <2>1. \A n \in Nodes : /\ Len(Children[n]) \in Nat
                         /\ Count[n] \in Nat
    BY Children1, KindAssumption
  <2> QED
    BY <1>1, <2>1 DEF TypeOK, Status
<1>4. ASSUME NEW p \in Nodes
      PROVE  Local(p)
  <2>1. \A d \in Kids(p) : d \in Nodes /\ Pos[d] \in Nat /\ Pos[d] > 0
    BY KidOf, Children1
  <2>2. kind[p] \in Memory => 0 < Len(Children[p])
    BY <1>3, KindIs DEF Memory, Leaf
  <2>3. kind[p] = "SubTree" => First(p) \in Nodes
    BY <1>3, <2>1, FirstKid DEF Leaf
  <2>4. Quiet(p) /\ Unused(p) /\ Reacting(p) /\ TimedOut(p) /\ Settled(p) /\ Closed(p)
    BY <1>1, <1>2, <2>1 DEF Quiet, Unused, Reacting, TimedOut, Settled, Closed
  <2>5. InOrder(p)
    BY <1>1, <1>2, <2>1, <2>2 DEF InOrder
  <2>6. Listed(p)
    BY <1>1, <1>2, <2>1 DEF Listed, Decided
  <2>7. Marked(p)
    BY <1>1, <1>2, <2>3, TreeAssumption DEF Marked
  <2> QED
    BY <2>4, <2>5, <2>6, <2>7 DEF Local
<1>5. Focus /\ Verdicts /\ idx \in [Nodes -> Nat]
  BY <1>1 DEF Focus, Verdicts
<1> QED
  BY <1>3, <1>4, <1>5 DEF IInv

LEMMA StutterStep ==
  ASSUME IInv, UNCHANGED vars
  PROVE  IInv'
<1>1. /\ kind' = kind /\ status' = status /\ idx' = idx /\ skip' = skip
      /\ at' = at /\ back' = back /\ heard' = heard
  BY DEF vars
<1>2. /\ Path' = Path /\ Ticked' = Ticked /\ Over' = Over
      /\ \A d : Fresh(d)' <=> Fresh(d)
  BY <1>1 DEF Path, Ticked, Over, Fresh
<1>3. ASSUME NEW p \in Nodes
      PROVE  Local(p)'
  <2>1. Local(p)
    BY DEF IInv
  <2>2. /\ Quiet(p)' /\ Unused(p)' /\ Reacting(p)' /\ TimedOut(p)' /\ Marked(p)'
        /\ Closed(p)' /\ Settled(p)'
    BY <1>1, <1>2, <2>1 DEF Local, Quiet, Unused, Reacting, TimedOut, Marked, Closed,
       Settled, First, Advancing
  <2>3. InOrder(p)'
    BY <1>1, <1>2, <2>1 DEF Local, InOrder, Passed, Advancing
  <2>4. Listed(p)'
    <3>1. \A c, r : SeenBefore(p, c, r)' = SeenBefore(p, c, r)
      BY <1>1 DEF SeenBefore
    <3> QED
      BY <1>1, <1>2, <2>1, <3>1 DEF Local, Listed
  <2> QED
    BY <2>2, <2>3, <2>4 DEF Local
<1>4. TypeOK' /\ (idx \in [Nodes -> Nat])' /\ Focus'
  BY <1>1 DEF IInv, TypeOK, Focus
<1>5. Verdicts'
  BY <1>1 DEF IInv, Verdicts, Promise, Skipped, SequencePromise, ParallelPromise, Advancing
<1> QED
  BY <1>3, <1>4, <1>5 DEF IInv

\* One case per action.
LEMMA NextIInv ==
  ASSUME Contained, IInv, [Next]_vars
  PROVE  IInv'
<1>1. CASE Host
  BY <1>1, TickRootStep, RootReturnsStep, HaltRootStep DEF Host
<1>2. CASE at \in Nodes /\ Step(at)
  <2>1. PICK n \in Nodes : n = at /\ Step(n)
    BY <1>2
  <2>2. CASE \/ TickLeaf(n) \/ Throw(n) \/ TickMemory(n) \/ TickReactive(n)
             \/ TickParallel(n) \/ TickSwitch(n) \/ TickWrapper(n) \/ TickTimeout(n)
             \/ TickExpired(n) \/ GateOpens(n) \/ GateCloses(n)
    BY <2>2, TickLeafStep, ThrowStep, TickMemoryStep, TickReactiveStep,
       TickParallelStep, TickSwitchStep, TickWrapperStep, TickTimeoutStep,
       TickExpiredStep, GateOpensStep, GateClosesStep
  <2>3. CASE \/ ChildRunning(n) \/ ReactiveRunning(n) \/ NextChild(n) \/ AllAdvanced(n)
             \/ Decides(n) \/ ParallelHears(n) \/ SwitchHears(n) \/ TickAgain(n)
             \/ RetryNextTick(n) \/ DecoratorDecides(n)
    BY <2>1, <2>3, ChildRunningStep, ReactiveRunningStep, NextChildStep,
       AllAdvancedStep, DecidesStep, ParallelHearsStep, SwitchHearsStep,
       TickAgainStep, RetryNextTickStep, DecoratorDecidesStep
  <2> QED
    BY <2>1, <2>2, <2>3 DEF Step
<1>3. CASE \E n \in Nodes : Expire(n)
  BY <1>3, ExpireStep
<1>4. CASE UNCHANGED vars
  BY <1>4, StutterStep
<1> QED
  BY <1>1, <1>2, <1>3, <1>4 DEF Next

\* The invariant holds throughout, in every tree that is Contained, of classes
\* that the build may give its nodes.
THEOREM Invariant ==
  ASSUME Contained
  PROVE  Spec => []IInv
<1>1. Init => IInv
  BY InitIInv
<1>2. IInv /\ [Next]_vars => IInv'
  BY NextIInv
<1> QED
  BY <1>1, <1>2, PTL DEF Spec

\* Between two ticks a RUNNING node has a RUNNING parent, so that one is halted
\* from the root or is the root itself.
LEMMA RunningPath ==
  ASSUME IInv, at = "outside", NEW n \in Nodes \ {Root}, status[n] = "RUNNING"
  PROVE  Reaches(Kids(Root), n) /\ status[Root] = "RUNNING"
<1> DEFINE S == {m \in Nodes \ {Root} :
                   status[m] = "RUNNING"
                   /\ ~(Reaches(Kids(Root), m) /\ status[Root] = "RUNNING")}
<1>1. ASSUME S # {}
      PROVE  FALSE
  <2>1. PICK m \in S : m = Root \/ Parent[m] \notin S
    BY <1>1, Topmost
  <2> DEFINE p == Parent[m]
  <2>2. /\ m \in Nodes \ {Root} /\ status[m] = "RUNNING"
        /\ ~(Reaches(Kids(Root), m) /\ status[Root] = "RUNNING")
        /\ p \in Nodes /\ m \in Kids(p) /\ p \notin S
    BY <2>1, ParentOf
  <2> HIDE DEF p
  <2>3. status[p] = "RUNNING"
    BY <2>2, OutsideFacts DEF IInv, Local, Closed
  <2>4. Root \in Nodes /\ Kids(Root) \in SUBSET Kids(Root)
    BY RootFacts
  <2>5. CASE p = Root
    <3>1. Reaches(Kids(Root), m)
      BY <2>2, <2>4, <2>5, ReachesKid
    <3> QED
      BY <2>2, <2>3, <2>5, <3>1
  <2>6. CASE p # Root
    <3>1. Reaches(Kids(Root), p) /\ status[Root] = "RUNNING"
      BY <2>2, <2>3, <2>6
    <3>2. Reaches(Kids(Root), m)
      BY <2>2, <2>3, <2>4, <3>1, ReachesDown
    <3> QED
      BY <2>2, <3>1, <3>2
  <2> QED
    BY <2>5, <2>6
<1> QED
  BY <1>1

LEMMA Restarted ==
  ASSUME IInv
  PROVE  DecidedTreeRestarts
<1> SUFFICES ASSUME at = "outside", status[Root] = "IDLE", NEW n \in Nodes
             PROVE  /\ status[n] # "RUNNING" /\ skip[n] = {}
                    /\ kind[n] # "SequenceStar" => idx[n] = 0
  BY DEF DecidedTreeRestarts
<1>1. status[n] # "RUNNING"
  BY RunningPath
<1>2. n \notin Path /\ Quiet(n) /\ Unused(n)
  BY OutsideFacts DEF IInv, Local
<1>3. CASE kind[n] = "SequenceStar"
  BY <1>1, <1>2, <1>3 DEF Unused
<1>4. CASE kind[n] # "SequenceStar"
  BY <1>1, <1>2, <1>4 DEF Quiet
<1> QED
  BY <1>1, <1>3, <1>4

LEMMA Once ==
  ASSUME IInv
  PROVE  DecidedOnce
<1> SUFFICES ASSUME at # "outside", at # Root, back = "none",
                    kind[Parent[at]] \in {"Sequence", "Fallback", "Parallel"}
             PROVE  heard[at] \notin Decided
  BY DEF DecidedOnce
<1> DEFINE p == Parent[at]
<1>1. at \in Nodes \ {Root}
  BY DEF IInv, TypeOK
<1>2. p \in Nodes /\ at \in Kids(p) /\ at \in Ticked /\ ~Fresh(at) /\ p \notin Over
  BY <1>1, ParentOf DEF Ticked, Fresh, Over
<1>3. InOrder(p) /\ Listed(p) /\ idx \in [Nodes -> Nat]
  BY <1>2 DEF IInv, Local
<1> HIDE DEF p
<1>4. CASE kind[p] = "Parallel"
  <2>1. at \notin skip[p]
    BY <1>2, <1>3, <1>4 DEF Listed
  <2> QED
    BY <1>2, <1>3, <1>4, <2>1 DEF Listed, Decided
<1>5. CASE kind[p] \in {"Sequence", "Fallback"}
  BY <1>2, <1>3, <1>5 DEF InOrder, Memory, Decided
<1> QED
  BY <1>4, <1>5 DEF p

\* Progress, skip lists and results stay within their types and bounds, in every
\* tree (TypeOK).
THEOREM TypeCorrect ==
  ASSUME Contained
  PROVE  Spec => []TypeOK
<1>1. IInv => TypeOK
  BY DEF IInv
<1> QED
  BY <1>1, Invariant, PTL

\* Halting the tree between two ticks reaches every RUNNING node, however the
\* last tick ended: no action is left running behind the host's back.
THEOREM HaltReachesAll ==
  ASSUME Contained
  PROVE  Spec => []NoneEscapes
<1>1. IInv => NoneEscapes
  BY RunningPath DEF NoneEscapes, Reached
<1> QED
  BY <1>1, Invariant, PTL

\* A tick that has decided leaves nothing behind for the next one.
THEOREM NothingLeftBehind ==
  ASSUME Contained
  PROVE  Spec => []DecidedTreeRestarts
<1>1. IInv => DecidedTreeRestarts
  BY Restarted
<1> QED
  BY <1>1, Invariant, PTL

\* What a control node returns is what its class promises about its children,
\* over however many ticks their results came in, and with halts, timeouts and
\* exceptions in between. The verdict of a reactive node is that of a memory
\* node; ReactivePromise asks less of it.
THEOREM PromisesHold ==
  ASSUME Contained
  PROVE  Spec => []Promises
<1>1. ASSUME IInv, at # "outside", back # "none", ~Skipped(at), kind[at] \in Reactive
      PROVE  ReactivePromise(at, back)
  <2>1. SequencePromise(at, back)
    BY <1>1 DEF IInv, Verdicts, Promise
  <2>2. at \in Nodes
    BY <1>1 DEF IInv, TypeOK
  <2>3. /\ Len(Children[at]) \in Nat
        /\ DOMAIN Children[at] = 1 .. Len(Children[at])
    BY <2>2, Children1
  <2>4. Advancing(at) \in {"SUCCESS", "FAILURE"}
    BY DEF Advancing
  <2>5. CASE back = Advancing(at)
    <3>1. \A i \in DOMAIN Children[at] : heard[Children[at][i]] = back
      BY <2>1, <2>5 DEF SequencePromise
    <3> QED
      BY <2>4, <2>5, <3>1 DEF ReactivePromise
  <2>6. CASE back # Advancing(at)
    <3>1. PICK i \in DOMAIN Children[at] :
            /\ heard[Children[at][i]] = back
            /\ \A j \in 1 .. i - 1 : heard[Children[at][j]] = Advancing(at)
            /\ \A j \in DOMAIN Children[at] : j > i => heard[Children[at][j]] = "none"
      BY <2>1, <2>6 DEF SequencePromise
    <3>2. \A j \in DOMAIN Children[at] : j = i \/ j > i \/ j \in 1 .. i - 1
      BY <2>3
    <3> QED
      BY <2>4, <2>6, <3>1, <3>2 DEF ReactivePromise
  <2> QED
    BY <2>5, <2>6
<1>2. IInv => Promises
  BY <1>1 DEF IInv, Verdicts, Promise, Promises
<1> QED
  BY <1>2, Invariant, PTL

\* A child that has decided is not ticked again while its parent goes on.
THEOREM NotTickedAgain ==
  ASSUME Contained
  PROVE  Spec => []DecidedOnce
<1>1. IInv => DecidedOnce
  BY Once
<1> QED
  BY <1>1, Invariant, PTL
=============================================================================
