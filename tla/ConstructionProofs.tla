------------------------- MODULE ConstructionProofs -------------------------
(***************************************************************************)
(* Theorems about the construction of a tree from documents of any size.   *)
(* A node in the making has the first of its children, and the others are  *)
(* on the agenda, in one run and in their order.                           *)
(***************************************************************************)
EXTENDS Construction, FiniteSetTheorems, SequenceTheorems, WellFoundedInduction, TLAPS

WellFormed ==
  /\ above \in [Elements -> Elements \cup Trees]
  /\ \A e \in Elements : above[e] \in Elements => above[e] < e
  /\ second \in Secondary

Accepted ==
  /\ FileFine("included", InFile("included")) /\ FileFine("opened", Trees)
  /\ MainFine

\* The elements of the nodes below a node of the element e.
Inner(e) == IF Kind(e) = "subtree" THEN <<RootOf(InstanceName(e))>> ELSE Below(e)

Node == [el : Elements, kids : Seq(Nat)]
Entry == Elements \X Nat

Shapes ==
  /\ nodes \in Seq(Node)
  /\ agenda \in Seq(Entry)
  /\ \A i \in DOMAIN agenda : agenda[i][2] <= Len(nodes)

Verified == outcome \in {"creating", "built"} => Accepted

\* From the root of the main tree.
Started ==
  /\ outcome = "loading" => nodes = <<>> /\ agenda = <<>>
  /\ outcome = "creating" /\ nodes = <<>> => agenda = <<<<RootOf("main"), 0>>>>
  /\ outcome = "built" => nodes # <<>> /\ agenda = <<>>
  /\ nodes # <<>> => nodes[1].el = RootOf("main")

\* The children that have been made.
Made(m) ==
  LET e == nodes[m].el
      kids == nodes[m].kids
  IN  /\ Kind(e) = "leaf" => kids = <<>>
      /\ Kind(e) = "subtree" => InstanceName(e) \in DOMAIN TreeRoots
      /\ Kind(e) = "decorator" => Len(kids) <= 1
      /\ Kind(e) # "leaf" => Len(kids) <= Len(Inner(e))
      /\ \A i \in 1 .. Len(kids) :
           kids[i] \in DOMAIN nodes /\ nodes[kids[i]].el = Inner(e)[i]

\* All but the first k of els are on the agenda a for the node m, behind o entries.
Queued(a, m, els, k) ==
  \E o \in Nat :
    /\ \A i \in DOMAIN a : a[i][2] = m => i > o /\ i <= o + (Len(els) - k)
    /\ \A j \in 1 .. Len(els) - k : o + j \in DOMAIN a /\ a[o + j] = <<els[k + j], m>>

\* The others are still to be made.
Waiting(m) ==
  LET e == nodes[m].el
  IN  Kind(e) # "leaf" => Queued(agenda, m, Inner(e), Len(nodes[m].kids))

IInv ==
  /\ WellFormed /\ Shapes /\ Verified /\ Started
  /\ \A m \in DOMAIN nodes : Made(m) /\ Waiting(m)
-----------------------------------------------------------------------------
(* The document.                                                           *)

\* A set of numbers that is not empty has a least one.
LEMMA LeastNumber ==
  ASSUME NEW T, T \subseteq Nat, T # {}
  PROVE  \E n \in T : \A m \in T : n <= m
<1> DEFINE R == OpToRel(<, Nat)
<1>1. IsWellFoundedOn(R, Nat)
  BY NatLessThanWellFounded
<1>2. ASSUME NEW m \in Nat, NEW n \in Nat, m < n PROVE <<m, n>> \in R
  <2>1. R = {ss \in Nat \X Nat : ss[1] < ss[2]}
    BY Zenon DEF OpToRel
  <2>2. <<m, n>> \in {ss \in Nat \X Nat : ss[1] < ss[2]}
    BY <1>2
  <2> QED
    BY <2>1, <2>2, Zenon
<1> HIDE DEF R
<1>3. PICK n \in T : \A m \in T : ~(<<m, n>> \in R)
  BY <1>1, WFMin
<1>4. \A m \in T : ~(m < n)
  BY <1>2, <1>3
<1> QED
  BY <1>4

Increasing(s) == \A i, j \in DOMAIN s : i < j => s[i] < s[j]

\* Numbers up to a bound can be put in order.
LEMMA InOrder ==
  ASSUME NEW n \in Nat, NEW S \in SUBSET (1 .. n)
  PROVE  /\ Cardinality(S) \in Nat
         /\ \E s \in [1 .. Cardinality(S) -> S] : Increasing(s)
<1> DEFINE Sorted(U) == \E s \in [1 .. Cardinality(U) -> U] : Increasing(s)
           Bad == {m \in Nat : \E U \in SUBSET (1 .. m) : ~Sorted(U)}
<1>1. ASSUME NEW m \in Nat, NEW U \in SUBSET (1 .. m)
      PROVE  IsFiniteSet(U) /\ Cardinality(U) \in Nat
  <2>1. IsFiniteSet(1 .. m)
    BY FS_Interval
  <2>2. IsFiniteSet(U)
    BY <2>1, FS_Subset
  <2> QED
    BY <2>2, FS_CardinalityType
<1>2. SUFFICES ASSUME Bad # {} PROVE FALSE
  BY <1>1
<1>3. PICK m \in Bad : \A k \in Bad : m <= k
  BY <1>2, LeastNumber
<1>4. PICK U \in SUBSET (1 .. m) : ~Sorted(U)
  BY <1>3
<1>5. m # 0
  <2> SUFFICES ASSUME m = 0 PROVE FALSE
    OBVIOUS
  <2>1. U = {} /\ Cardinality(U) = 0
    <3>1. U \in SUBSET (1 .. 0)
      OBVIOUS
    <3>2. U = {}
      BY <3>1
    <3> QED
      BY <3>2, FS_EmptySet
  <2> DEFINE s == [i \in 1 .. Cardinality(U) |-> 0]
  <2>2. s \in [1 .. Cardinality(U) -> U] /\ Increasing(s)
    BY <2>1 DEF Increasing
  <2> QED
    BY <1>4, <2>2
<1>6. \A V \in SUBSET (1 .. m - 1) : Sorted(V)
  <2>1. m - 1 \in Nat /\ ~(m <= m - 1)
    BY <1>3, <1>5
  <2>2. m - 1 \notin Bad
    BY <1>3, <2>1
  <2> HIDE DEF Sorted
  <2> QED
    BY <2>1, <2>2
<1>7. m \in U
  <2> SUFFICES ASSUME m \notin U PROVE FALSE
    OBVIOUS
  <2>1. U \in SUBSET (1 .. m - 1)
    BY <1>3
  <2> QED
    BY <1>4, <1>6, <2>1
<1> DEFINE V == U \ {m}
           k == Cardinality(V)
<1>8. /\ V \in SUBSET (1 .. m - 1) /\ k \in Nat
      /\ Cardinality(U) = k + 1
  <2>1. V \in SUBSET (1 .. m - 1) /\ m - 1 \in Nat
    BY <1>3, <1>5
  <2>2. IsFiniteSet(U) /\ Cardinality(U) \in Nat /\ k \in Nat
    BY <1>1, <1>3, <2>1
  <2>3. k = Cardinality(U) - 1
    BY <1>7, <2>2, FS_RemoveElement
  <2> QED
    BY <2>1, <2>2, <2>3
<1>9. PICK s \in [1 .. k -> V] : Increasing(s)
  BY <1>6, <1>8
<1> HIDE DEF k
<1> DEFINE t == [i \in 1 .. k + 1 |-> IF i = k + 1 THEN m ELSE s[i]]
<1>10. t \in [1 .. k + 1 -> U]
  BY <1>7, <1>8, <1>9
<1>11. Increasing(t)
  <2> SUFFICES ASSUME NEW i \in 1 .. k + 1, NEW j \in 1 .. k + 1, i < j
               PROVE  t[i] < t[j]
    BY DEF Increasing
  <2>1. i \in 1 .. k /\ s[i] \in V /\ s[i] < m
    <3>1. i \in 1 .. k
      BY <1>8
    <3>2. s[i] \in V /\ s[i] \in 1 .. m - 1
      BY <1>8, <1>9, <3>1
    <3> QED
      BY <1>3, <3>1, <3>2
  <2>2. CASE j = k + 1
    BY <2>1, <2>2, <1>8
  <2>3. CASE j # k + 1
    <3>1. j \in 1 .. k
      BY <2>3, <1>8
    <3> QED
      BY <2>1, <2>3, <3>1, <1>8, <1>9 DEF Increasing
  <2> QED
    BY <2>2, <2>3
<1> QED
  BY <1>4, <1>8, <1>10, <1>11

\* Below gives the elements in the order of the document.
LEMMA BelowIs ==
  ASSUME NEW x
  PROVE  /\ Below(x) \in Seq(Elements)
         /\ Len(Below(x)) \in Nat
<1> DEFINE S == {e \in Elements : above[e] = x}
<1>1. Size \in Nat /\ S \in SUBSET (1 .. Size)
  BY ConstructionAssumption DEF Elements
<1>2. Cardinality(S) \in Nat
  BY <1>1, InOrder
<1>3. \E s \in [1 .. Cardinality(S) -> S] : \A i, j \in DOMAIN s : i < j => s[i] < s[j]
  BY <1>1, InOrder, Zenon DEF Increasing
<1>4. Below(x) \in [1 .. Cardinality(S) -> S]
  BY <1>3, Zenon DEF Below
<1>5. Below(x) \in [1 .. Cardinality(S) -> Elements]
  BY <1>4
<1>6. Below(x) \in Seq(Elements)
  BY <1>2, <1>5, SeqDef
<1> QED
  BY <1>6, LenProperties

LEMMA Apart ==
  /\ Trees \subseteq {First, Second}
  /\ \A t \in Trees : t \notin Elements
  BY ConstructionAssumption DEF Trees, First, Second, Elements

\* TreeOf is what its recursive definition says: the one tree that is in every
\* set with the element that holds what is above its elements.
LEMMA TreeOfIs ==
  ASSUME WellFormed, NEW e \in Elements
  PROVE  TreeOf[e] = IF above[e] \in Trees THEN above[e] ELSE TreeOf[above[e]]
<1> DEFINE Shut(S) == \A x \in Elements : x \in S => above[x] \in S
           Ends(x) == {t \in Trees : \A S \in SUBSET (Elements \cup Trees) :
                                       x \in S /\ Shut(S) => t \in S}
           Next1(h) == [x \in Elements |-> IF above[x] \in Trees THEN above[x]
                                           ELSE h[above[x]]]
           f == [x \in Elements |-> CHOOSE t : t \in Ends(x)]
<1>1. \A x \in Elements : above[x] \in Elements \cup Trees
  BY DEF WellFormed
<1>2. ASSUME NEW x \in Elements, above[x] \in Trees
      PROVE  f[x] = above[x]
  <2>1. above[x] \in Ends(x)
    BY <1>2
  <2>2. ASSUME NEW t \in Ends(x) PROVE t = above[x]
    <3> DEFINE S == {x, above[x]}
    <3>1. S \in SUBSET (Elements \cup Trees) /\ x \in S /\ Shut(S)
      BY <1>2, Apart
    <3>2. t \in S
      BY <3>1
    <3> QED
      BY <3>2, Apart
  <2>3. Ends(x) = {above[x]}
    BY <2>1, <2>2
  <2> HIDE DEF Ends
  <2>4. f[x] = CHOOSE t : t \in Ends(x)
    OBVIOUS
  <2> QED
    BY <2>3, <2>4
<1>3. ASSUME NEW x \in Elements, above[x] \notin Trees
      PROVE  f[x] = f[above[x]]
  <2>1. above[x] \in Elements
    BY <1>1, <1>3
  <2>2. ASSUME NEW t \in Ends(x) PROVE t \in Ends(above[x])
    <3> SUFFICES ASSUME NEW S \in SUBSET (Elements \cup Trees), above[x] \in S, Shut(S)
                 PROVE  t \in S
      OBVIOUS
    <3> DEFINE U == S \cup {x}
    <3>1. U \in SUBSET (Elements \cup Trees) /\ x \in U /\ Shut(U)
      OBVIOUS
    <3>2. t \in U /\ t # x
      BY <3>1, Apart
    <3> QED
      BY <3>2
  <2>3. ASSUME NEW t \in Ends(above[x]) PROVE t \in Ends(x)
    OBVIOUS
  <2>4. Ends(x) = Ends(above[x])
    BY <2>2, <2>3
  <2> HIDE DEF Ends
  <2> QED
    BY <2>1, <2>4
<1> HIDE DEF f
<1>4. f = Next1(f)
  <2>1. f = [x \in Elements |-> f[x]]
    BY DEF f
  <2> QED
    BY <1>2, <1>3, <2>1
<1> DEFINE up == CHOOSE h : h = Next1(h)
<1>5. up = Next1(up)
  BY <1>4
<1>6. TreeOf = up
  BY Zenon DEF TreeOf
<1> HIDE DEF up
<1> QED
  BY <1>5, <1>6

LEMMA TreeOfTrees ==
  ASSUME WellFormed, NEW e \in Elements
  PROVE  TreeOf[e] \in Trees
<1> DEFINE Bad == {x \in Elements : TreeOf[x] \notin Trees}
<1>1. SUFFICES ASSUME Bad # {} PROVE FALSE
  OBVIOUS
<1>2. Bad \subseteq Nat
  BY ConstructionAssumption DEF Elements
<1>3. PICK x \in Bad : \A y \in Bad : x <= y
  BY <1>1, <1>2, LeastNumber
<1>4. TreeOf[x] = IF above[x] \in Trees THEN above[x] ELSE TreeOf[above[x]]
  BY TreeOfIs
<1>5. above[x] \in Elements /\ above[x] < x /\ above[x] \in Bad
  BY <1>3, <1>4 DEF WellFormed
<1> QED
  BY <1>2, <1>3, <1>5

LEMMA Files ==
  ASSUME WellFormed, NEW t \in Trees
  PROVE  t \in InFile("opened") \cup InFile("included")
<1>1. second.file \in {"none", "opened", "included"}
  BY ConstructionAssumption DEF WellFormed
<1> QED
  BY <1>1 DEF InFile, FileOf, Trees, First, Second

\* The verifier has seen every element of an accepted document.
LEMMA EachFine ==
  ASSUME WellFormed, Accepted, NEW e \in Elements
  PROVE  \E known : ElementFine(e, known)
<1>1. TreeOf[e] \in InFile("opened") \cup InFile("included")
  BY TreeOfTrees, Files
<1> QED
  BY <1>1 DEF Accepted, FileFine

\* Every tree of it has a root.
LEMMA RootIsElement ==
  ASSUME WellFormed, Accepted, NEW name \in DOMAIN TreeRoots
  PROVE  RootOf(name) \in Elements
<1> DEFINE t == TreeRoots[name]
<1>1. t \in Trees
  BY DEF TreeRoots, Trees
<1>2. Len(Below(t)) = 1
  BY <1>1, Files DEF Accepted, FileFine
<1>3. Below(t)[1] \in Elements
  <2>1. Below(t) \in Seq(Elements) /\ 1 \in 1 .. Len(Below(t))
    BY <1>2, BelowIs
  <2> HIDE DEF t
  <2> QED
    BY <2>1, ElementOfSeq
<1> QED
  BY <1>3 DEF RootOf

LEMMA MainHasRoot == "main" \in DOMAIN TreeRoots
  BY DEF TreeRoots, Trees, NameOf

LEMMA InnerIs ==
  ASSUME WellFormed, Accepted, NEW e \in Elements,
         Kind(e) = "subtree" => InstanceName(e) \in DOMAIN TreeRoots
  PROVE  /\ Inner(e) \in Seq(Elements)
         /\ Len(Inner(e)) \in Nat
<1>1. CASE Kind(e) = "subtree"
  <2>1. RootOf(InstanceName(e)) \in Elements
    BY <1>1, RootIsElement
  <2> QED
    BY <1>1, <2>1 DEF Inner
<1>2. CASE Kind(e) # "subtree"
  BY <1>2, BelowIs DEF Inner
<1> QED
  BY <1>1, <1>2

\* What the operators make of a document that stays as it is.
LEMMA SameDocument ==
  ASSUME UNCHANGED document
  PROVE  /\ WellFormed' <=> WellFormed
         /\ Accepted' <=> Accepted
         /\ (DOMAIN TreeRoots)' = DOMAIN TreeRoots
         /\ \A name : RootOf(name)' = RootOf(name)
         /\ \A e : Kind(e)' = Kind(e) /\ InstanceName(e)' = InstanceName(e)
         /\ \A e : Inner(e)' = Inner(e) /\ Below(e)' = Below(e)
<1>1. /\ above' = above /\ look' = look /\ second' = second /\ wanted' = wanted
      /\ Trees' = Trees /\ \A t : NameOf(t)' = NameOf(t) /\ FileOf(t)' = FileOf(t)
  BY DEF document, Trees, NameOf, FileOf
<1>2. WellFormed' <=> WellFormed
  BY <1>1 DEF WellFormed
<1>3. \A x : Below(x)' = Below(x)
  BY <1>1 DEF Below
<1>4. TreeRoots' = TreeRoots /\ \A f : InFile(f)' = InFile(f)
  BY <1>1 DEF TreeRoots, InFile
<1>5. TreeOf' = TreeOf
  BY <1>1 DEF TreeOf
<1>6. \A e, known : ElementFine(e, known)' = ElementFine(e, known)
  BY <1>1, <1>3 DEF ElementFine
<1>7. \A f, loaded : FileFine(f, loaded)' = FileFine(f, loaded)
  BY <1>1, <1>3, <1>4, <1>5, <1>6 DEF FileFine
<1>8. Accepted' <=> Accepted
  BY <1>1, <1>4, <1>7 DEF Accepted, MainFine
<1>9. \A name : RootOf(name)' = RootOf(name)
  BY <1>3, <1>4 DEF RootOf
<1>10. \A e : IdOf(e)' = IdOf(e)
  BY <1>1 DEF IdOf
<1>11. \A e : Kind(e)' = Kind(e) /\ InstanceName(e)' = InstanceName(e)
  BY <1>1, <1>4, <1>10 DEF Kind, InstanceName, CallsTree
<1>12. \A e : Inner(e)' = Inner(e)
  BY <1>3, <1>9, <1>11 DEF Inner
<1> QED
  BY <1>2, <1>3, <1>4, <1>8, <1>9, <1>11, <1>12
-----------------------------------------------------------------------------
(* The steps.                                                              *)

LEMMA NodesStay ==
  ASSUME IInv, UNCHANGED <<document, nodes>>, Verified', Started',
         Shapes', nodes = <<>> \/ agenda' = agenda
  PROVE  IInv'
<1>1. UNCHANGED document /\ nodes' = nodes
  OBVIOUS
<1>2. WellFormed'
  BY <1>1, SameDocument DEF IInv
<1>3. ASSUME NEW m \in DOMAIN nodes
      PROVE  Made(m)' /\ Waiting(m)'
  <2>1. agenda' = agenda
    BY <1>3
  <2>2. Made(m) /\ Waiting(m)
    BY DEF IInv
  <2>3. Made(m)'
    BY <1>1, <2>2, SameDocument DEF Made
  <2>4. Waiting(m)'
    BY <1>1, <2>1, <2>2, SameDocument DEF Waiting
  <2> QED
    BY <2>3, <2>4
<1> QED
  BY <1>1, <1>2, <1>3 DEF IInv

LEMMA InitIInv == CInit => IInv
  BY EmptySeq DEF CInit, IInv, WellFormed, Shapes, Verified, Started, Node

LEMMA LoadStep == IInv /\ Load => IInv'
<1> SUFFICES ASSUME IInv, Load PROVE IInv'
  OBVIOUS
<1>1. /\ UNCHANGED document /\ nodes' = nodes /\ nodes = <<>> /\ agenda = <<>>
      /\ outcome = "loading"
  BY DEF Load, IInv, Started
<1>2. CASE outcome' = "creating" /\ agenda' = <<<<RootOf("main"), 0>>>> /\ Accepted
  <2>1. RootOf("main") \in Elements
    BY <1>2, RootIsElement, MainHasRoot DEF IInv
  <2>2. /\ agenda' \in Seq(Entry)
        /\ Len(agenda') = 1 /\ agenda'[1] = <<RootOf("main"), 0>>
    BY <1>2, <2>1 DEF Entry
  <2>3. Shapes'
    <3>1. DOMAIN agenda' = 1 .. 1
      BY <2>2, LenProperties
    <3>2. Len(nodes') = 0
      BY <1>1, EmptySeq
    <3> QED
      BY <1>1, <2>2, <3>1, <3>2 DEF Shapes, IInv
  <2>4. Verified' /\ Started'
    BY <1>1, <1>2, SameDocument DEF Verified, Started
  <2> QED
    BY <1>1, <2>3, <2>4, NodesStay
<1>3. CASE outcome' = "refused" /\ agenda' = agenda
  <2>1. Shapes' /\ Verified' /\ Started'
    BY <1>1, <1>3 DEF Shapes, IInv, Verified, Started
  <2> QED
    BY <1>1, <2>1, NodesStay
<1> QED
  BY <1>2, <1>3 DEF Load, Accepted

\* What is on the agenda when its first entry has been replaced by others.
LEMMA Replaced ==
  ASSUME NEW S, NEW s \in Seq(S), NEW t \in Seq(S), t # <<>>,
         NEW r, r = s \o Tail(t)
  PROVE  /\ r \in Seq(S)
         /\ DOMAIN r = 1 .. Len(s) + (Len(t) - 1)
         /\ \A i \in 1 .. Len(s) : r[i] = s[i]
         /\ \A i \in 2 .. Len(t) : r[i + Len(s) - 1] = t[i]
         /\ \A i \in DOMAIN r :
              \/ i \in 1 .. Len(s)
              \/ i - Len(s) + 1 \in 2 .. Len(t) /\ r[i] = t[i - Len(s) + 1]
<1>1. /\ Tail(t) \in Seq(S) /\ Len(Tail(t)) = Len(t) - 1
      /\ \A i \in 1 .. Len(t) - 1 : Tail(t)[i] = t[i + 1]
  BY HeadTailProperties
<1>2. Len(s) \in Nat /\ Len(t) \in Nat \ {0}
  BY EmptySeq, LenProperties
<1>3. /\ r \in Seq(S)
      /\ Len(r) = Len(s) + (Len(t) - 1)
      /\ \A i \in 1 .. Len(s) + (Len(t) - 1) :
           r[i] = IF i <= Len(s) THEN s[i] ELSE Tail(t)[i - Len(s)]
  BY <1>1, ConcatProperties
<1>4. DOMAIN r = 1 .. Len(s) + (Len(t) - 1)
  BY <1>3, LenProperties
<1>5. \A i \in 1 .. Len(s) : r[i] = s[i]
  BY <1>2, <1>3
<1>6. ASSUME NEW i \in 2 .. Len(t) PROVE r[i + Len(s) - 1] = t[i]
  <2>1. /\ i + Len(s) - 1 \in 1 .. Len(s) + (Len(t) - 1) /\ ~(i + Len(s) - 1 <= Len(s))
        /\ i - 1 \in 1 .. Len(t) - 1 /\ (i + Len(s) - 1) - Len(s) = i - 1 /\ (i - 1) + 1 = i
    BY <1>2
  <2> QED
    BY <1>1, <1>3, <2>1
<1>7. ASSUME NEW i \in DOMAIN r, i \notin 1 .. Len(s)
      PROVE  i - Len(s) + 1 \in 2 .. Len(t) /\ r[i] = t[i - Len(s) + 1]
  <2>1. i - Len(s) + 1 \in 2 .. Len(t) /\ (i - Len(s) + 1) + Len(s) - 1 = i
    BY <1>2, <1>4, <1>7
  <2> QED
    BY <1>6, <2>1
<1> QED
  BY <1>3, <1>4, <1>5, <1>6, <1>7

LEMMA Appended ==
  ASSUME NEW S, NEW s \in Seq(S), NEW x \in S
  PROVE  /\ Append(s, x) \in Seq(S)
         /\ Len(Append(s, x)) = Len(s) + 1
         /\ DOMAIN Append(s, x) = 1 .. Len(s) + 1
         /\ Append(s, x)[Len(s) + 1] = x
         /\ \A i \in 1 .. Len(s) : Append(s, x)[i] = s[i]
<1>1. Append(s, x) \in Seq(S) /\ Len(Append(s, x)) = Len(s) + 1
  OBVIOUS
<1>2. DOMAIN Append(s, x) = 1 .. Len(s) + 1
  BY <1>1, LenProperties
<1> QED
  BY <1>1, <1>2

\* The entries for what is below a new node.
LEMMA InsideIs ==
  ASSUME NEW e, NEW n \in Nat,
         Inner(e) \in Seq(Elements), Len(Inner(e)) \in Nat
  PROVE  /\ Inside(e, n) \in Seq(Entry)
         /\ Len(Inside(e, n)) = Len(Inner(e))
         /\ \A i \in 1 .. Len(Inner(e)) : Inside(e, n)[i] = <<Inner(e)[i], n>>
<1> DEFINE s == Inner(e)
<1>1. DOMAIN s = 1 .. Len(s)
  BY LenProperties
<1>2. Inside(e, n) = [i \in DOMAIN s |-> <<s[i], n>>]
  BY Zenon DEF Inside, Inner
<1>3. s \in Seq(Elements) /\ Len(s) \in Nat
  OBVIOUS
<1> HIDE DEF s
<1>4. \A i \in 1 .. Len(s) : s[i] \in Elements
  BY <1>3, ElementOfSeq
<1>5. Inside(e, n) \in [1 .. Len(s) -> Entry]
  BY <1>1, <1>2, <1>4 DEF Entry
<1>6. Inside(e, n) \in Seq(Entry)
  BY <1>3, <1>5, SeqDef
<1>7. DOMAIN Inside(e, n) = 1 .. Len(s)
  BY <1>5
<1>8. Len(Inside(e, n)) = Len(s)
  BY <1>3, <1>6, <1>7, LenProperties
<1>9. \A i \in 1 .. Len(s) : Inside(e, n)[i] = <<s[i], n>>
  BY <1>1, <1>2
<1> QED
  BY <1>6, <1>8, <1>9 DEF s

\* A new node is linked to its parent, if that takes children.
LEMMA LinkedIs ==
  ASSUME nodes \in Seq(Node), NEW p \in Nat, p <= Len(nodes), NEW n \in Nat
  PROVE  /\ Linked(p, n) \in Seq(Node) /\ Len(Linked(p, n)) = Len(nodes)
         /\ \A m \in DOMAIN nodes :
              /\ Linked(p, n)[m].el = nodes[m].el
              /\ Linked(p, n)[m].kids = IF m = p /\ Takes(p) THEN Append(nodes[m].kids, n)
                                        ELSE nodes[m].kids
<1>1. Len(nodes) \in Nat /\ DOMAIN nodes = 1 .. Len(nodes)
  BY LenProperties
<1>2. CASE p = 0 \/ ~Takes(p)
  BY <1>1, <1>2 DEF Linked
<1>3. CASE p # 0 /\ Takes(p)
  <2> DEFINE x == [nodes[p] EXCEPT !.kids = Append(@, n)]
  <2>1. p \in 1 .. Len(nodes)
    BY <1>1, <1>3
  <2>2. nodes[p] \in Node
    BY <2>1, ElementOfSeq
  <2>3. nodes[p].kids \in Seq(Nat) /\ nodes[p].el \in Elements
    BY <2>2 DEF Node
  <2>4. Append(nodes[p].kids, n) \in Seq(Nat)
    BY <2>3, Appended
  <2>5. x \in Node /\ x.el = nodes[p].el /\ x.kids = Append(nodes[p].kids, n)
    BY <2>2, <2>4 DEF Node
  <2>6. Linked(p, n) = [nodes EXCEPT ![p] = x]
    BY <1>3 DEF Linked
  <2> HIDE DEF x
  <2>7. /\ Linked(p, n) \in Seq(Node) /\ Len(Linked(p, n)) = Len(nodes)
        /\ \A m \in 1 .. Len(nodes) : Linked(p, n)[m] = IF m = p THEN x ELSE nodes[m]
    BY <2>1, <2>5, <2>6, ExceptSeq
  <2> QED
    BY <1>1, <1>3, <2>5, <2>7
<1> QED
  BY <1>2, <1>3

\* The sequence a has x in its place i. (The provers find their way better when
\* such a fact is a name.)
Has(a, i, x) == a[i] = x

\* The entries s are for the node n.
Tagged(s, n) == \A i \in 1 .. Len(s) : s[i][2] = n

\* The agenda r is a without its first entry, after the new entries s.
Follows(r, s, a) == r = s \o Tail(a)

\* When the first entry is taken off, those of its parent move up by one.
LEMMA FirstTaken ==
  ASSUME NEW s \in Seq(Entry), NEW a \in Seq(Entry), a # <<>>,
         NEW r, Follows(r, s, a),
         NEW n, Tagged(s, n),
         NEW m, m # n, NEW x, Has(a, 1, <<x, m>>),
         NEW els, Len(els) \in Nat, NEW k \in Nat, Queued(a, m, els, k)
  PROVE  k < Len(els) /\ Has(els, k + 1, x) /\ Queued(r, m, els, k + 1)
<1> DEFINE l == Len(els) - k
<1>1. PICK o \in Nat :
        /\ \A i \in DOMAIN a : a[i][2] = m => i > o /\ i <= o + l
        /\ \A j \in 1 .. l : o + j \in DOMAIN a /\ a[o + j] = <<els[k + j], m>>
  BY DEF Queued
<1>2. /\ DOMAIN r = 1 .. Len(s) + (Len(a) - 1)
      /\ \A i \in 1 .. Len(s) : r[i] = s[i]
      /\ \A i \in 2 .. Len(a) : r[i + Len(s) - 1] = a[i]
      /\ \A i \in DOMAIN r :
           \/ i \in 1 .. Len(s)
           \/ i - Len(s) + 1 \in 2 .. Len(a) /\ r[i] = a[i - Len(s) + 1]
  <2>1. r = s \o Tail(a)
    BY DEF Follows
  <2> QED
    BY <2>1, Replaced, SMTT(60)
<1>3. Len(s) \in Nat /\ Len(a) \in Nat \ {0} /\ DOMAIN a = 1 .. Len(a)
  BY EmptySeq, LenProperties
<1>0. a[1] = <<x, m>>
  BY DEF Has
<1>4. o = 0 /\ l \in Nat /\ 1 <= l
  <2>1. 1 > o /\ 1 <= o + l
    <3>1. 1 \in DOMAIN a
      BY <1>3
    <3> QED
      BY <1>0, <1>1, <3>1
  <2> QED
    BY <2>1
<1>5. a[1] = <<els[k + 1], m>>
  <2>1. 1 \in 1 .. l /\ o + 1 = 1
    BY <1>4
  <2> QED
    BY <1>1, <2>1
<1>6. Queued(r, m, els, k + 1)
  <2>1. ASSUME NEW i \in DOMAIN r, r[i][2] = m
        PROVE  i > Len(s) /\ i <= Len(s) + (Len(els) - (k + 1))
    <3>1. i - Len(s) + 1 \in DOMAIN a /\ a[i - Len(s) + 1][2] = m /\ i \notin 1 .. Len(s)
      <4>1. i \notin 1 .. Len(s)
        BY <1>2, <2>1 DEF Tagged
      <4> QED
        BY <1>2, <1>3, <2>1, <4>1
    <3>2. i - Len(s) + 1 <= l
      BY <1>1, <1>4, <3>1
    <3> QED
      BY <1>2, <1>3, <3>1, <3>2
  <2>2. ASSUME NEW j \in 1 .. Len(els) - (k + 1)
        PROVE  Len(s) + j \in DOMAIN r /\ r[Len(s) + j] = <<els[(k + 1) + j], m>>
    <3>1. /\ j + 1 \in 1 .. l /\ o + (j + 1) = j + 1 /\ k + (j + 1) = (k + 1) + j
          /\ (j + 1) + Len(s) - 1 = Len(s) + j
      BY <1>3, <1>4
    <3>2. j + 1 \in DOMAIN a /\ a[j + 1] = <<els[(k + 1) + j], m>>
      BY <1>1, <3>1
    <3>3. j + 1 \in 2 .. Len(a)
      BY <1>3, <3>2
    <3>4. Len(s) + j \in DOMAIN r
      BY <1>2, <1>3, <3>3
    <3> QED
      BY <1>2, <3>1, <3>2, <3>3, <3>4
  <2> QED
    BY <1>3, <2>1, <2>2 DEF Queued
<1> QED
  BY <1>0, <1>4, <1>5, <1>6 DEF Has

\* Those of another parent stay together.
LEMMA OthersMoved ==
  ASSUME NEW S, NEW s \in Seq(S), NEW a \in Seq(S), a # <<>>,
         NEW r, r = s \o Tail(a),
         NEW n, Tagged(s, n),
         NEW m, m # n, a[1][2] # m,
         NEW els, Len(els) \in Nat, NEW k \in Nat, k <= Len(els), Queued(a, m, els, k)
  PROVE  Queued(r, m, els, k)
<1> DEFINE l == Len(els) - k
<1>1. PICK o \in Nat :
        /\ \A i \in DOMAIN a : a[i][2] = m => i > o /\ i <= o + l
        /\ \A j \in 1 .. l : o + j \in DOMAIN a /\ a[o + j] = <<els[k + j], m>>
  BY DEF Queued
<1>2. /\ DOMAIN r = 1 .. Len(s) + (Len(a) - 1)
      /\ \A i \in 1 .. Len(s) : r[i] = s[i]
      /\ \A i \in 2 .. Len(a) : r[i + Len(s) - 1] = a[i]
      /\ \A i \in DOMAIN r :
           \/ i \in 1 .. Len(s)
           \/ i - Len(s) + 1 \in 2 .. Len(a) /\ r[i] = a[i - Len(s) + 1]
  BY Replaced, SMTT(60)
<1>3. /\ Len(s) \in Nat /\ Len(a) \in Nat \ {0} /\ DOMAIN a = 1 .. Len(a)
      /\ l \in Nat
  BY EmptySeq, LenProperties
<1>4. ASSUME NEW i \in DOMAIN r, r[i][2] = m
      PROVE  /\ i \notin 1 .. Len(s) /\ i - Len(s) + 1 \in DOMAIN a
             /\ i - Len(s) + 1 > o /\ i - Len(s) + 1 <= o + l
  <2>1. i - Len(s) + 1 \in DOMAIN a /\ a[i - Len(s) + 1][2] = m /\ i \notin 1 .. Len(s)
    <3>1. i \notin 1 .. Len(s)
      BY <1>2, <1>4 DEF Tagged
    <3> QED
      BY <1>2, <1>3, <1>4, <3>1
  <2> QED
    BY <1>1, <2>1
<1>5. CASE l = 0
  <2>1. ASSUME NEW i \in DOMAIN r PROVE r[i][2] # m
    <3> SUFFICES ASSUME r[i][2] = m PROVE FALSE
      OBVIOUS
    <3>1. i - Len(s) + 1 \in Nat /\ i - Len(s) + 1 > o /\ i - Len(s) + 1 <= o + 0
      BY <1>3, <1>4, <1>5
    <3> QED
      BY <3>1
  <2>2. 1 .. l = {}
    BY <1>5
  <2>3. /\ \A i \in DOMAIN r : r[i][2] = m => i > 0 /\ i <= 0 + l
        /\ \A j \in 1 .. l : 0 + j \in DOMAIN r /\ r[0 + j] = <<els[k + j], m>>
    BY <2>1, <2>2
  <2> QED
    BY <2>3 DEF Queued
<1>6. CASE l # 0
  <2>1. o # 0
    <3> SUFFICES ASSUME o = 0 PROVE FALSE
      OBVIOUS
    <3>1. 1 \in 1 .. l /\ o + 1 = 1
      BY <1>3, <1>6
    <3>2. a[1] = <<els[k + 1], m>>
      BY <1>1, <3>1
    <3> QED
      BY <3>2
  <2> DEFINE q == o + Len(s) - 1
  <2>2. q \in Nat
    BY <1>3, <2>1
  <2>3. ASSUME NEW i \in DOMAIN r, r[i][2] = m
        PROVE  i > q /\ i <= q + l
    <3>1. i \in Nat
      BY <1>2, <1>3
    <3>2. i - Len(s) + 1 > o /\ i - Len(s) + 1 <= o + l
      BY <1>4, <2>3
    <3> QED
      BY <1>3, <3>1, <3>2
  <2>4. ASSUME NEW j \in 1 .. l
        PROVE  q + j \in DOMAIN r /\ r[q + j] = <<els[k + j], m>>
    <3>1. o + j \in DOMAIN a /\ a[o + j] = <<els[k + j], m>>
      BY <1>1
    <3>2. o + j \in 2 .. Len(a) /\ (o + j) + Len(s) - 1 = q + j
      BY <1>3, <2>1, <3>1
    <3>3. q + j \in DOMAIN r
      BY <1>2, <1>3, <3>2
    <3> QED
      BY <1>2, <3>1, <3>2, <3>3
  <2> QED
    BY <2>2, <2>3, <2>4 DEF Queued
<1> QED
  BY <1>5, <1>6

\* The new ones come first.
LEMMA NewQueued ==
  ASSUME NEW S, NEW s \in Seq(S), NEW a \in Seq(S), a # <<>>,
         NEW r, r = s \o Tail(a),
         NEW n, \A i \in DOMAIN a : a[i][2] # n,
         NEW els, Len(els) = Len(s), \A i \in 1 .. Len(s) : s[i] = <<els[i], n>>
  PROVE  Queued(r, n, els, 0)
<1>1. /\ DOMAIN r = 1 .. Len(s) + (Len(a) - 1)
      /\ \A i \in 1 .. Len(s) : r[i] = s[i]
      /\ \A i \in DOMAIN r :
           \/ i \in 1 .. Len(s)
           \/ i - Len(s) + 1 \in 2 .. Len(a) /\ r[i] = a[i - Len(s) + 1]
  BY Replaced
<1>2. Len(s) \in Nat /\ Len(a) \in Nat \ {0} /\ DOMAIN a = 1 .. Len(a)
  BY EmptySeq, LenProperties
<1>3. ASSUME NEW i \in DOMAIN r, r[i][2] = n
      PROVE  i > 0 /\ i <= 0 + (Len(els) - 0)
  <2>1. i \in 1 .. Len(s)
    BY <1>1, <1>2, <1>3
  <2> QED
    BY <1>2, <2>1
<1>4. ASSUME NEW j \in 1 .. Len(els) - 0
      PROVE  0 + j \in DOMAIN r /\ r[0 + j] = <<els[0 + j], n>>
  <2>1. j \in 1 .. Len(s) /\ 0 + j = j
    BY <1>2
  <2> QED
    BY <1>1, <1>2, <2>1
<1> QED
  BY <1>3, <1>4 DEF Queued

\* A node is made and linked, and what is below it takes its place on the agenda.
Makes(e, p, n) ==
  /\ outcome = "creating" /\ agenda # <<>>
  /\ e = agenda[1][1] /\ p = agenda[1][2] /\ n = Len(nodes) + 1
  /\ Kind(e) = "subtree" => InstanceName(e) \in DOMAIN TreeRoots
  /\ ~Full(p)
  /\ nodes' = Append(Linked(p, n), [el |-> e, kids |-> <<>>])
  /\ agenda' = Inside(e, n) \o Tail(agenda)
  /\ UNCHANGED outcome /\ UNCHANGED document

LEMMA MakeStep ==
  ASSUME IInv, NEW e, NEW p, NEW n, Makes(e, p, n)
  PROVE  IInv'
<1>1. /\ WellFormed /\ Accepted /\ nodes \in Seq(Node) /\ agenda \in Seq(Entry)
      /\ \A i \in DOMAIN agenda : agenda[i][2] <= Len(nodes)
      /\ \A m \in DOMAIN nodes : Made(m) /\ Waiting(m)
      /\ outcome = "creating" /\ agenda # <<>>
  BY DEF Makes, IInv, Shapes, Verified
<1>2. /\ Len(nodes) \in Nat /\ DOMAIN nodes = 1 .. Len(nodes)
      /\ Len(agenda) \in Nat \ {0} /\ DOMAIN agenda = 1 .. Len(agenda)
      /\ n = Len(nodes) + 1 /\ n \in Nat /\ n # 0
  BY <1>1, LenProperties, EmptySeq DEF Makes
<1>3. \A i \in DOMAIN agenda : agenda[i] \in Elements \X Nat
  BY <1>1, <1>2, ElementOfSeq DEF Entry
<1>4. e \in Elements /\ p \in Nat /\ p <= Len(nodes) /\ agenda[1] = <<e, p>>
  <2>1. 1 \in DOMAIN agenda
    BY <1>2
  <2>2. agenda[1] \in Elements \X Nat /\ agenda[1][2] <= Len(nodes)
    BY <1>1, <1>3, <2>1
  <2> QED
    BY <2>2 DEF Makes
<1>5. Inner(e) \in Seq(Elements) /\ Len(Inner(e)) \in Nat
  BY <1>1, <1>4, InnerIs DEF Makes
<1> DEFINE s == Inside(e, n)
<1>6. /\ s \in Seq(Entry) /\ Len(s) = Len(Inner(e))
      /\ \A i \in 1 .. Len(s) : s[i] = <<Inner(e)[i], n>>
  BY <1>2, <1>5, InsideIs
<1>7. agenda' = s \o Tail(agenda)
  BY DEF Makes
<1> HIDE DEF s
<1>8. Tagged(s, n)
  BY <1>6 DEF Tagged
<1>9. \A i \in DOMAIN agenda : agenda[i][2] # n
  BY <1>1, <1>2, <1>3
\* What the nodes are.
<1> DEFINE new == [el |-> e, kids |-> <<>>]
           ns == Linked(p, n)
<1>10. /\ ns \in Seq(Node) /\ Len(ns) = Len(nodes)
       /\ \A m \in DOMAIN nodes :
            /\ ns[m].el = nodes[m].el
            /\ ns[m].kids = IF m = p /\ Takes(p) THEN Append(nodes[m].kids, n)
                            ELSE nodes[m].kids
  BY <1>1, <1>2, <1>4, LinkedIs
<1>11. new \in Node /\ new.el = e /\ new.kids = <<>>
  BY <1>4, EmptySeq DEF Node
<1>12. nodes' = Append(ns, new)
  BY DEF Makes
<1> HIDE DEF new, ns
<1>13. /\ nodes' \in Seq(Node) /\ Len(nodes') = n /\ DOMAIN nodes' = 1 .. n
       /\ nodes'[n] = new
       /\ \A m \in DOMAIN nodes : nodes'[m] = ns[m]
  <2>1. /\ Append(ns, new) \in Seq(Node)
        /\ Len(Append(ns, new)) = Len(ns) + 1
        /\ DOMAIN Append(ns, new) = 1 .. Len(ns) + 1
        /\ Append(ns, new)[Len(ns) + 1] = new
        /\ \A i \in 1 .. Len(ns) : Append(ns, new)[i] = ns[i]
    BY <1>10, <1>11, Appended
  <2> QED
    BY <1>2, <1>10, <1>12, <2>1
<1>14. ASSUME NEW m \in DOMAIN nodes
       PROVE  /\ nodes[m].el \in Elements /\ nodes[m].kids \in Seq(Nat)
              /\ Len(nodes[m].kids) \in Nat
              /\ DOMAIN nodes[m].kids = 1 .. Len(nodes[m].kids)
              /\ nodes'[m].el = nodes[m].el
              /\ nodes'[m].kids = IF m = p /\ Kind(nodes[m].el) # "leaf"
                                  THEN Append(nodes[m].kids, n) ELSE nodes[m].kids
  <2>1. nodes[m] \in Node
    BY <1>1, <1>2, ElementOfSeq
  <2>2. nodes[m].el \in Elements /\ nodes[m].kids \in Seq(Nat)
    BY <2>1 DEF Node
  <2> QED
    BY <1>10, <1>13, <2>2, LenProperties DEF Takes
<1>15. Shapes'
  <2>1. /\ agenda' \in Seq(Entry)
        /\ DOMAIN agenda' = 1 .. Len(s) + (Len(agenda) - 1)
        /\ \A i \in 1 .. Len(s) : agenda'[i] = s[i]
        /\ \A i \in DOMAIN agenda' :
             \/ i \in 1 .. Len(s)
             \/ i - Len(s) + 1 \in 2 .. Len(agenda) /\ agenda'[i] = agenda[i - Len(s) + 1]
    <3>1. s \in Seq(Entry) /\ agenda \in Seq(Entry) /\ agenda # <<>>
      BY <1>1, <1>6
    <3> QED
      BY <1>7, <3>1, Replaced, SMT
  <2>2. ASSUME NEW i \in DOMAIN agenda' PROVE agenda'[i][2] <= n
    <3>1. CASE i \in 1 .. Len(s)
      <4>1. agenda'[i] = s[i]
        BY <2>1, <3>1
      <4>2. s[i][2] = n
        BY <1>8, <3>1 DEF Tagged
      <4>3. agenda'[i][2] = n
        BY <4>1, <4>2
      <4> QED
        BY <1>2, <4>3
    <3>2. CASE i \notin 1 .. Len(s)
      <4> DEFINE j == i - Len(s) + 1
      <4>1. j \in DOMAIN agenda /\ agenda'[i] = agenda[j]
        BY <1>2, <2>1, <3>2
      <4> HIDE DEF j
      <4>2. agenda[j][2] <= Len(nodes) /\ agenda[j][2] \in Nat
        BY <1>1, <1>3, <4>1
      <4> QED
        BY <1>2, <4>1, <4>2
    <3> QED
      BY <3>1, <3>2
  <2> QED
    BY <1>13, <2>1, <2>2 DEF Shapes
<1>16. Verified' /\ Started'
  <2>1. nodes' # <<>>
    BY <1>2, <1>13, EmptySeq
  <2>2. nodes'[1].el = RootOf("main")
    <3>1. CASE nodes = <<>>
      <4>1. agenda = <<<<RootOf("main"), 0>>>>
        BY <1>1, <3>1 DEF IInv, Started
      <4>2. n = 1
        BY <3>1, EmptySeq DEF Makes
      <4>3. e = RootOf("main")
        BY <1>4, <4>1
      <4> QED
        BY <1>11, <1>13, <4>2, <4>3
    <3>2. CASE nodes # <<>>
      <4>1. 1 \in DOMAIN nodes
        BY <1>1, <1>2, <3>2, EmptySeq
      <4> QED
        BY <1>14, <3>2, <4>1 DEF IInv, Started
    <3> QED
      BY <3>1, <3>2
  <2>3. RootOf("main")' = RootOf("main") /\ Accepted' /\ outcome' = "creating"
    BY <1>1, SameDocument DEF Makes
  <2> QED
    BY <2>1, <2>2, <2>3 DEF Verified, Started
<1>17. WellFormed'
  BY <1>1, SameDocument DEF Makes
<1>18. /\ (DOMAIN TreeRoots)' = DOMAIN TreeRoots
       /\ \A x : Kind(x)' = Kind(x) /\ InstanceName(x)' = InstanceName(x)
       /\ \A x : Inner(x)' = Inner(x)
  BY SameDocument DEF Makes
\* The new node.
<1>19. Made(n)' /\ Waiting(n)'
  <2>1. nodes'[n].el = e /\ nodes'[n].kids = <<>> /\ Len(nodes'[n].kids) = 0
    BY <1>11, <1>13, EmptySeq
  <2>2. Made(n)'
    <3>1. Kind(e) = "subtree" => InstanceName(e) \in DOMAIN TreeRoots
      BY DEF Makes
    <3>2. 1 .. 0 = {} /\ 0 <= 1 /\ 0 <= Len(Inner(e))
      BY <1>5
    <3> QED
      BY <1>18, <2>1, <3>1, <3>2 DEF Made
  <2>3. Queued(agenda', n, Inner(e), 0)
    BY <1>1, <1>6, <1>7, <1>9, NewQueued
  <2>4. Queued(agenda, n, Inner(nodes[n].el), Len(nodes[n].kids))'
    BY <1>18, <2>1, <2>3 DEF Queued
  <2> QED
    BY <2>2, <2>4 DEF Waiting
\* The others.
<1>20. ASSUME NEW m \in DOMAIN nodes
       PROVE  Made(m)' /\ Waiting(m)'
  <2> DEFINE x == nodes[m].el
             kids == nodes[m].kids
             k == Len(kids)
  <2>1. /\ Kind(x) = "leaf" => kids = <<>>
        /\ Kind(x) = "subtree" => InstanceName(x) \in DOMAIN TreeRoots
        /\ Kind(x) = "decorator" => k <= 1
        /\ Kind(x) # "leaf" => k <= Len(Inner(x))
        /\ \A i \in 1 .. k : kids[i] \in DOMAIN nodes /\ nodes[kids[i]].el = Inner(x)[i]
        /\ Kind(x) # "leaf" => Queued(agenda, m, Inner(x), k)
    BY <1>1 DEF Made, Waiting
  <2>2. m # n /\ k \in Nat /\ kids \in Seq(Nat) /\ x \in Elements
    BY <1>2, <1>14
  <2>3. Inner(x) \in Seq(Elements) /\ Len(Inner(x)) \in Nat
    BY <1>1, <2>1, <2>2, InnerIs
  <2>4. \A i \in 1 .. k :
          kids[i] \in DOMAIN nodes' /\ nodes'[kids[i]].el = Inner(x)[i]
    <3> SUFFICES ASSUME NEW i \in 1 .. k
                 PROVE  kids[i] \in DOMAIN nodes' /\ nodes'[kids[i]].el = Inner(x)[i]
      OBVIOUS
    <3> DEFINE y == kids[i]
    <3>1. y \in DOMAIN nodes /\ nodes[y].el = Inner(x)[i]
      BY <2>1
    <3> HIDE DEF x, kids, k, y
    <3>2. nodes'[y].el = nodes[y].el
      BY <1>14, <3>1
    <3>3. y \in DOMAIN nodes'
      BY <1>2, <1>13, <3>1
    <3> QED
      BY <3>1, <3>2, <3>3 DEF y
  <2>5. nodes'[m].el = x
    BY <1>14
  <2>6. CASE m = p /\ Kind(x) # "leaf"
    <3>1. nodes'[m].kids = Append(kids, n)
      BY <1>14, <2>6
    <3>2. k < Len(Inner(x)) /\ e = Inner(x)[k + 1] /\ Queued(agenda', m, Inner(x), k + 1)
      <4>1. agenda[1] = <<e, m>> /\ Queued(agenda, m, Inner(x), k)
        BY <1>4, <2>1, <2>6
      <4>2. Has(agenda, 1, <<e, m>>)
        BY <4>1 DEF Has
      <4> HIDE DEF x, k
      <4> QED
        <5>1. /\ s \in Seq(Entry) /\ agenda \in Seq(Entry) /\ agenda # <<>>
              /\ Len(Inner(x)) \in Nat /\ k \in Nat /\ m # n
          BY <1>1, <1>6, <2>2, <2>3
        <5>2. \A r : Follows(r, s, agenda) =>
                /\ k < Len(Inner(x)) /\ Has(Inner(x), k + 1, e)
                /\ Queued(r, m, Inner(x), k + 1)
          BY <1>8, <4>1, <4>2, <5>1, FirstTaken
        <5> QED
          BY <1>7, <5>2 DEF Has, Follows
    <3> DEFINE more == Append(kids, n)
    <3>3. /\ Len(more) = k + 1 /\ more[k + 1] = n
          /\ \A i \in 1 .. k : more[i] = kids[i]
      BY <1>2, <2>2, Appended
    <3>4. \A i \in 1 .. k + 1 :
            more[i] \in DOMAIN nodes' /\ nodes'[more[i]].el = Inner(x)[i]
      <4> SUFFICES ASSUME NEW i \in 1 .. k + 1
                   PROVE  more[i] \in DOMAIN nodes' /\ nodes'[more[i]].el = Inner(x)[i]
        OBVIOUS
      <4>1. CASE i = k + 1
        BY <1>2, <1>11, <1>13, <3>2, <3>3, <4>1
      <4>2. CASE i # k + 1
        <5>1. i \in 1 .. k
          BY <2>2, <4>2
        <5> QED
          BY <2>4, <3>3, <5>1
      <4> QED
        BY <4>1, <4>2
    <3>5. Kind(x) = "decorator" => k = 0
      <4> SUFFICES ASSUME Kind(x) = "decorator" PROVE k = 0
        OBVIOUS
      <4>1. p # 0
        BY <1>2, <2>6
      <4>2. kids = <<>>
        BY <2>6, <4>1 DEF Full, Makes
      <4> QED
        BY <4>2, EmptySeq
    <3> HIDE DEF more
    <3>6. nodes'[m].kids = more
      BY <3>1 DEF more
    <3>7. Made(m)'
      <4>1. Len(more) <= Len(Inner(x)) /\ (Kind(x) = "decorator" => Len(more) <= 1)
        BY <2>2, <2>3, <3>2, <3>3, <3>5
      <4> HIDE DEF x, k, kids
      <4> QED
        BY <1>18, <2>1, <2>5, <2>6, <3>3, <3>4, <3>6, <4>1 DEF Made
    <3>8. Queued(agenda, m, Inner(nodes[m].el), Len(nodes[m].kids))'
      <4> HIDE DEF x, k
      <4>1. Queued(agenda', m, Inner(x), k + 1)
        BY <3>2
      <4>2. Inner(nodes[m].el)' = Inner(x)
        BY <1>18, <2>5
      <4>3. Len(nodes[m].kids)' = k + 1
        BY <3>3, <3>6
      <4> QED
        BY <4>1, <4>2, <4>3 DEF Queued
    <3> QED
      BY <3>7, <3>8 DEF Waiting
  <2>7. CASE ~(m = p /\ Kind(x) # "leaf")
    <3>1. nodes'[m].kids = kids
      BY <1>14, <2>7
    <3> HIDE DEF x, k
    <3>2. Made(m)'
      BY <1>18, <2>1, <2>4, <2>5, <3>1 DEF Made, k
    <3>3. ASSUME Kind(x) # "leaf" PROVE Queued(agenda', m, Inner(x), k)
      <4>1. agenda[1][2] # m /\ k <= Len(Inner(x)) /\ Queued(agenda, m, Inner(x), k)
        BY <1>4, <2>1, <2>7, <3>3
      <4> QED
        <5>1. /\ s \in Seq(Entry) /\ agenda \in Seq(Entry) /\ agenda # <<>>
              /\ Len(Inner(x)) \in Nat /\ k \in Nat /\ m # n
          BY <1>1, <1>6, <2>2, <2>3
        <5>2. \A r : r = s \o Tail(agenda) => Queued(r, m, Inner(x), k)
          BY <1>8, <4>1, <5>1, OthersMoved
        <5> QED
          BY <1>7, <5>2
    <3>4. Waiting(m)'
      BY <1>18, <2>5, <3>1, <3>3 DEF Waiting, Queued, k
    <3> QED
      BY <3>2, <3>4
  <2> QED
    BY <2>6, <2>7
<1>21. \A m \in DOMAIN nodes' : m = n \/ m \in DOMAIN nodes
  BY <1>2, <1>13
<1> QED
  BY <1>15, <1>16, <1>17, <1>19, <1>20, <1>21 DEF IInv

LEMMA CreateStep == IInv /\ CreateNode => IInv'
<1> SUFFICES ASSUME IInv, CreateNode PROVE IInv'
  OBVIOUS
<1> DEFINE e == agenda[1][1]
           p == agenda[1][2]
           n == Len(nodes) + 1
           lost == \/ Kind(e) = "subtree" /\ InstanceName(e) \notin DOMAIN TreeRoots
                   \/ n > Depth
<1>1. outcome = "creating" /\ agenda # <<>> /\ UNCHANGED document
  BY DEF CreateNode
<1>2. CASE outcome' \in {"refused", "crashed"} /\ UNCHANGED <<nodes, agenda>>
  <2>1. Shapes' /\ Verified' /\ Started'
    <3>1. RootOf("main")' = RootOf("main")
      BY <1>1, SameDocument
    <3> QED
      BY <1>2, <3>1 DEF IInv, Shapes, Verified, Started
  <2> QED
    BY <1>1, <1>2, <2>1, NodesStay
<1>3. CASE /\ ~(Kind(e) = "unknown" \/ Full(p)) /\ ~lost
           /\ nodes' = Append(Linked(p, n), [el |-> e, kids |-> <<>>])
           /\ agenda' = Inside(e, n) \o Tail(agenda)
           /\ UNCHANGED outcome
  <2>1. Makes(e, p, n)
    BY <1>1, <1>3 DEF Makes
  <2> HIDE DEF e, p, n, lost
  <2>2. PICK a, b, c : a = e /\ b = p /\ c = n
    OBVIOUS
  <2>3. Makes(a, b, c)
    BY <2>1, <2>2
  <2> QED
    BY <2>3, MakeStep
<1>4. \/ outcome' \in {"refused", "crashed"} /\ UNCHANGED <<nodes, agenda>>
      \/ /\ ~(Kind(e) = "unknown" \/ Full(p)) /\ ~lost
         /\ nodes' = Append(Linked(p, n), [el |-> e, kids |-> <<>>])
         /\ agenda' = Inside(e, n) \o Tail(agenda)
         /\ UNCHANGED outcome
  BY DEF CreateNode
<1> QED
  BY <1>2, <1>3, <1>4

LEMMA FinishStep == IInv /\ Finish => IInv'
<1> SUFFICES ASSUME IInv, Finish PROVE IInv'
  OBVIOUS
<1>1. /\ outcome = "creating" /\ agenda = <<>> /\ outcome' = "built"
      /\ UNCHANGED document /\ nodes' = nodes /\ agenda' = agenda
  BY DEF Finish
<1>2. nodes # <<>>
  <2> SUFFICES ASSUME nodes = <<>> PROVE FALSE
    OBVIOUS
  <2>1. agenda = <<<<RootOf("main"), 0>>>>
    BY <1>1 DEF IInv, Started
  <2> QED
    BY <1>1, <2>1
<1>3. RootOf("main")' = RootOf("main") /\ (Accepted' <=> Accepted)
  BY <1>1, SameDocument
<1>4. Shapes' /\ Verified' /\ Started'
  BY <1>1, <1>2, <1>3 DEF IInv, Shapes, Verified, Started
<1> QED
  BY <1>1, <1>4, NodesStay

LEMMA StutterStep == IInv /\ UNCHANGED cvars => IInv'
<1> SUFFICES ASSUME IInv, UNCHANGED cvars PROVE IInv'
  OBVIOUS
<1>1. /\ UNCHANGED document /\ nodes' = nodes /\ agenda' = agenda /\ outcome' = outcome
  BY DEF cvars, document
<1>2. RootOf("main")' = RootOf("main") /\ (Accepted' <=> Accepted)
  BY <1>1, SameDocument
<1>3. Shapes' /\ Verified' /\ Started'
  BY <1>1, <1>2 DEF IInv, Shapes, Verified, Started
<1> QED
  BY <1>1, <1>3, NodesStay

\* Whatever the document, a node in the making has the first of its children, the
\* others wait in their order, and nothing is made of a document the verifier refuses.
THEOREM Invariant == CSpec => []IInv
<1>1. IInv /\ [CNext]_cvars => IInv'
  BY LoadStep, CreateStep, FinishStep, StutterStep DEF CNext
<1> QED
  BY InitIInv, <1>1, PTL DEF CSpec
-----------------------------------------------------------------------------
\* When nothing is left on the agenda every node has all its children.
LEMMA AllMade ==
  ASSUME IInv, outcome = "built", NEW m \in DOMAIN nodes
  PROVE  /\ nodes[m].el \in Elements /\ nodes[m].kids \in Seq(Nat)
         /\ Made(m) /\ Accepted /\ WellFormed
         /\ Inner(nodes[m].el) \in Seq(Elements) /\ Len(Inner(nodes[m].el)) \in Nat
         /\ Kind(nodes[m].el) # "leaf" => Len(nodes[m].kids) = Len(Inner(nodes[m].el))
<1> DEFINE x == nodes[m].el
           kids == nodes[m].kids
           k == Len(kids)
<1>1. /\ WellFormed /\ Accepted /\ nodes \in Seq(Node) /\ agenda = <<>>
      /\ Made(m) /\ Waiting(m)
  BY DEF IInv, Shapes, Verified, Started
<1>2. nodes[m] \in Node
  BY <1>1, LenProperties, ElementOfSeq
<1>3. x \in Elements /\ kids \in Seq(Nat) /\ k \in Nat
  BY <1>2, LenProperties DEF Node
<1>4. Inner(x) \in Seq(Elements) /\ Len(Inner(x)) \in Nat
  BY <1>1, <1>3, InnerIs DEF Made
<1>5. ASSUME Kind(x) # "leaf" PROVE k = Len(Inner(x))
  <2>1. Queued(<<>>, m, Inner(x), k) /\ k <= Len(Inner(x))
    BY <1>1, <1>5 DEF Waiting, Made
  <2> HIDE DEF x, kids, k
  <2>2. PICK o \in Nat : \A j \in 1 .. Len(Inner(x)) - k : o + j \in DOMAIN <<>>
    BY <2>1 DEF Queued
  <2>3. \A j \in 1 .. Len(Inner(x)) - k : FALSE
    BY <2>2
  <2>4. Len(Inner(x)) - k > 0 => 1 \in 1 .. Len(Inner(x)) - k
    BY <1>3, <1>4
  <2> QED
    BY <1>3, <1>4, <2>1, <2>3, <2>4
<1> QED
  BY <1>1, <1>3, <1>4, <1>5

\* No element is lost on the way, in documents of any size: a node of a tree that is
\* built has one child for each element below its own, in their order
\* (createNodeFromXML, recursivelyCreateTree).
THEOREM NothingLost == CSpec => []BuiltAsWritten
<1>1. ASSUME IInv PROVE BuiltAsWritten
  <2> SUFFICES ASSUME outcome = "built" PROVE BuiltAsWritten
    BY DEF BuiltAsWritten
  <2>1. nodes[1].el = RootOf("main")
    BY <1>1 DEF IInv, Started
  <2>2. ASSUME NEW m \in DOMAIN nodes
        PROVE  KidsOf(m) = CASE Kind(nodes[m].el) = "leaf" -> <<>>
                 [] Kind(nodes[m].el) = "subtree" -> <<RootOf(InstanceName(nodes[m].el))>>
                 [] OTHER -> Below(nodes[m].el)
    <3> DEFINE x == nodes[m].el
               kids == nodes[m].kids
    <3>1. /\ kids \in Seq(Nat) /\ DOMAIN kids = 1 .. Len(kids) /\ Len(kids) \in Nat
          /\ Kind(x) = "leaf" => kids = <<>>
          /\ Kind(x) # "leaf" => Len(kids) = Len(Inner(x))
          /\ \A i \in 1 .. Len(kids) : nodes[kids[i]].el = Inner(x)[i]
          /\ Inner(x) \in [1 .. Len(Inner(x)) -> Elements]
      BY <1>1, AllMade, LenProperties DEF Made
    <3>2. KidsOf(m) = [i \in DOMAIN kids |-> nodes[kids[i]].el]
      BY DEF KidsOf
    <3>3. CASE Kind(x) = "leaf"
      <4>1. DOMAIN kids = {}
        BY <3>1, <3>3, EmptySeq
      <4>2. KidsOf(m) = <<>>
        BY <3>2, <4>1
      <4> QED
        BY <3>3, <4>2
    <3>4. CASE Kind(x) # "leaf"
      <4> HIDE DEF x, kids
      <4>1. Inner(x) = [i \in 1 .. Len(Inner(x)) |-> Inner(x)[i]]
        BY <3>1
      <4>2. KidsOf(m) = Inner(x)
        BY <3>1, <3>2, <3>4, <4>1
      <4> QED
        BY <3>4, <4>2 DEF Inner, x
    <3> QED
      BY <3>3, <3>4
  <2> QED
    BY <2>1, <2>2 DEF BuiltAsWritten
<1> QED
  BY Invariant, <1>1, PTL

\* A tree built from an accepted document can be ticked, in documents of any size:
\* what VerifyXML demands of an element the node made of it has.
THEOREM VerifiedIsReady == CSpec => []ReadyToTick
<1>1. ASSUME IInv PROVE ReadyToTick
  <2> SUFFICES ASSUME outcome = "built", NEW m \in DOMAIN nodes
               PROVE  LET e == nodes[m].el IN
                      /\ (look[e].tag = "Decorator" /\ Kind(e) # "leaf") \/ Kind(e) = "subtree"
                           => Len(nodes[m].kids) = 1
                      /\ look[e].tag \in Demanding => nodes[m].kids # <<>>
                      /\ Kind(e) = "decorator" => Len(nodes[m].kids) <= 1
    BY DEF ReadyToTick
  <2> DEFINE e == nodes[m].el
             kids == nodes[m].kids
  <2>1. /\ e \in Elements /\ kids \in Seq(Nat) /\ WellFormed /\ Accepted
        /\ Kind(e) # "leaf" => Len(kids) = Len(Inner(e))
        /\ Kind(e) = "decorator" => Len(kids) <= 1
    BY <1>1, AllMade DEF Made
  <2>2. PICK known : ElementFine(e, known)
    BY <2>1, EachFine
  <2>3. Len(Below(e)) \in Nat
    BY BelowIs
  <2> HIDE DEF e, kids
  <2>4. ASSUME Kind(e) = "subtree" PROVE Len(kids) = 1
    BY <2>1, <2>4 DEF Inner
  <2>5. ASSUME look[e].tag = "Decorator", Kind(e) # "leaf" PROVE Len(kids) = 1
    <3>1. look[e].tag \notin Demanding
      BY <2>5, ConstructionAssumption
    <3>2. Len(Below(e)) = 1
      BY <2>2, <2>5, <3>1 DEF ElementFine
    <3> QED
      BY <2>1, <2>4, <2>5, <3>2 DEF Inner
  <2>6. ASSUME look[e].tag \in Demanding PROVE kids # <<>>
    <3>1. /\ look[e].tag \in DOMAIN Registered /\ Registered[look[e].tag] = "control"
          /\ look[e].tag \notin {"Action", "Condition", "Decorator", "SubTree"}
      BY <2>6, ConstructionAssumption
    <3>2. Len(Below(e)) > 0
      BY <2>2, <2>6, <3>1 DEF ElementFine
    <3>3. Kind(e) = "control"
      BY <3>1 DEF Kind, IdOf
    <3>4. Len(kids) > 0
      BY <2>1, <3>2, <3>3 DEF Inner
    <3> QED
      BY <3>4, EmptySeq
  <2> QED
    BY <2>1, <2>4, <2>5, <2>6 DEF e, kids
<1> QED
  BY Invariant, <1>1, PTL
=============================================================================
