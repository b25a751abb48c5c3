---------------------------- MODULE Construction ----------------------------
(***************************************************************************)
(* xml_parsing.cpp: from a document to a tree of nodes. The document is    *)
(* checked first (VerifyXML), then its elements become nodes, depth first, *)
(* each linked to the node of its parent (createNodeFromXML).              *)
(*                                                                         *)
(* A document is two <BehaviorTree>s, the second of which may be missing   *)
(* or come from an included file, with elements below them. Ports and      *)
(* their types are left out.                                               *)
(***************************************************************************)
EXTENDS Naturals, Sequences, FiniteSets

CONSTANTS
  Size,         \* bound: the elements of a document
  Depth,        \* bound: the nodes of a tree, for a tree that contains itself
  Registered,   \* [registration ID -> "control", "decorator", "leaf" or "subtree"]
  Demanding,    \* the controls VerifyXML demands a child of
  Labels,       \* how an element may look: [tag, id, alias]
  Secondary     \* what the second tree may be: [name, file]; of no file: missing

Elements == 1 .. Size

ASSUME ConstructionAssumption ==
  /\ Size \in Nat /\ Depth \in Nat
  /\ Demanding \subseteq {r \in DOMAIN Registered : Registered[r] = "control"}
  /\ \A tag \in {"SubTree", "SubTreeWrapper"} :
       tag \in DOMAIN Registered /\ Registered[tag] = "subtree"
  /\ {"Action", "Condition", "Decorator", "main"} \cap DOMAIN Registered = {}
  /\ \A s \in Secondary : s.file \in {"none", "opened", "included"}

VARIABLES
  above,        \* the document: [element -> its parent element, or its tree]
  look,         \* [element -> its label]
  second,       \* the second tree
  wanted,       \* main_tree_to_execute: "main", "nowhere" or "absent"
  outcome,      \* "loading", "creating", "built", "refused", "crashed"
  nodes,        \* the nodes made: [el, kids], named by their place
  agenda        \* what is still to be made: <<element, parent node or 0>>

cvars == <<above, look, second, wanted, outcome, nodes, agenda>>
document == <<above, look, second, wanted>>

First == 0
Second == Size + 1

\* The first tree is called "main" and stands in the file that is opened.
Trees == IF second.file = "none" THEN {First} ELSE {First, Second}
NameOf(t) == IF t = First THEN "main" ELSE second.name
FileOf(t) == IF t = First THEN "opened" ELSE second.file

\* The elements below x, in the order of the document.
Below(x) ==
  LET S == {e \in Elements : above[e] = x}
  IN  CHOOSE s \in [1 .. Cardinality(S) -> S] :
        \A i, j \in DOMAIN s : i < j => s[i] < s[j]

CInit ==
  /\ second \in Secondary
  /\ wanted \in {"main", "nowhere", "absent"}
  /\ above \in [Elements -> Elements \cup Trees]
  /\ \A e \in Elements : above[e] \in Elements => above[e] < e
  /\ look \in [Elements -> Labels]
  /\ outcome = "loading" /\ nodes = <<>> /\ agenda = <<>>
-----------------------------------------------------------------------------
\* recursiveStep of VerifyXML: what it demands of an element by its tag. Other
\* tags must be known, but may have any children.
\* Mutant: a <Decorator> may be empty.
ElementFineEmpty(e, known) ==
  LET n == Len(Below(e)) IN
  CASE look[e].tag = "Decorator" -> n <= 1 /\ look[e].id # "none"
    [] look[e].tag \in {"Action", "Condition"} -> n = 0 /\ look[e].id # "none"
    [] look[e].tag \in Demanding -> n > 0
    [] look[e].tag = "SubTree" -> n = 0 /\ look[e].id # "none"
    [] OTHER -> look[e].tag \in known
ElementFine(e, known) ==
  LET n == Len(Below(e)) IN
  CASE look[e].tag = "Decorator" -> n = 1 /\ look[e].id # "none"
    [] look[e].tag \in {"Action", "Condition"} -> n = 0 /\ look[e].id # "none"
    [] look[e].tag \in Demanding -> n > 0
    [] look[e].tag = "SubTree" -> n = 0 /\ look[e].id # "none"
    [] OTHER -> look[e].tag \in known

InFile(f) == {t \in Trees : FileOf(t) = f}

TreeOf[e \in Elements] == IF above[e] \in Trees THEN above[e] ELSE TreeOf[above[e]]

\* VerifyXML of one file, when the names of the trees in loaded are known.
FileFine(f, loaded) ==
  /\ \A t \in InFile(f) : Len(Below(t)) = 1
  /\ \A e \in Elements :
       TreeOf[e] \in InFile(f)
         => ElementFine(e, DOMAIN Registered \cup {NameOf(t) : t \in loaded})

\* Included files are loaded and verified first, without the names of the file
\* that includes them; of two trees with one name the one loaded first stays.
TreeRoots ==
  [name \in {NameOf(t) : t \in Trees} |->
     IF Second \in Trees /\ name = second.name /\ (second.file = "included" \/ name # "main")
     THEN Second ELSE First]

\* The file that is opened names the tree to execute, and has it; or it has a
\* single tree, and there is no other. (An included one has a single tree here.)
MainFine ==
  CASE wanted = "main" -> TRUE
    [] wanted = "nowhere" -> FALSE
    [] wanted = "absent" -> InFile("opened") = {First} /\ DOMAIN TreeRoots = {"main"}

RootOf(name) == Below(TreeRoots[name])[1]

Load ==
  /\ outcome = "loading"
  /\ IF /\ FileFine("included", InFile("included"))
        /\ FileFine("opened", Trees)
        /\ MainFine
     THEN outcome' = "creating" /\ agenda' = <<<<RootOf("main"), 0>>>>
     ELSE outcome' = "refused" /\ UNCHANGED agenda
  /\ UNCHANGED <<document, nodes>>
-----------------------------------------------------------------------------
IdOf(e) ==
  IF look[e].tag \in {"Action", "Condition", "Decorator"} THEN look[e].id ELSE look[e].tag

\* What builder or tree the ID stands for, if any.
Kind(e) ==
  CASE IdOf(e) \in DOMAIN Registered -> Registered[IdOf(e)]
    [] IdOf(e) \in DOMAIN TreeRoots \ DOMAIN Registered -> "subtree"
    [] OTHER -> "unknown"

\* These ask for a tree by their ID, which VerifyXML demands of <SubTree> only.
CallsTree(e) == look[e].tag \in {"SubTree", "SubTreeWrapper"}

\* The name of the node: of one that asks for a tree the name of that tree.
InstanceName(e) ==
  CASE CallsTree(e) -> look[e].id
    [] ~CallsTree(e) /\ look[e].alias # "none" -> look[e].alias
    [] OTHER -> IdOf(e)

\* Which parents take the new node as a child, by their type.
\* Mutant: by their name, which an alias replaces (the comment in the code says so
\* of an earlier version).
TakesByName(p) ==
  Kind(nodes[p].el) # "leaf" /\ InstanceName(nodes[p].el) \in DOMAIN Registered
Takes(p) == Kind(nodes[p].el) # "leaf"

\* setChild() throws when there is a child already.
Full(p) ==
  /\ p # 0
  /\ Kind(nodes[p].el) \in {"decorator", "subtree"}
  /\ nodes[p].kids # <<>>

Linked(p, n) ==
  IF p = 0 \/ ~Takes(p) THEN nodes
  ELSE [nodes EXCEPT ![p].kids = Append(@, n)]

\* What is to be made below the new node n of the element e.
Inside(e, n) ==
  LET els == IF Kind(e) = "subtree" THEN <<RootOf(InstanceName(e))>> ELSE Below(e) IN
  [i \in DOMAIN els |-> <<els[i], n>>]

\* createNodeFromXML and the recursive step of recursivelyCreateTree. A tree that
\* does not exist is looked for all the same, one that contains itself is made
\* without end, and the ID a <SubTreeWrapper> does not have becomes a string.
CreateNode ==
  /\ outcome = "creating" /\ agenda # <<>>
  /\ LET e == agenda[1][1]
         p == agenda[1][2]
         n == Len(nodes) + 1
         nameless == CallsTree(e) /\ look[e].id = "none"
         lost == \/ Kind(e) = "subtree" /\ InstanceName(e) \notin DOMAIN TreeRoots
                 \/ n > Depth
     IN  CASE ~nameless /\ (Kind(e) = "unknown" \/ Full(p)) ->
                outcome' = "refused" /\ UNCHANGED <<nodes, agenda>>
           [] nameless \/ (Kind(e) # "unknown" /\ ~Full(p) /\ lost) ->
                outcome' = "crashed" /\ UNCHANGED <<nodes, agenda>>
           [] OTHER ->
                /\ nodes' = Append(Linked(p, n), [el |-> e, kids |-> <<>>])
                /\ agenda' = Inside(e, n) \o Tail(agenda)
                /\ UNCHANGED outcome
  /\ UNCHANGED document

Finish ==
  /\ outcome = "creating" /\ agenda = <<>>
  /\ outcome' = "built"
  /\ UNCHANGED <<document, nodes, agenda>>

CNext == Load \/ CreateNode \/ Finish

CSpec == CInit /\ [][CNext]_cvars
-----------------------------------------------------------------------------
KidsOf(n) == [i \in DOMAIN nodes[n].kids |-> nodes[nodes[n].kids[i]].el]

\* No child is lost on the way: a control or a decorator has, in the order of the
\* document, one for each element below it, and the node of a subtree the root of
\* its tree, whatever it is called and whatever stands below it. A leaf drops what
\* stands below it. The nodes of a tree that hang together this way start from the
\* root of the main tree.
BuiltAsWritten ==
  outcome = "built" =>
    /\ nodes[1].el = RootOf("main")
    /\ \A n \in DOMAIN nodes :
         KidsOf(n) = CASE Kind(nodes[n].el) = "leaf" -> <<>>
                       [] Kind(nodes[n].el) = "subtree" -> <<RootOf(InstanceName(nodes[n].el))>>
                       [] OTHER -> Below(nodes[n].el)

\* What VerifyXML accepts by its tag the tree can be ticked with: a decorator with
\* its child, a control that has one, and every subtree. (A decorator called by
\* its own name is not checked and may have none.)
ReadyToTick ==
  outcome = "built" =>
    \A n \in DOMAIN nodes :
      LET e == nodes[n].el IN
      /\ (look[e].tag = "Decorator" /\ Kind(e) # "leaf") \/ Kind(e) = "subtree"
           => Len(nodes[n].kids) = 1
      /\ look[e].tag \in Demanding => nodes[n].kids # <<>>
      /\ Kind(e) = "decorator" => Len(nodes[n].kids) <= 1
=============================================================================
