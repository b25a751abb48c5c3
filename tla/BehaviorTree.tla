---------------------------- MODULE BehaviorTree ----------------------------
(***************************************************************************)
(* The tick engine: TreeNode::executeTick() and tick()/halt() of the       *)
(* control nodes and decorators, over a tree of any shape.                 *)
(*                                                                         *)
(* The call stack of a tick is the path from the root to the node that is  *)
(* being ticked, so the focus (at, back) is all there is to it: the host   *)
(* thread is about to call at's tick() when back = "none", or has returned *)
(* from at's executeTick() with the result back. A halt is one step: it    *)
(* runs to its end in one call and reads nothing that others write.        *)
(* The timer of a Timeout is the environment action Expire (TimeoutNode    *)
(* has its interleavings).                                                 *)
(***************************************************************************)
EXTENDS Naturals, Sequences, FiniteSets

CONSTANTS
  Children,     \* [node -> sequence of its children], from the XML
  Root,         \* rootNode()
  Kinds,        \* the assignments [node -> class] that are considered
  Throwing,     \* those of them whose actions may throw
  Count,        \* num_cycles, num_attempts, max_retries, threshold of a node
  Results,      \* [leaf -> what its tick can come to]
  HostHalts     \* TRUE: the host may halt the tree between two ticks

Nodes == DOMAIN Children
Kids(n) == {Children[n][i] : i \in DOMAIN Children[n]}
Leaves == {n \in Nodes : Children[n] = <<>>}
Parent == [n \in Nodes \ {Root} |-> CHOOSE p \in Nodes : n \in Kids(p)]
Pos == [n \in Nodes \ {Root} |->
          CHOOSE i \in DOMAIN Children[Parent[n]] : Children[Parent[n]][i] = n]
Above ==
  LET up[n \in Nodes] == IF n = Root THEN {} ELSE {Parent[n]} \cup up[Parent[n]]
  IN  [n \in Nodes |-> up[n]]

Leaf == {"Sync", "Stateful"}
Memory == {"Sequence", "Fallback", "SequenceStar"}
Reactive == {"ReactiveSequence", "ReactiveFallback"}
Control == Memory \cup Reactive \cup {"Parallel", "Switch"}
\* Decorators that set themselves RUNNING and tick their child.
Wrapper == {"Inverter", "ForceSuccess", "ForceFailure", "Repeat",
            "RetryUntilSuccesful", "CanRetry", "SubTree"}
Gate == {"DECO_CounterAttackCheck", "BlackboardCheck"}
Decorator == Wrapper \cup Gate \cup {"Timeout"}

\* Children are those of a tree: each node but the root stands in one place
\* below one parent, and nowhere below itself.
ASSUME TreeAssumption ==
  /\ IsFiniteSet(Nodes) /\ "outside" \notin Nodes /\ Root \in Nodes
  /\ Children \in [Nodes -> Seq(Nodes \ {Root})]
  /\ \A n \in Nodes \ {Root} : \E p \in Nodes : n \in Kids(p)
  /\ \A p, q \in Nodes : \A i \in DOMAIN Children[p], j \in DOMAIN Children[q] :
       Children[p][i] = Children[q][j] => p = q /\ i = j
  /\ \A n \in Nodes : n \notin Above[n]

ASSUME KindAssumption ==
  /\ Throwing \subseteq Kinds
  /\ Kinds \subseteq [Nodes -> Leaf \cup Control \cup Decorator]
  /\ Count \in [Nodes -> Nat]
  /\ \A n \in Leaves : Results[n] \subseteq {"RUNNING", "SUCCESS", "FAILURE"}
  /\ \A k \in Kinds : \A n \in Nodes :
       /\ k[n] \in Leaf <=> n \in Leaves
       /\ k[n] \in Decorator => Len(Children[n]) = 1
       /\ k[n] \in {"Repeat", "RetryUntilSuccesful"} => Count[n] > 0
       /\ k[n] = "Parallel" => Count[n] \in 1 .. Len(Children[n])

VARIABLES
  kind,         \* the class of every node; fixed once the tree is built
  status,       \* status_
  idx,          \* current_child_idx_, try_index_, retry_count_; Switch:
                \* running_child_ + 1; Timeout: 0 not started, 1 started,
                \* 2 child_halted_
  skip,         \* skip_list_ of a Parallel, as a set of children
  at, back,     \* the focus of the tick, see above
  heard         \* ghost: what each node last returned to its parent since
                \* the parent's activation began

vars == <<kind, status, idx, skip, at, back, heard>>

Decided == {"SUCCESS", "FAILURE"}
Flip(r) == IF r = "SUCCESS" THEN "FAILURE" ELSE
           IF r = "FAILURE" THEN "SUCCESS" ELSE r

Init ==
  /\ kind \in Kinds
  /\ status = [n \in Nodes |-> "IDLE"]
  /\ idx = [n \in Nodes |-> 0]
  /\ skip = [n \in Nodes |-> {}]
  /\ at = "outside"
  /\ back = "none"
  /\ heard = [n \in Nodes |-> "none"]
-----------------------------------------------------------------------------
(* haltChild() on every node of S: a node that is RUNNING is halted, which *)
(* forgets its progress and does the same to its children; then it is set  *)
(* IDLE, RUNNING or not.                                                   *)

\* Mutant: halt() of a node leaves its children alone.
ReachesShallow(S, n) == n \in S
Reaches(S, n) ==
  n \in S \/ \E s \in S \cap Above[n] :
                \A a \in Above[n] : a = s \/ s \in Above[a] => status[a] = "RUNNING"

Halts(S, n) == Reaches(S, n) /\ status[n] = "RUNNING"
Reached(S) == {n \in Nodes : Reaches(S, n)}

\* An activation ends when its node is halted, or has decided and gives the
\* result away. (A SequenceStar that failed resumes where it was.)
Over ==
  IF back \in {"SUCCESS", "FAILURE"}
     /\ ~(back = "FAILURE" /\ kind[at] = "SequenceStar")
  THEN {at} ELSE {}

\* What is heard once the activations of P are over and S is halted.
Forget(P, S) ==
  [n \in Nodes |-> IF n # Root /\ (Parent[n] \in P \/ Halts(S, Parent[n]))
                   THEN "none" ELSE heard[n]]

StatusAfter(S) == [n \in Nodes |-> IF Reaches(S, n) THEN "IDLE" ELSE status[n]]
IdxAfter(S) == [n \in Nodes |-> IF Halts(S, n) THEN 0 ELSE idx[n]]
SkipAfter(S) == [n \in Nodes |-> IF Halts(S, n) THEN {} ELSE skip[n]]
HeardAfter(S) == Forget(Over, S)

\* tick() of n halts S and leaves the progress i and the skip list k;
\* executeTick() sets the status r and returns it.
Return(n, r, S, i, k) ==
  /\ at' = n
  /\ back' = r
  /\ status' = [StatusAfter(S) EXCEPT ![n] = r]
  /\ idx' = [IdxAfter(S) EXCEPT ![n] = i]
  /\ skip' = [SkipAfter(S) EXCEPT ![n] = k]
  /\ heard' = [HeardAfter(S) EXCEPT ![n] = r]
  /\ UNCHANGED kind

\* tick() of a node calls executeTick() of its child c.
Descend(c) ==
  /\ at' = c
  /\ back' = "none"
  /\ heard' = Forget(Over, {})
  /\ UNCHANGED <<kind, skip>>

First(n) == Children[n][1]
-----------------------------------------------------------------------------
(* tick() of a node, up to the first call of a child.                      *)

Ticks(n, K) == at = n /\ back = "none" /\ kind[n] \in K

TickRoot ==
  /\ at = "outside"
  /\ Descend(Root)
  /\ UNCHANGED <<status, idx>>

\* StatefulActionNode::tick() starts an IDLE action, continues a RUNNING one
\* and hands back the status of one that has decided and was not reset.
TickLeaf(n) ==
  /\ Ticks(n, Leaf)
  /\ \E r \in Results[n] :
       /\ kind[n] = "Sync" => r # "RUNNING"
       /\ Return(n, IF kind[n] = "Stateful" /\ status[n] \in Decided
                    THEN status[n] ELSE r, {}, 0, {})

\* The exception leaves every node as it is and ends the tick.
Throw(n) ==
  /\ Ticks(n, Leaf)
  /\ kind \in Throwing
  /\ at' = "outside"
  /\ UNCHANGED <<kind, status, idx, skip, back, heard>>

TickMemory(n) ==
  /\ Ticks(n, Memory)
  /\ Descend(Children[n][idx[n] + 1])
  /\ status' = [status EXCEPT ![n] = "RUNNING"]
  /\ UNCHANGED idx

\* A reactive node and a Parallel are not RUNNING while they tick children.
TickReactive(n) ==
  /\ Ticks(n, Reactive)
  /\ at' = First(n)
  /\ heard' = Forget({n}, {})
  /\ UNCHANGED <<kind, status, idx, skip, back>>

\* The loop of a Parallel comes to the child c: one on the skip list is not
\* ticked, its status counts.
\* Mutant: the skip list is not consulted.
ConsiderAll(n, c) == at' = c /\ back' = "none"
Consider(n, c) == at' = c /\ back' = IF c \in skip[n] THEN status[c] ELSE "none"

TickParallel(n) ==
  /\ Ticks(n, {"Parallel"})
  /\ Consider(n, First(n))
  /\ UNCHANGED <<kind, status, idx, skip, heard>>

\* The value of "variable" picks a child; another one left RUNNING is halted.
TickSwitch(n) ==
  /\ Ticks(n, {"Switch"})
  /\ \E i \in DOMAIN Children[n] :
       LET old == IF idx[n] \in {0, i} THEN {} ELSE {Children[n][idx[n]]} IN
         /\ at' = Children[n][i]
         /\ status' = StatusAfter(old)
         /\ idx' = IdxAfter(old)
         /\ skip' = SkipAfter(old)
         /\ heard' = HeardAfter(old)
  /\ UNCHANGED <<kind, back>>

TickWrapper(n) ==
  /\ Ticks(n, Wrapper)
  /\ Descend(First(n))
  /\ status' = [status EXCEPT ![n] =
                  IF kind[n] = "SubTree" /\ @ # "IDLE" THEN @ ELSE "RUNNING"]
  /\ UNCHANGED idx

TickTimeout(n) ==
  /\ Ticks(n, {"Timeout"})
  /\ idx[n] # 2
  /\ Descend(First(n))
  /\ status' = [status EXCEPT ![n] = "RUNNING"]
  /\ idx' = [idx EXCEPT ![n] = 1]

TickExpired(n) ==
  /\ Ticks(n, {"Timeout"})
  /\ idx[n] = 2
  /\ Return(n, "FAILURE", {}, 0, {})

GateOpens(n) ==
  /\ Ticks(n, Gate)
  /\ Descend(First(n))
  /\ status' = [status EXCEPT ![n] =
                  IF kind[n] = "BlackboardCheck" THEN "RUNNING" ELSE @]
  /\ UNCHANGED idx

\* return_on_mismatch of the blackboard check is a port; the others fail.
Mismatch(n) == IF kind[n] = "BlackboardCheck" THEN {"RUNNING", "SUCCESS", "FAILURE"}
               ELSE {"FAILURE"}

\* Only the blackboard check halts a child that is still RUNNING.
GateCloses(n) ==
  /\ Ticks(n, Gate)
  /\ \E r \in Mismatch(n) :
       Return(n, r,
              {c \in Kids(n) : kind[n] = "BlackboardCheck" \/ status[c] \in Decided},
              0, {})
-----------------------------------------------------------------------------
(* The rest of tick(), when the child c has returned.                      *)

Hears(c, K, R) == at = c /\ c # Root /\ kind[Parent[c]] \in K /\ back \in R

Sibling(c) == Children[Parent[c]][Pos[c] + 1]
\* Mutant: the loop stops one child early.
IsLastEarly(c) == Pos[c] + 1 >= Len(Children[Parent[c]])
IsLast(c) == Pos[c] = Len(Children[Parent[c]])
From(c) == {d \in Kids(Parent[c]) : Pos[d] >= Pos[c]}

\* The result on which a node goes on to its next child.
Advancing(n) ==
  IF kind[n] \in {"Fallback", "ReactiveFallback"} THEN "FAILURE" ELSE "SUCCESS"

\* Mutant: progress is kept when all children have been ticked.
RestartLate(n) == idx[n]
Restart(n) == 0

ChildRunning(c) ==
  /\ Hears(c, Memory \cup Decorator, {"RUNNING"})
  /\ LET n == Parent[c] IN Return(n, "RUNNING", {}, idx[n], {})

ReactiveRunning(c) ==
  /\ Hears(c, Reactive, {"RUNNING"})
  /\ Return(Parent[c], "RUNNING", From(c) \ {c}, 0, {})

NextChild(c) ==
  /\ Hears(c, Memory \cup Reactive, {Advancing(Parent[c])})
  /\ ~IsLast(c)
  /\ Descend(Sibling(c))
  /\ idx' = [idx EXCEPT ![Parent[c]] = IF kind[Parent[c]] \in Memory THEN @ + 1 ELSE @]
  /\ UNCHANGED status

AllAdvanced(c) ==
  /\ Hears(c, Memory \cup Reactive, {Advancing(Parent[c])})
  /\ IsLast(c)
  /\ LET n == Parent[c] IN Return(n, back, Kids(n), Restart(n), {})

\* The other result decides. A SequenceStar keeps its place.
Decides(c) ==
  /\ Hears(c, Memory \cup Reactive, Decided \ {Advancing(Parent[c])})
  /\ LET n == Parent[c] IN
       IF kind[n] = "SequenceStar"
       THEN Return(n, back, From(c), idx[n], {})
       ELSE Return(n, back, Kids(n), 0, {})

ParallelHears(c) ==
  /\ Hears(c, {"Parallel"}, Decided \cup {"RUNNING"})
  /\ LET n == Parent[c]
         listed == IF back \in Decided THEN skip[n] \cup {c} ELSE skip[n]
         seen(r) == Cardinality({d \in Kids(n) : Pos[d] <= Pos[c] /\ status[d] = r})
     IN
       \/ /\ back = "SUCCESS" /\ seen("SUCCESS") = Count[n]
          /\ Return(n, "SUCCESS", Kids(n), 0, {})
       \/ /\ back = "FAILURE" /\ seen("FAILURE") > Len(Children[n]) - Count[n]
          /\ Return(n, "FAILURE", Kids(n), 0, {})
       \/ /\ ~(back = "SUCCESS" /\ seen("SUCCESS") = Count[n])
          /\ ~(back = "FAILURE" /\ seen("FAILURE") > Len(Children[n]) - Count[n])
          /\ IF IsLast(c) THEN Return(n, "RUNNING", {}, 0, listed)
             ELSE /\ Consider(n, Sibling(c))
                  /\ skip' = [skip EXCEPT ![n] = listed]
                  /\ heard' = Forget(Over, {})
                  /\ UNCHANGED <<kind, status, idx>>

SwitchHears(c) ==
  /\ Hears(c, {"Switch"}, Decided \cup {"RUNNING"})
  /\ LET n == Parent[c] IN
       IF back = "RUNNING" THEN Return(n, back, {}, Pos[c], {})
       ELSE Return(n, back, Kids(n), 0, {})

\* Repeat and RetryUntilSuccesful tick the child again within the same tick.
Again(n) == CASE kind[n] = "Repeat" -> back = "SUCCESS" /\ idx[n] + 1 < Count[n]
              [] kind[n] = "RetryUntilSuccesful" ->
                   back = "FAILURE" /\ idx[n] + 1 < Count[n]
              [] OTHER -> FALSE

\* Mutant: the tries are not counted.
TriesUncounted(i) == i
Tries(i) == i + 1

TickAgain(c) ==
  /\ Hears(c, {"Repeat", "RetryUntilSuccesful"}, Decided)
  /\ Again(Parent[c])
  /\ Descend(c)
  /\ idx' = [idx EXCEPT ![Parent[c]] = Tries(@)]
  /\ UNCHANGED status

\* Mutant: one retry too many.
MayRetryOnceMore(n) == idx[n] <= Count[n]
MayRetry(n) == idx[n] < Count[n]

\* DECO_CanRetry: halt the child and try again in the next tick, while
\* BB->IsCounterAttack still holds.
RetryNextTick(c) ==
  /\ Hears(c, {"CanRetry"}, {"FAILURE"})
  /\ MayRetry(Parent[c])
  /\ LET n == Parent[c] IN Return(n, "RUNNING", {c}, idx[n] + 1, {})

\* DecoratorNode::executeTick() sets the decided child IDLE.
\* Mutant: it does not.
ResetsNothing(c) == {}
Resets(c) == {c}

DecoratorDecides(c) ==
  /\ Hears(c, Decorator, Decided)
  /\ ~Again(Parent[c])
  /\ LET n == Parent[c]
         r == CASE kind[n] = "Inverter" -> Flip(back)
                [] kind[n] = "ForceSuccess" -> "SUCCESS"
                [] kind[n] = "ForceFailure" -> "FAILURE"
                [] OTHER -> back
     IN  Return(n, r, Resets(c), 0, {})

\* tickRoot(): the root itself is set IDLE once it has decided.
RootReturns ==
  /\ at = Root /\ back # "none"
  /\ at' = "outside"
  /\ back' = "none"
  /\ status' = [status EXCEPT ![Root] = IF @ \in Decided THEN "IDLE" ELSE @]
  /\ heard' = [Forget(Over, {}) EXCEPT ![Root] = "none"]
  /\ UNCHANGED <<kind, idx, skip>>
-----------------------------------------------------------------------------
\* rootNode()->halt(), in Tree::haltTree() and with BT_FORCE_HALT.
HaltRoot ==
  /\ HostHalts
  /\ at = "outside"
  /\ status' = [StatusAfter(Kids(Root)) EXCEPT ![Root] = "IDLE"]
  /\ idx' = [IdxAfter(Kids(Root)) EXCEPT ![Root] = 0]
  /\ skip' = [SkipAfter(Kids(Root)) EXCEPT ![Root] = {}]
  /\ heard' = Forget({Root}, Kids(Root))
  /\ UNCHANGED <<kind, at, back>>

\* The timer of a Timeout halts a child that is RUNNING. timeout_mutex_ keeps
\* it out while the child is being ticked.
Expire(n) ==
  /\ kind[n] = "Timeout" /\ idx[n] = 1
  /\ ~(at # "outside" /\ n \in Above[at])
  /\ status[First(n)] = "RUNNING"
  /\ status' = StatusAfter(Kids(n))
  /\ idx' = [IdxAfter(Kids(n)) EXCEPT ![n] = 2]
  /\ skip' = SkipAfter(Kids(n))
  /\ heard' = Forget({}, Kids(n))
  /\ UNCHANGED <<kind, at, back>>
-----------------------------------------------------------------------------
Step(n) ==
  \/ TickLeaf(n) \/ Throw(n) \/ TickMemory(n) \/ TickReactive(n)
  \/ TickParallel(n) \/ TickSwitch(n) \/ TickWrapper(n) \/ TickTimeout(n)
  \/ TickExpired(n) \/ GateOpens(n) \/ GateCloses(n)
  \/ ChildRunning(n) \/ ReactiveRunning(n) \/ NextChild(n) \/ AllAdvanced(n)
  \/ Decides(n) \/ ParallelHears(n) \/ SwitchHears(n) \/ TickAgain(n)
  \/ RetryNextTick(n) \/ DecoratorDecides(n)

Host == TickRoot \/ RootReturns \/ HaltRoot

Next == Host \/ (at \in Nodes /\ Step(at)) \/ \E n \in Nodes : Expire(n)

Spec == Init /\ [][Next]_vars

\* A tick that has begun goes on.
Fairness == WF_vars(RootReturns \/ (at \in Nodes /\ Step(at)))

FairSpec == Spec /\ Fairness
-----------------------------------------------------------------------------
Status == {"IDLE", "RUNNING", "SUCCESS", "FAILURE"}

\* Types; a node's progress stays within its children or its tries.
TypeOK ==
  /\ kind \in Kinds
  /\ status \in [Nodes -> Status]
  /\ \A n \in Nodes : idx[n] \in 0 .. (IF kind[n] \in Control THEN Len(Children[n])
                                       ELSE IF kind[n] = "Timeout" THEN 2
                                       ELSE Count[n])
  /\ skip \in [Nodes -> SUBSET Nodes]
  /\ at \in Nodes \cup {"outside"}
  /\ back \in (Status \cup {"none"}) \ {"IDLE"}
  /\ heard \in [Nodes -> Status \cup {"none"}]

\* No action escapes: between two ticks, rootNode()->halt() reaches every
\* RUNNING node, along a path of RUNNING nodes.
NoneEscapes ==
  at = "outside" =>
    {n \in Nodes : status[n] = "RUNNING"} \subseteq {Root} \cup Reached(Kids(Root))

\* A tree whose tick has decided has forgotten all progress: the next tick
\* starts every node anew (but a SequenceStar, which keeps its place).
DecidedTreeRestarts ==
  at = "outside" /\ status[Root] = "IDLE" =>
    \A n \in Nodes :
      /\ status[n] # "RUNNING"
      /\ skip[n] = {}
      /\ kind[n] # "SequenceStar" => idx[n] = 0

\* What a control node that was ticked returns is what the doc of its class says
\* of the results it has heard from its children in this activation, in the
\* order of the children, over however many ticks they came in. A memory node
\* stops at the first child that does not let it advance and takes that child's
\* result (sequence_node.h:35-42, fallback_node.h:37-44).
SequencePromise(n, r) ==
  LET h(i) == heard[Children[n][i]]
      list == DOMAIN Children[n]
  IN  \/ r = Advancing(n) /\ \A i \in list : h(i) = r
      \/ /\ r # Advancing(n)
         /\ \E i \in list :
              /\ h(i) = r
              /\ \A j \in 1 .. i - 1 : h(j) = Advancing(n)
              /\ \A j \in list : j > i => h(j) = "none"

\* A reactive node has heard all children of this tick advance; or stops at the
\* child that decides otherwise, RUNNING children before it notwithstanding; or
\* has a RUNNING child and no child that decides. Which children it ticks after
\* a RUNNING one is left open: the docs say that it goes on with the next
\* (reactive_sequence.h:37,72, reactive_fallback.h:36,73), the code returns.
ReactivePromise(n, r) ==
  LET h(i) == heard[Children[n][i]]
      list == DOMAIN Children[n]
      undecided == {Advancing(n), "RUNNING"}
  IN  CASE r = Advancing(n) -> \A i \in list : h(i) = r
        [] r = "RUNNING" -> /\ \E i \in list : h(i) = "RUNNING"
                            /\ \A i \in list : h(i) \in undecided \cup {"none"}
        [] OTHER -> \E i \in list :
                      /\ h(i) = r
                      /\ \A j \in 1 .. i - 1 : h(j) \in undecided
                      /\ \A j \in list : j > i => h(j) = "none"

ParallelPromise(n, r) ==
  LET of(x) == Cardinality({c \in Kids(n) : heard[c] = x})
      enough == of("SUCCESS") >= Count[n]
      hopeless == of("FAILURE") > Len(Children[n]) - Count[n]
  IN  CASE r = "SUCCESS" -> enough
        [] r = "FAILURE" -> hopeless
        [] r = "RUNNING" -> ~enough /\ ~hopeless /\ of("none") = 0

Skipped(n) == n # Root /\ n \in skip[Parent[n]]

Promises ==
  at # "outside" /\ back # "none" /\ ~Skipped(at) =>
    /\ kind[at] \in Memory => SequencePromise(at, back)
    /\ kind[at] \in Reactive => ReactivePromise(at, back)
    /\ kind[at] = "Parallel" => ParallelPromise(at, back)

\* Within one activation of a Sequence, Fallback or Parallel a child that has
\* decided is not ticked again, however many ticks the activation takes.
DecidedOnce ==
  at # "outside" /\ at # Root /\ back = "none" =>
    (kind[Parent[at]] \in {"Sequence", "Fallback", "Parallel"}
       => heard[at] \notin Decided)

\* tickRoot() returns (or throws): no tick runs for ever.
TickReturns == (at # "outside") ~> (at = "outside")

\* A stateful action that is ticked starts or goes on: it never hands back the
\* result of an earlier run (StatefulActionNode::tick(), its last return).
ActionsStartAnew ==
  at # "outside" /\ back = "none" /\ kind[at] = "Stateful" => status[at] \notin Decided
=============================================================================
