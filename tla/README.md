# Behaviortree_ATK in TLA+

The program is the decision maker of a simulated fighter: a C++ library with a
behavior-tree engine (a cut-down BehaviorTree.CPP v3), a combat tree
(`Rule_STIL_ATK.xml`) of some forty nodes written for it, and a host object,
`UCPPBehaviorTree`, that is called once a frame, ticks the tree and gives the
tree's aim point (`VP_Cartesian`) and throttle to the flight controller.

What is hard about it is not the geometry. It is what stays behind between two
ticks: remembered children, progress counters, skip lists, statuses that nobody
reset, manoeuvres that run over many ticks, and one *second thread* per Timeout
node that halts a manoeuvre whenever its deadline passes. This development is
about that.

## 1. Inventory

| part | state it keeps | operations | talks to |
|---|---|---|---|
| `TimerQueue` (`timer_queue.h`) | heap of items, id counter, `m_finish`; counting semaphore | `add`, `cancel`, `cancelAll`, destructor; worker: `run`, `calcWaitTime`, `checkWork` | the worker thread calls the handlers |
| `TimeoutNode` | `timeout_started_`, `child_halted_`, `timer_id_`, `timeout_mutex_` | `tick`, `halt`, destructor, the handler | ticks and halts its child; its `TimerQueue` |
| `TreeNode`, control nodes, decorators | `status_`; `current_child_idx_`, `skip_list_`, `running_child_`, `try_index_`, `retry_count_` | `executeTick`, `tick`, `halt`, `haltChild(ren)` | parent calls child; nothing else |
| action nodes | `status_`; a manoeuvre's `vp_on_entry_` and dwell times | `tick` / `onStart`, `onRunning`, `onHalted` | the combat blackboard |
| combat tree | - | the shape: priorities of the branches | - |
| combat blackboard `CPPBlackBoard` | positions, angles, `BFM`, `HABFM_CircleMode`, `IsCounterAttack`, `VP_Cartesian`, `Throttle` | plain fields | written by host, services, gates, tasks, and by the timer threads through `onHalted` |
| services (`SelectTarget` to `PredictManeuver`) | last target, energy verdict, history of the target | `tick` | the blackboard; each other, by the order they stand in |
| HABFM sampler | reference headings and time, turn rates | `tick` of `SetBFMMode_HABFM` | the blackboard; the circle tasks |
| `Task_AggressiveOBFM` | tier, start of the energy hold | `tick` | the blackboard; damage windows of `WezPhase.h` |
| host `UCPPBehaviorTree` | clocks, `BB`, the tree | `init`, `Step`, `RunCPPBT`, `GetVP` | ticks the root, fills the blackboard, reads the aim point while timer threads may write it |
| factory and XML parser | registered builders; opened documents, tree roots | `registerBuilder`, `loadFromFile`, `VerifyXML`, `instantiateTree` | makes and links the nodes, before the first tick |
| ports, engine blackboard, loggers, vendored code | - | before the first tick, or output | - |

Hard behaviours, and what makes each part correct:

* **TimerQueue.** `notify()` comes after the lock was released, the worker
  decides how long to sleep in one critical section and sleeps in another,
  `cancel()` moves a handler between items. Correct: every handler is run exactly
  once, late or aborted, no wake-up is lost, and nothing runs after the destructor.
* **TimeoutNode.** Two threads, one mutex that covers only part of the state,
  `cancel()` that may find nothing. Correct: the child is halted by the timer of
  its own activation, once, never in the middle of a tick; no result is lost; a
  child that does not end is halted.
* **Engine.** Results come in over many ticks, halts cut in between two of them.
  Correct: a halt reaches everything that runs, a decided tree has forgotten its
  progress, a control node's verdict is the one its class promises of the results
  it has heard, a decided child is not run again.
* **Combat tree.** Gates with overlapping windows and tasks that decline.
  Correct: ground avoidance before anything else, exactly one command a tick, the
  command that goes out is that of the task that was flown, and no manoeuvre
  keeps the altitude check away for ever.
* **Services, sampler, aggressive task.** A frame that resumes a manoeuvre ticks
  none of them, so what they keep may be frames old. Correct: a fresh fight reads
  data of one moment, rates that count are those of one window, a tier is pressed
  only on angles that allowed it and not for ever with less energy.
* **Host.** The tree may throw or compute numbers that are not finite, and the
  timer writes the aim point between two reads. Correct: what goes out is finite
  and of this frame.
* **Construction.** Correct: no control or decorator of an accepted document loses a
  child, no subtree its root, and what the verifier promises of a tag can be ticked.

`PROJECT.json` lists every component (modelled or not) and every hazard at its
line, with the properties that watch it.

## 2. Modules

```
TimerService  <--refines--  TimerQueue             MCTimerQueue
     ^
     | INSTANCE
TimeoutNode                                        MCTimeoutNode
     :  (its halt is the action Expire)
BehaviorTree  <-- RuleTree --> CombatRules         MCBehaviorTree, MCRuleTree
                     |
                     | refines
                     v
               CombatFrames  <-- TurnRates                  MCTurnRates
                             <-- Services <-- AggressiveOBFM --> WezPhase
                                                            MCAggressiveOBFM
Host          (the tick as RuleTree leaves it)     MCHost
Construction  (the tree BehaviorTree takes)        MCConstruction
```
(`<--` and `-->` point to the module that is extended.) The theorems about a module
`M` are in `MProofs`, for `TimerQueue`, `TimeoutNode`, `BehaviorTree`, `RuleTree`
(which extends the one of `BehaviorTree`), `TurnRates`, `AggressiveOBFM` (with those
about `Services`), `Host` and `Construction`.

* **TimerService** - what a timer queue promises: the life of each timer
  (unused, waiting, due, cancelled, fired, aborted) and one handler at a time.
* **TimerQueue** - the code: `items` is `m_items` as a set whose top is any item
  of least `end`, `sem` the semaphore's count, `wpc` the place of the worker in
  `run()`, `cpc` the place of each client. Each critical section of `m_mtx` is one
  action, each `notify()` a step of its own. `Clock::now()` is a bounded counter.
* **TimeoutNode** - every step of `tick()`, `halt()`, the handler and the
  destructor between two points at which the other thread can tell a difference,
  over a stateful child that answers anything or throws. It uses the queue through
  `TimerService`. `pc` holds the place of the host and of the timer thread.
* **BehaviorTree** - the engine over *any* tree (`Children`) and any assignment of
  classes to its nodes (`Kinds`). The call stack of a tick is the path from the
  root to the node at hand, so a focus `(at, back)` is enough: `back = "none"`
  before a node's `tick()`, its result after `executeTick()`. A halt is one step.
  `heard` is a ghost: what each child last reported in its parent's activation.
  The port `return_on_mismatch` of a blackboard check is any of its three results
  (`Mismatch`).
* **CombatRules** - `Rule_STIL_ATK.xml` as constants.
* **RuleTree** - extends `BehaviorTree` with the shipped tree as a constant and
  the blackboard fields by which its leaves steer each other. The geometry is any:
  a gate or a task that tests it may answer either way. (The `STIL_*` environment
  variables move those windows, too.)
* **CombatFrames** - what a frame of the tree promises to leaves with data of their
  own: all services and at most one of sampler and aggressive task, or, when a
  manoeuvre is resumed, none. RuleTree is shown to implement it (`ImplementsFrames`),
  and the next three modules are built on it instead of on the whole tree.
* **TurnRates** - `SetBFMMode_HABFM`: headings on a circle of whole units, the
  reference of the last sample, gaps, windows, validity, input that is not finite,
  and the circle mode. What the aircraft truly turned is a ghost. The clock never goes
  back, so the code's `dt < 0` has no case. "Truly" is of the headings on the
  blackboard: without a living enemy SelectTarget leaves the target's as it was, and
  what it jumps when one lives again is left out.
* **Services** - the chain of `UpdateCombatInformation`, one operator per service,
  applied in the order of the document (`ServedTo`) to the *ages* of the data each field rests
  on; the energy verdict with its dead band, the history and the velocity from it.
* **WezPhase**, **AggressiveOBFM** - the damage windows and the task's choice of its
  tier: yield, yo-yo, gun run, thresholds that widen with the phase, energy bands,
  the clock on ALL_OUT with less energy. Angles and ranges are those at which an
  answer changes. `TierMatrix` is the switch `STIL_TIER_MATRIX`: off, the energy
  does not count.
* **Host** - `init()`, `Step()`, `GetVP()` with the timer thread's `onHalted()`.
  The aim point has three components that are read and written one at a time in
  any order, as the data race allows; of a component it is known where it comes
  from. A plane that has lost its hit points does not get them back.
* **Construction** - `loadDocImpl`, `VerifyXML`, `createNodeFromXML` and
  `recursivelyCreateTree` over any document: the recursion is an agenda of elements
  still to be made. `<SubTreeWrapper>` needs no ID for the verifier; without one the
  construction reads a null pointer (outcome `crashed`).

## 3. Runs

Every `MC*.cfg` is a run; `PROJECT.json` names its properties and, for each, a
mutation of the modelled code that breaks it.

| run | question | bound |
|---|---|---|
| TimerQueue | nothing lost, nothing run twice, empty at exit, nothing outlives it, refines TimerService; every handler is run, `join()` returns | 2 clients, 2 timers + the destructor's, 3 instants, delays 0 and 2 |
| TimeoutNode | types, a timeout is earned, no orphan child, no result lost, no call blocks for ever | 3 activations, any result, host halts, early deadlines |
| TimeoutNodeLive | with a host that never halts: `onHalted()` only on a RUNNING child, no activation runs for ever | 3 activations, no deadline before the first tick's end, no exception |
| BehaviorTree | types, NoneEscapes, DecidedTreeRestarts, Promises, DecidedOnce, and every tick ends | 441 trees of 7 nodes, with a stateful action beside the inner control node if that hangs under a Parallel, a synchronous one otherwise; in 54 of them (Sequence or Fallback over a memory node) any leaf may throw |
| RuleTree | RulePriority, OneCommand, VPOwned, CounterAttackAtOnce, ActionsStartAnew, GroundCheckRecurs, refines CombatFrames | the shipped tree itself |
| TurnRates | types, rates that count are true and of one window, the circle is that of the one who turned faster | a circle of 12 units, windows of 2 to 3 frames, turns of up to 2 units a frame |
| AggressiveOBFM | types, OneSnapshot, VelocityTrue, TierEarned, HoldLimited | history of 3, hold of 2 frames, 3 phases, every threshold with both its sides, `STIL_TIER_MATRIX` on as by default |
| Host | types, OutputFinite, OfThisFrame | none but the abstraction of numbers |
| Construction | BuiltAsWritten, ReadyToTick | documents of 3 elements of 18 kinds, two trees, one of them perhaps included |

and three runs that find what the code does against what it says (section 5):
TimeoutNodeForeign, RuleTreeEveryTick, AggressiveOBFMHold.

HoldLimited counts the frames in which the angle called for ALL_OUT while low, the
present one not among them: the limit is on the time from the first to the last, so
that HoldLimit + 1 frames are flown before the demotion.

**Why the bounds are enough.** Two queued timers and the one of the destructor
give every order of deadlines, a tie, a cancelled item above and below a live one,
and a cancel that comes too late; `MaxId = 4` (2.15 million states) was run once
and agrees. Three activations of a Timeout let a handler of the first meet the
second and leave one more to see the harm; the proofs of section 4 remove this
bound. The trees have a control node over a control node over a decorator, with
siblings on both sides: a result can come from below, be kept by the one, and be
cut off by the other; a fourth level repeats the same relation of parent and child.
`Count` is 2, one less and one more than the interesting cases. RuleTree has no
bound on the tree; its only abstraction is the data. In TurnRates a circle of 12 and
`MaxTurn = 2` let a heading wrap within a window either way, with rates on both sides
of what is valid, and `MaxSample` is reached and passed by gaps. A history of 3
positions is filled, rolls and is cut by a gap (the code keeps 5), and a hold of 2
frames is reached, passed and interrupted. Three elements give a parent with two
children, a chain, and a subtree with a body below any of the tags; a fourth adds
siblings of siblings. `Depth = 6` is more than any tree of such a document has, so
that only one that contains itself gets there.

**Deadlock** is checked in all runs but these. TimerQueue and TimeoutNode stop when
their destructor has returned (or their timers are used up), and Construction when
the tree is built or refused, so those cfgs switch it off; that nobody blocks is `CallsReturn`,
`HandlersRun` and `DestructorReturns`.

**Fairness.** *TimerQueue*: the worker and the clock go on, a client that has
entered a call returns; nobody has to make a call. *TimeoutNode*: the same, and an
activation that is RUNNING is ticked again, since the host calls `Step()` every
frame. Strong fairness is assumed in one place, the handler's lock: a mutex the
host takes and releases every frame, and leaves free for most of it, is not
withheld from a waiting thread for ever. Starting, halting and destroying are the
host's free choice. *BehaviorTree*: a tick that has begun goes on; nothing has to
begin. *RuleTree*: the host's frames (weak) and, strongly, the timer that halts a
manoeuvre; the latter is `TimeoutEnforced` of TimeoutNode, in activations where the
deadline does not pass before the first tick has ended (constant `Prompt`; section
5 says what happens otherwise).

## 4. Proofs

Every safety property and every action property of the passing runs, and both
refinements, are theorems, for all values of the constants that the named
assumptions admit. None of the invariants is inductive by itself (but for some of the
`TypeOK`s). In each module `IInv` (`RInv` for the combat tree) is the one that is;
`InitIInv` and one step lemma per action or group of actions carry it, and each
theorem follows from it in a few lines. Each `IInv` was also checked by TLC, on the
instances of section 3.

| module | theorems | assumed, besides the module's assumption on its constants |
|---|---|---|
| TimerQueueProofs | `TypeCorrect`, `OwnedOnce`, `EmptyWhenDone`, `NothingLeftToRun`, `QueueImplementsService` | - |
| TimeoutNodeProofs | `TypeCorrect`, `TimeoutIsEarned`, `NoChildLeftBehind`, `ResultsAreKept`, `HaltedWhileRunning` | `~HostHalts` in the last |
| BehaviorTreeProofs | `TypeCorrect`, `HaltReachesAll`, `NothingLeftBehind`, `PromisesHold`, `NotTickedAgain` | `Contained` |
| RuleTreeProofs | `GroundFirst`, `OneCommandPerTick`, `CommandIsOfTheTask`, `CounterDecidedAtOnce`, `ManoeuvresStartAnew`, `TreeKeepsFrames` | - |
| TurnRatesProofs | `TypeCorrect`, `TrueRates`, `CirclesEarned` | - |
| AggressiveOBFMProofs | `TypeCorrect`, `ReEntryConservative`, `HoldIsLimited`, `OneMoment`, `TrueVelocity` | - |
| HostProofs | `TypeCorrect`, `FiniteOutput`, `CommandOfThisFrame` | - |
| ConstructionProofs | `NothingLost`, `VerifiedIsReady` | - |

**TimerQueue.** `Items` says what an item that lost its handler, was cancelled, or
is still live looks like. `Owned` says that a registered handler which the worker has
not taken out is in the heap, and in one item of it: `cancel()` moves a handler from
one item to another, so neither half can be kept without the other. `Ending`
says what holds from `cancelAll()` on: no other client is in a call, nothing in the
heap is in the future, and the worker leaves only with an empty heap. For
`QueueImplementsService` each critical section is a step of TimerService and each
`notify()`, wait and wake-up leaves it alone (`HiddenSteps`); that a handler
taken out early was cancelled is again `Items`.

**TimeoutNode.** A tick that finds `child_halted_` set may rely on the child being
IDLE only because the handler holds the mutex from the moment it sets the flag until
`haltChild()` has ended, and because in that time no host step makes the child
RUNNING. `Locking` says who holds `timeout_mutex_` at which place of the code,
`HostPlace` and `HandlerPlace` what is known of the statuses, the flags and the
ghosts at each place, `HaltedChild` what `child_halted_` means. The delicate case is
the host's `halt()`, which runs *without* the mutex: the invariant has to admit that
both threads are in the child's `halt()` at once, yet both leave the child IDLE.
`HaltedWhileRunning` adds `Undisturbed`: without a halting host, a handler in the
child's `halt()` is alone there.

**BehaviorTree**, over finite trees of any shape and size. `IInv` is a conjunction
over the nodes (`Local`), because what one node knows is about its children only:
progress and the results heard agree with the position of the current child
(`InOrder`, `Reacting`), the skip list has just those children that have decided
(`Listed`), a node that neither runs nor waits has nothing left over (`Quiet`), and a
RUNNING child has a parent that is RUNNING or waits for it (`Closed`, of which
NoneEscapes is the closure over the path). Two families of lemmas carry it. A *frame*
lemma (`...Frame`) shows that a node off the path keeps its part when a tick or a halt
works elsewhere; `ReturnLocal` and `DownLocal` reduce the actions of all classes to
two, a node that decides and a node that goes down to a child, and leave for each
action only the facts that are its own. `Above`, a recursive function, is shown to be
what its definition says (`AboveIs`) before anything is said of paths.
`Contained` excludes what is known not to hold (section 5): no
`DECO_CounterAttackCheck` over a child that may be RUNNING, and, in trees where a leaf
throws, no node on the way of the exception that is not RUNNING by then, that is no
Reactive, Parallel or Switch node and no SubTree except directly over a leaf. It holds
of every tree of MCBehaviorTree and is *proved* of the shipped one (`RuleContained`).

**RuleTree.** Its steps are steps of the engine or of a leaf, so the engine's `IInv`
comes for free, and every action is one of a few kinds (`Steps`): down to a child,
decide, go on to the next child, a leaf's result, a timeout, a frame's begin and end.
The rest of `RInv` is about the document. `Answers`: which nodes cannot fail and which
cannot be RUNNING. `Anew` and `Beyond`: a manoeuvre that decided is reset at once, and
nothing runs behind the current child. `CounterQuiet`: the counter-attack's gate,
retry and timeout have no state between ticks. `Flight`: once a task has given its
command the tick goes straight up (`Rising`), which needs that no branch goes on after
a task has succeeded or is RUNNING; OneCommand and VPOwned are this invariant seen at
the root. `Checked`: in a tick that starts at the root, what was heard was ticked, from
which RulePriority. `Reading` and `Past`: when a manoeuvre is resumed, the tick is past
the sampler and the aggressive task; this is what `TreeKeepsFrames` needs to show that
a resumed frame reads nothing. The step simulation of CombatFrames maps each kind of
step to Begin, Refresh, one Read, End or a stutter.

**TurnRates.** `Folded`: within a window the difference of two headings on the circle
is what was turned, folded once, because no one turns half a circle in a window
(`TurnAssumption`). Without it the wrap in `SampleStep` could lose a whole turn.

**Services, AggressiveOBFM.** The services are applied by a recursive function over
their names, which `ServedInOrder` unfolds to the eight of the document.
`History` says that the last n ages in the history are consecutive, before and after
the frame's own entry; only then is the velocity over it the true one. `Running`
relates the clock of a hold to the frames of it, and is what HoldLimited lacks: the
clock is never *behind*. `Kept` is the same for tiers.

**Host.** What is known of the aim point at each place of `Step()`, while the timer may
put back any component at any moment: `Checking`, `Replacing` and `Copying` separate
the components that are done from those that are not. A component that was found
finite stays so, since what `onHalted()` puts back is finite (`Clean`).

**Construction**, for documents of any size. `Made` and `Waiting`: the children of a node
so far are the first of the elements below it, and the others are on the agenda as one
block in their order (`Queued`); a new node puts its own block in front and moves the
others without tearing them. VerifiedIsReady needs that the verifier has seen every
element, hence that climbing from an element ends at a tree (`TreeOfIs`,
`TreeOfTrees`).

What the proofs found out about the model:

* Promises was stated for every result, also for one that a Parallel only reads again
  because the child is on its skip list. Such a child may have been reset in between,
  so Promises now speaks of results that are returned (`Skipped`).
* In the proof for Parallel, a sibling that is RUNNING beside a control node that
  decides was needed; MCBehaviorTree had none then, and has one now.
* Arms of CASE that overlapped (RuleTree's `Kind` of a node, Construction's `Kind`) mean
  nothing definite when both hold. They are disjoint now.
* `Below` was sorted by an operator of the library that the prover does not know; it is
  now the increasing sequence of the elements below, which exists (`BelowIs`).

Only model-checked: everything about *eventually* (HandlersRun, DestructorReturns,
CallsReturn, TimeoutEnforced, TickReturns, GroundCheckRecurs), which rests on fairness
and ENABLED, out of this prover's reach; and the three runs that look for a violation.

## 5. Where the code and its words differ

| run | the code | says otherwise |
|---|---|---|
| TimeoutNodeForeign | a late handler halts the child of the *next* activation | `timeout_node.h:126-128` |
| RuleTreeEveryTick | no altitude check while a manoeuvre is RUNNING | `Rule_STIL_ATK.xml:52` |
| AggressiveOBFMHold | the clock on a hold goes on while the task yields, overrides or is not ticked | `Task_AggressiveOBFM.cpp:380`, `.h:166` |

All three concern the shipped tree as it is flown. Others, found with the same
modules by changing a constant or a formula:

* ReactiveSequence and ReactiveFallback return RUNNING at their first RUNNING child,
  after halting the children behind it (`reactive_sequence.cpp:38`,
  `reactive_fallback.cpp:35`); `reactive_sequence.h:37,72` and
  `reactive_fallback.h:36,73` say that the next child is ticked all the same. Promises
  therefore says of a reactive node only what doc and code agree on, what it returns
  given the results it has heard, and not which children it hears; the formula that
  every child behind a RUNNING one has been heard fails for both classes. The shipped
  tree uses neither.
* With `Prompt = FALSE`, TimeoutEnforced fails: a deadline that passes before the
  child is RUNNING finds nothing to halt, and no other timer is set in that
  activation, against `timeout_node.h:111-112` (lines 138-141 say the timer starts
  later than it does). With the shipped 2000 ms and more it takes a suspended process.
* After a manoeuvre the predicted velocity is too large until the history has rolled
  over: it divides the way between the ends of the history by its entries, where
  `PredictManeuver.cpp:91` says by the time that has passed. The formula
  `velocity.over = velocity.span` fails in a frame in which no entry is stale;
  VelocityTrue says from when on it holds again.
* After an exception the next frame ticks the tree again and the command of a task
  goes out; the message at `CPPBehaviorTree.cpp:592` speaks of a shallow climb for
  the rest of the match. OfThisFrame says what the catch does do, in its frame.
* `DECO_CounterAttackCheck` closes without halting a child that is RUNNING, against
  `bt_factory.h:163`: with the gate among the kinds of MCBehaviorTree, over a
  stateful action, NoneEscapes fails. In the shipped tree its task decides at once
  (`CounterAttackAtOnce`), so it is latent.
* After a gap the circle is decided on rates from before it, although
  `SetBFMMode_HABFM.cpp:135` samples "every tick" and line 14 sets a limit on the
  age of headings: a gap resets the reference and leaves `HasTurnRate` set.
  RatesTrue and CircleEarned hold all the same: the rates are true, but old.
* In frames without hit points the aim point is built from the last living frame's
  position with no check: OutputFinite fails without its `~dead`, against the
  comment at `CPPBehaviorTree.cpp:637`. A timer that is still armed may also put an
  old aim point in place of the ground below, and the throttle of 0 stays on the
  blackboard: `Step()`'s parameter is not assigned.
* With `HostHalts = TRUE`, OnHaltedWhileRunning fails: `halt()` and a handler both
  find the child RUNNING, and `onHalted()` runs again on an action the other thread
  has set IDLE (`action_node.h:174`).
* In a tree with RetryUntilSuccesful over a stateful action, ActionsStartAnew fails:
  the failed action is ticked again without being reset and hands its result back,
  so it is not run again (`retry_node.h:36`).
* A failed SequenceStar leaves earlier children with SUCCESS, so the visitor in
  `haltTree()` is not the no-op of `bt_factory.h:168`.

Also seen while modelling, without a property of its own:

* A second `init()` of an object always throws, since its names are registered
  already; after a wrong path only a new object helps.
* A `<SubTree>` of an unknown name, a `<SubTreeWrapper>` without an ID, a tree that
  contains itself and a tree's own tag with a `name` attribute pass VerifyXML and end
  in undefined behaviour or without end, not in the exception `init()` waits for
  (outcome `crashed`). The verifier checks no tag but the generic ones: a decorator
  called by its own name may be empty, children below a leaf's own name are made and
  dropped, and elements below a tree's own tag or a `<SubTreeWrapper>` are passed
  over. A tree of an included
  file takes the place of one with the same name in the file that includes it. A
  subtree gets a blackboard of its own only if it is called `SubTree`
  (`xml_parsing.cpp:620` compares the name). The shipped document does none of this.
* A gun run sets the tier to ALL_OUT (`Task_AggressiveOBFM.cpp:319`), and line 522
  sets it back; in it the limit on ALL_OUT with less energy does not count.
* The energy bands go by the speeds whenever the verdict is against us, within the
  dead band or not.
* In the shipped tree the retry of CanRetry never happens: its gate and its
  condition read the same flag and its task is synchronous, so it decides at once
  (`CounterAttackAtOnce`), and its 4000 ms Timeout never fires either.
* The "flip" of the circle mode that `Task_OneCircleAttack.cpp:65` waits for cannot
  come while the task is RUNNING: the node that writes the mode is not ticked then.
* `Task_CounterTurn`, `Task_ScissorRollBack`, `Task_EvasiveScissors` and `Task_Pure`
  stand behind tasks that always succeed.
* `Repeat`/`RetryUntilSuccesful` with -1 and a child that always decides at once
  never leave the tick; a Parallel with threshold 0 is not excluded by the code. The
  model assumes counts within `KindAssumption`.
* After an exception, NoneEscapes does not hold for trees with Reactive, Parallel or
  Switch nodes: they are not RUNNING while they tick children that may be.

## 6. Not modelled

Formulas of guidance and geometry (floating point, no state of interest), the
coordinate conversion and the stick controller, ports and the engine's blackboard
(one pointer is put on it before the first tick), logging and telemetry, vendored
code (tinyxml2, flatbuffers, expected, string_view and file paths are more than half
of the lines), nodes the shipped tree does not use, tools and tests. `msec = 0` in a
Timeout, `return_on_mismatch="IDLE"` of a blackboard check (a control node above throws).
`AsyncActionNode` (no node derives from it) and the visitor of `haltTree()`
(only the destructor of a tree calls it). The training mode of the damage windows.
The forced halt of `BT_FORCE_HALT` is in BehaviorTree and TimeoutNode, not in Host.

## 7. Plan

All safety properties are proved. What would add most:

1. **BehaviorTree** without `Contained` where the code allows it: an exception through
   Reactive and Parallel nodes, with the exact set of nodes that may stay RUNNING, so that
   the last item of section 5 becomes a theorem about what *does* hold.
2. **TimeoutNode and RuleTree together**: that the action by which RuleTree lets a timer
   halt a manoeuvre is the one TimeoutNode's handler performs, as a step simulation.
3. Nodes of the engine that the shipped tree does not use.
