----------------------------- MODULE TimeoutNode ----------------------------
(***************************************************************************)
(* BT::TimeoutNode (decorators/timeout_node.cpp) over one child action.    *)
(* The host thread ticks, halts and destroys the node; the worker thread   *)
(* of the node's TimerQueue runs the handler that tick() registers.        *)
(* timeout_mutex_ spans the child's tick and the handler; the bookkeeping  *)
(* before the lock, cancel() and DecoratorNode::halt() run without it.     *)
(* The queue is used through what it promises: TimerService, which         *)
(* TimerQueue is shown to implement.                                       *)
(*                                                                         *)
(* One action is one step between two points at which the other thread     *)
(* can tell a difference. The child is a StatefulActionNode: nothing else  *)
(* under a Timeout of Rule_STIL_ATK.xml can be RUNNING.                    *)
(***************************************************************************)
EXTENDS Naturals

CONSTANTS
  MaxId,        \* bound: activations of the node (each adds one timer)
  Results,      \* what the child's tick can come to
  HostHalts,    \* TRUE: the host may halt a RUNNING node between two ticks
  Prompt        \* TRUE: no deadline passes before the child's first tick ends

ASSUME TimeoutAssumption ==
  /\ MaxId \in Nat
  /\ Results \subseteq {"RUNNING", "SUCCESS", "FAILURE", "throw"}
  /\ HostHalts \in BOOLEAN
  /\ Prompt \in BOOLEAN

VARIABLES
  timer,            \* timer_: the life of each timer (TimerService)
  running,          \* timer_: the timer whose handler is being run, or 0
  nodeStatus,       \* status of the TimeoutNode
  childStatus,      \* status of its child
  timeoutStarted,   \* timeout_started_
  childHalted,      \* child_halted_
  timerId,          \* timer_id_
  mutex,            \* the thread that holds timeout_mutex_
  pc,               \* where each thread is
  result,           \* what the tick in progress returns
  haltedBy,         \* ghost: timers that halted the child since it started
  restores          \* ghost: onHalted() calls since the child started

queueVars == <<timer, running>>
nodeVars == <<nodeStatus, timeoutStarted, timerId>>
ghostVars == <<haltedBy, restores>>
vars == <<timer, running, nodeStatus, childStatus, timeoutStarted,
          childHalted, timerId, mutex, pc, result, haltedBy, restores>>

Queue == INSTANCE TimerService

TimerIds == 1 .. MaxId
Threads == {"host", "timer"}
Free == "none"
Status == {"IDLE", "RUNNING", "SUCCESS", "FAILURE"}
Decided == {"SUCCESS", "FAILURE"}

Goto(t, from, to) == pc[t] = from /\ pc' = [pc EXCEPT ![t] = to]

\* Mutants: the lock is not taken, or not released at the end of its scope.
AcquireNothing(t) == UNCHANGED mutex
Acquire(t) == mutex = Free /\ mutex' = t
ReleaseForgotten(t) == UNCHANGED mutex
Release(t) == mutex' = Free

Init ==
  /\ Queue!Init
  /\ nodeStatus = "IDLE"
  /\ childStatus = "IDLE"
  /\ timeoutStarted = FALSE
  /\ childHalted = FALSE
  /\ timerId = 0
  /\ mutex = Free
  /\ pc = [t \in Threads |-> "outside"]
  /\ result = "IDLE"
  /\ haltedBy = {}
  /\ restores = 0
-----------------------------------------------------------------------------
(* The host thread in executeTick(): tick(), then the status updates of    *)
(* TreeNode::executeTick and DecoratorNode::executeTick.                   *)

\* The first tick of an activation sets its state up without the lock.
StartActivation ==
  /\ ~timeoutStarted
  /\ \E i \in TimerIds : timer[i] = "unused"
  /\ Goto("host", "outside", "arm")
  /\ timeoutStarted' = TRUE
  /\ nodeStatus' = "RUNNING"
  /\ childHalted' = FALSE
  /\ UNCHANGED <<queueVars, timerId, childStatus, mutex, result, ghostVars>>

\* Mutant: add() raises the counter once more before it returns it.
IdPastAdd(i) == i + 1
IdOfAdd(i) == i

ArmTimer ==
  /\ Goto("host", "arm", "lock")
  /\ \E i \in TimerIds :
       /\ Queue!Add(i)
       /\ Prompt => timer'[i] = "waiting"
       /\ timerId' = IdOfAdd(i)
  /\ UNCHANGED <<nodeStatus, timeoutStarted, childStatus, childHalted, mutex,
                 result, ghostVars>>

ContinueActivation ==
  /\ timeoutStarted
  /\ Goto("host", "outside", "lock")
  /\ UNCHANGED <<queueVars, nodeVars, childStatus, childHalted, mutex, result,
                 ghostVars>>

LockForTick ==
  /\ Goto("host", "lock", "locked")
  /\ Acquire("host")
  /\ UNCHANGED <<queueVars, nodeVars, childStatus, childHalted, result,
                 ghostVars>>

\* A handler has halted the child.
ReturnTimedOut ==
  /\ childHalted
  /\ Goto("host", "locked", "setStatus")
  /\ Release("host")
  /\ timeoutStarted' = FALSE
  /\ result' = "FAILURE"
  /\ UNCHANGED <<queueVars, nodeStatus, timerId, childStatus, childHalted,
                 ghostVars>>

EnterChildTick ==
  /\ ~childHalted
  /\ Goto("host", "locked", "childTick")
  /\ IF childStatus = "IDLE"
     THEN haltedBy' = {} /\ restores' = 0
     ELSE UNCHANGED ghostVars
  /\ UNCHANGED <<queueVars, nodeVars, childStatus, childHalted, mutex, result>>

\* child()->executeTick() comes back RUNNING, decided, or with an exception,
\* which leaves every status and timeout_started_ as they are.
ChildRunning ==
  /\ "RUNNING" \in Results
  /\ Goto("host", "childTick", "setStatus")
  /\ Release("host")
  /\ childStatus' = "RUNNING"
  /\ result' = "RUNNING"
  /\ UNCHANGED <<queueVars, nodeVars, childHalted, ghostVars>>

ChildDecided ==
  /\ Goto("host", "childTick", "cancel")
  /\ Release("host")
  /\ \E r \in Results \cap Decided : childStatus' = r /\ result' = r
  /\ timeoutStarted' = FALSE
  /\ UNCHANGED <<queueVars, nodeStatus, timerId, childHalted, ghostVars>>

ChildThrows ==
  /\ "throw" \in Results
  /\ Goto("host", "childTick", "outside")
  /\ Release("host")
  /\ UNCHANGED <<queueVars, nodeVars, childStatus, childHalted, result,
                 ghostVars>>

\* timer_.cancel(timer_id_) finds nothing to cancel once the handler has
\* been taken out.
CancelTimer ==
  \/ timerId # 0 /\ Queue!Cancel(timerId)
  \/ (timerId # 0 => ~Queue!Pending(timerId)) /\ UNCHANGED queueVars

CancelAfterTick ==
  /\ Goto("host", "cancel", "relock")
  /\ CancelTimer
  /\ UNCHANGED <<nodeVars, childStatus, childHalted, mutex, result, ghostVars>>

\* timeout_mutex_.lock(), and the unlock as tick() returns.
Relock ==
  /\ Goto("host", "relock", "setStatus")
  /\ mutex = Free
  /\ UNCHANGED <<queueVars, nodeVars, childStatus, childHalted, mutex, result,
                 ghostVars>>

SetNodeStatus ==
  /\ Goto("host", "setStatus", "resetChild")
  /\ nodeStatus' = result
  /\ UNCHANGED <<queueVars, timeoutStarted, timerId, childStatus, childHalted,
                 mutex, result, ghostVars>>

\* Mutant: the decorator keeps its child's result.
ResultKept(s) == s
ResultReset(s) == IF s \in Decided THEN "IDLE" ELSE s

ResetDecidedChild ==
  /\ Goto("host", "resetChild", "outside")
  /\ childStatus' = ResultReset(childStatus)
  /\ UNCHANGED <<queueVars, nodeVars, childHalted, mutex, result, ghostVars>>
-----------------------------------------------------------------------------
(* DecoratorNode::haltChild() and StatefulActionNode::halt(), run by       *)
(* either thread: read the child's status, read it again inside halt(),    *)
(* call onHalted(). Setting the child IDLE is the caller's last step.      *)

HaltChild(t) ==
  /\ \/ /\ childStatus = "RUNNING"
        /\ Goto(t, "haltChild", "halt") \/ Goto(t, "halt", "onHalted")
        /\ UNCHANGED restores
     \/ /\ childStatus # "RUNNING"
        /\ Goto(t, "haltChild", "setIdle") \/ Goto(t, "halt", "setIdle")
        /\ UNCHANGED restores
     \/ /\ Goto(t, "onHalted", "setIdle")
        /\ restores' = restores + 1
  /\ UNCHANGED <<queueVars, nodeVars, childStatus, childHalted, mutex, result,
                 haltedBy>>
-----------------------------------------------------------------------------
(* The host thread in halt(), and what a parent does to a decided node.    *)

\* The scope that holds the lock, as one step.
HaltReset ==
  /\ HostHalts
  /\ nodeStatus = "RUNNING"
  /\ Goto("host", "outside", "haltCancel")
  /\ mutex = Free
  /\ timeoutStarted' = FALSE
  /\ childHalted' = FALSE
  /\ UNCHANGED <<queueVars, nodeStatus, timerId, childStatus, mutex, result,
                 ghostVars>>

HaltCancel ==
  /\ Goto("host", "haltCancel", "haltChild")
  /\ CancelTimer
  /\ UNCHANGED <<nodeVars, childStatus, childHalted, mutex, result, ghostVars>>

HaltDone ==
  /\ Goto("host", "setIdle", "outside")
  /\ childStatus' = "IDLE"
  /\ nodeStatus' = "IDLE"
  /\ UNCHANGED <<queueVars, timeoutStarted, timerId, childHalted, mutex,
                 result, ghostVars>>

ParentReset ==
  /\ pc["host"] = "outside"
  /\ nodeStatus \in Decided
  /\ nodeStatus' = "IDLE"
  /\ UNCHANGED <<queueVars, timeoutStarted, timerId, childStatus, childHalted,
                 mutex, pc, result, ghostVars>>

\* ~TimeoutNode() and ~TimerQueue(), after Tree::haltTree(): cancel every
\* timer, then join the worker, which runs every handler before it ends.
Destroy ==
  /\ nodeStatus # "RUNNING"
  /\ Goto("host", "outside", "join")
  /\ Queue!CancelAll
  /\ UNCHANGED <<nodeVars, childStatus, childHalted, mutex, result, ghostVars>>

Join ==
  /\ Goto("host", "join", "destroyed")
  /\ running = 0
  /\ \A i \in TimerIds : timer[i] \in {"unused", "fired", "aborted"}
  /\ UNCHANGED <<queueVars, nodeVars, childStatus, childHalted, mutex, result,
                 ghostVars>>
-----------------------------------------------------------------------------
(* The timer thread: the handler that tick() registers.                    *)

TakeHandler ==
  /\ Goto("timer", "outside", "lock")
  /\ \E i \in TimerIds : Queue!Start(i)
  /\ UNCHANGED <<nodeVars, childStatus, childHalted, mutex, result, ghostVars>>

HandlerLock ==
  /\ Goto("timer", "lock", "check")
  /\ Acquire("timer")
  /\ UNCHANGED <<queueVars, nodeVars, childStatus, childHalted, result,
                 ghostVars>>

\* Mutants: the child's status is not looked at; "aborted" is read backwards.
MustHaltAny == timer[running] = "fired"
MustHaltAborted == timer[running] = "aborted" /\ childStatus = "RUNNING"
MustHalt == timer[running] = "fired" /\ childStatus = "RUNNING"

HandlerHalts ==
  /\ Goto("timer", "check", "haltChild")
  /\ MustHalt
  /\ childHalted' = TRUE
  /\ haltedBy' = haltedBy \cup {running}
  /\ UNCHANGED <<queueVars, nodeVars, childStatus, mutex, result, restores>>

HandlerPasses ==
  /\ Goto("timer", "check", "unlock")
  /\ ~MustHalt
  /\ UNCHANGED <<queueVars, nodeVars, childStatus, childHalted, mutex, result,
                 ghostVars>>

HandlerSetsIdle ==
  /\ Goto("timer", "setIdle", "unlock")
  /\ childStatus' = "IDLE"
  /\ UNCHANGED <<queueVars, nodeVars, childHalted, mutex, result, ghostVars>>

HandlerReturns ==
  /\ Goto("timer", "unlock", "outside")
  /\ Release("timer")
  /\ Queue!Finish
  /\ UNCHANGED <<nodeVars, childStatus, childHalted, result, ghostVars>>

\* Deadlines pass. The timer already counts when the child is first ticked.
Elapse ==
  /\ Prompt /\ pc["host"] \in {"lock", "locked", "childTick"}
       => childStatus = "RUNNING"
  /\ Queue!Elapse
  /\ UNCHANGED <<nodeVars, childStatus, childHalted, mutex, pc, result,
                 ghostVars>>
-----------------------------------------------------------------------------
Tick ==
  \/ StartActivation \/ ArmTimer \/ ContinueActivation \/ LockForTick
  \/ ReturnTimedOut \/ EnterChildTick \/ ChildRunning \/ ChildDecided
  \/ ChildThrows \/ CancelAfterTick \/ Relock \/ SetNodeStatus
  \/ ResetDecidedChild
Halt == HaltReset \/ HaltCancel \/ HaltChild("host") \/ HaltDone \/ ParentReset
Destruct == Destroy \/ Join
Handler ==
  \/ TakeHandler \/ HandlerLock \/ HandlerHalts \/ HandlerPasses
  \/ HaltChild("timer") \/ HandlerSetsIdle \/ HandlerReturns

Next == Tick \/ Halt \/ Destruct \/ Handler \/ Elapse

Spec == Init /\ [][Next]_vars

\* A call that was entered goes on, an activation that is RUNNING is ticked
\* again (the host calls Step() every frame), time passes, the timer thread
\* runs. It gets timeout_mutex_ eventually: the host lets go of it for most
\* of every frame. Starting an activation, halting and destroying are up to
\* the host.
Fairness ==
  /\ WF_vars(Tick /\ pc["host"] # "outside")
  /\ WF_vars(ContinueActivation)
  /\ WF_vars(HaltCancel \/ HaltChild("host") \/ HaltDone \/ Join)
  /\ WF_vars(Handler)
  /\ SF_vars(HandlerLock)
  /\ WF_vars(Elapse)

FairSpec == Spec /\ Fairness
-----------------------------------------------------------------------------
InHandler == {"check", "haltChild", "halt", "onHalted", "setIdle", "unlock"}
HostPc == {"outside", "arm", "lock", "locked", "childTick", "cancel", "relock",
           "setStatus", "resetChild", "haltCancel", "haltChild", "halt",
           "onHalted", "setIdle", "join", "destroyed"}
TimerPc == {"outside", "lock"} \cup InHandler

\* Types; timer_id_ is 0 or an identifier that add() has handed out.
TypeOK ==
  /\ Queue!TypeOK
  /\ nodeStatus \in Status
  /\ childStatus \in Status
  /\ timeoutStarted \in BOOLEAN
  /\ childHalted \in BOOLEAN
  /\ timerId \in TimerIds \cup {0}
  /\ mutex \in Threads \cup {Free}
  /\ pc \in [Threads -> HostPc \cup TimerPc]
  /\ pc["host"] \in HostPc /\ pc["timer"] \in TimerPc
  /\ result \in Status
  /\ haltedBy \subseteq TimerIds
  /\ restores \in Nat

\* A tick that is about to report a timeout reports a real one: exactly one
\* timer has halted the child since it started, the child's onHalted() has
\* run once, to its end, and the child is IDLE for its next start. The child
\* is never halted in the middle of its own tick.
TimeoutEarned ==
  pc["host"] = "locked" /\ childHalted =>
    /\ \E i \in TimerIds : haltedBy = {i}
    /\ restores = 1
    /\ childStatus = "IDLE"

\* Between two calls of the host a node that is not RUNNING has no child
\* left behind, neither RUNNING nor with a result: whoever ended it, tick(),
\* halt() or the timer thread. (Only halted children could be in flight.)
NoOrphanChild ==
  pc["host"] = "outside" /\ nodeStatus # "RUNNING" => childStatus = "IDLE"

\* The result of a child's tick is not overwritten by the timer thread:
\* only executeTick(), which has passed it on, resets a decided child.
ResultNotLost ==
  [][(childStatus \in Decided /\ childStatus' # childStatus)
       => (pc["host"] = "resetChild")]_vars

\* onHalted() is called on a child that is RUNNING (action_node.h:174).
OnHaltedWhileRunning ==
  \A t \in Threads : pc[t] = "onHalted" => childStatus = "RUNNING"

\* Only the timer of the activation in progress halts the child: a timer
\* that was armed for an earlier activation does not time the next one out
\* (timeout_node.h:126-128).
NoForeignTimeout ==
  pc["timer"] \in {"haltChild", "halt", "onHalted"} => running = timerId

\* No activation stays RUNNING for ever, whatever the child does: the time
\* limit is enforced (timeout_node.h:99,111-112), also when a handler of an
\* earlier activation or a late cancel() comes in between. It needs Prompt: when
\* the deadline passes before the child is RUNNING the handler finds nothing to
\* halt and nothing arms the timer again (timeout_node.cpp:62-81), though line
\* 141 of the header has it armed after the child's tick.
TimeoutEnforced == (nodeStatus = "RUNNING") ~> (nodeStatus # "RUNNING")

\* No call of the host blocks for ever: neither on timeout_mutex_, nor in
\* the destructor that joins the timer thread.
CallsReturn ==
  /\ (pc["host"] \notin {"outside", "join", "destroyed"})
       ~> (pc["host"] = "outside")
  /\ (pc["host"] = "join") ~> (pc["host"] = "destroyed")
=============================================================================
