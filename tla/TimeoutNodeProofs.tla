-------------------------- MODULE TimeoutNodeProofs --------------------------
(***************************************************************************)
(* Theorems about TimeoutNode, for every number of activations and every   *)
(* choice of child results. The inductive invariant says who holds         *)
(* timeout_mutex_ where (Locking), what each place of the host implies     *)
(* for timeout_started_ and the two statuses (HostPlace), and what a       *)
(* handler that is halting the child may rely on (HandlerPlace,            *)
(* HaltedChild).                                                           *)
(***************************************************************************)
EXTENDS TimeoutNode, TLAPS

Halting == {"haltChild", "halt", "onHalted", "setIdle"}
HostHalting == Halting \cup {"haltCancel"}

Locking ==
  /\ (mutex = "host") <=> (pc["host"] \in {"locked", "childTick"})
  /\ (mutex = "timer") <=> (pc["timer"] \in InHandler)
  /\ (running = 0) <=> (pc["timer"] = "outside")

HostPlace ==
  /\ pc["host"] \in {"outside", "join", "destroyed"}
       => (timeoutStarted <=> nodeStatus = "RUNNING")
  /\ pc["host"] \in {"arm", "lock", "locked", "childTick"}
       => timeoutStarted /\ nodeStatus = "RUNNING"
  /\ pc["host"] \in {"cancel", "relock"}
       => ~timeoutStarted /\ result \in Decided
  /\ pc["host"] \in {"setStatus", "resetChild"}
       => (timeoutStarted <=> result = "RUNNING")
  /\ pc["host"] = "resetChild" => nodeStatus = result
  /\ pc["host"] \in HostHalting => ~timeoutStarted
  /\ childStatus \in Decided
       => pc["host"] \in {"cancel", "relock", "setStatus", "resetChild"}
  /\ childStatus = "RUNNING" /\ pc["host"] \notin HostHalting => timeoutStarted
  /\ pc["host"] = "childTick" => ~childHalted /\ haltedBy = {} /\ restores = 0

HandlerPlace == pc["timer"] \in Halting => childStatus \notin Decided

HaltedChild ==
  timeoutStarted =>
    /\ childHalted =>
         /\ \E i \in TimerIds : haltedBy = {i}
         /\ pc["timer"] \in Halting => childStatus = "RUNNING"
         /\ pc["timer"] \in Halting \ {"setIdle"} => restores = 0
         /\ pc["timer"] = "setIdle" => restores = 1
         /\ pc["timer"] \notin Halting => childStatus = "IDLE" /\ restores = 1
    /\ ~childHalted /\ childStatus = "RUNNING" =>
         haltedBy = {} /\ restores = 0 /\ pc["timer"] \notin Halting

IInv == TypeOK /\ Locking /\ HostPlace /\ HandlerPlace /\ HaltedChild
-----------------------------------------------------------------------------
USE DEF Threads, Free, Status, Decided, TimerIds

LEMMA InitIInv == Init => IInv
<1> SUFFICES ASSUME Init PROVE IInv
  OBVIOUS
<1>1. TypeOK
  BY DEF Init, TypeOK, Queue!Init, Queue!TypeOK, Queue!TimerId,
         Queue!TimerState, HostPc, TimerPc, InHandler
<1>2. Locking
  BY DEF Init, Locking, Queue!Init, InHandler
<1>3. HostPlace
  BY DEF Init, HostPlace, HostHalting, Halting
<1>4. HandlerPlace /\ HaltedChild
  BY DEF Init, HandlerPlace, HaltedChild, Halting
<1>5. QED
  BY <1>1, <1>2, <1>3, <1>4 DEF IInv
-----------------------------------------------------------------------------
\* The ghosts keep their types as a tick enters the child, which clears them
\* or leaves them.
LEMMA GhostsOfEntry ==
  ASSUME haltedBy \subseteq TimerIds, restores \in Nat, EnterChildTick
  PROVE  haltedBy' \subseteq TimerIds /\ restores' \in Nat
<1>1. CASE childStatus = "IDLE"
  <2>1. haltedBy' = {} /\ restores' = 0
    BY <1>1 DEF EnterChildTick
  <2> QED
    BY <2>1
<1>2. CASE childStatus # "IDLE"
  <2>1. haltedBy' = haltedBy /\ restores' = restores
    BY <1>2 DEF EnterChildTick, ghostVars
  <2> QED
    BY <2>1
<1> QED
  BY <1>1, <1>2

\* Every step keeps the types.
LEMMA TypeStep == IInv /\ [Next]_vars => TypeOK'
<1> SUFFICES ASSUME TypeOK, Locking, [Next]_vars PROVE TypeOK'
  BY DEF IInv
<1> USE DEF TypeOK, Goto, queueVars, nodeVars, ghostVars, HostPc, TimerPc,
        InHandler, Acquire, Release, Queue!TypeOK, Queue!TimerId,
        Queue!TimerState
<1>1. CASE Tick
  <2>1. CASE StartActivation
    BY <2>1 DEF StartActivation
  <2>2. CASE ArmTimer
    BY <2>2 DEF ArmTimer, IdOfAdd, Queue!Add
  <2>3. CASE ContinueActivation
    BY <2>3 DEF ContinueActivation
  <2>4. CASE LockForTick
    BY <2>4 DEF LockForTick
  <2>5. CASE ReturnTimedOut
    BY <2>5 DEF ReturnTimedOut
  <2>6. CASE EnterChildTick
    <3>1. haltedBy' \subseteq TimerIds /\ restores' \in Nat
      BY <2>6, GhostsOfEntry
    <3>2. /\ pc' \in [Threads -> HostPc \cup TimerPc]
          /\ pc'["host"] \in HostPc /\ pc'["timer"] \in TimerPc
      BY <2>6 DEF EnterChildTick
    <3>3. UNCHANGED <<queueVars, nodeVars, childStatus, childHalted, mutex, result>>
      BY <2>6 DEF EnterChildTick
    <3> QED
      BY <3>1, <3>2, <3>3
  <2>7. CASE ChildRunning
    BY <2>7 DEF ChildRunning
  <2>8. CASE ChildDecided
    BY <2>8 DEF ChildDecided
  <2>9. CASE ChildThrows
    BY <2>9 DEF ChildThrows
  <2>10. CASE CancelAfterTick
    BY <2>10 DEF CancelAfterTick, CancelTimer, Queue!Cancel
  <2>11. CASE Relock
    BY <2>11 DEF Relock
  <2>12. CASE SetNodeStatus
    BY <2>12 DEF SetNodeStatus
  <2>13. CASE ResetDecidedChild
    BY <2>13 DEF ResetDecidedChild, ResultReset
  <2> QED
    BY <1>1, <2>1, <2>2, <2>3, <2>4, <2>5, <2>6, <2>7, <2>8, <2>9, <2>10, <2>11, <2>12, <2>13 DEF Tick
<1>2. CASE Halt
  <2>1. CASE HaltReset
    BY <2>1 DEF HaltReset
  <2>2. CASE HaltCancel
    BY <2>2 DEF HaltCancel, CancelTimer, Queue!Cancel
  <2>3. CASE HaltChild("host")
    BY <2>3 DEF HaltChild
  <2>4. CASE HaltDone
    BY <2>4 DEF HaltDone
  <2>5. CASE ParentReset
    BY <2>5 DEF ParentReset
  <2> QED
    BY <1>2, <2>1, <2>2, <2>3, <2>4, <2>5 DEF Halt
<1>3. CASE Destruct
  <2>1. CASE Destroy
    BY <2>1 DEF Destroy, Queue!CancelAll, Queue!Pending
  <2>2. CASE Join
    BY <2>2 DEF Join
  <2> QED
    BY <1>3, <2>1, <2>2 DEF Destruct
<1>4. CASE Handler
  <2>1. CASE TakeHandler
    BY <2>1 DEF TakeHandler, Queue!Start
  <2>2. CASE HandlerLock
    BY <2>2 DEF HandlerLock
  <2>3. CASE HandlerHalts
    BY <2>3 DEF HandlerHalts, MustHalt, Locking
  <2>4. CASE HandlerPasses
    BY <2>4 DEF HandlerPasses
  <2>5. CASE HaltChild("timer")
    BY <2>5 DEF HaltChild
  <2>6. CASE HandlerSetsIdle
    BY <2>6 DEF HandlerSetsIdle
  <2>7. CASE HandlerReturns
    BY <2>7 DEF HandlerReturns, Queue!Finish
  <2> QED
    BY <1>4, <2>1, <2>2, <2>3, <2>4, <2>5, <2>6, <2>7 DEF Handler
<1>5. CASE Elapse
  BY <1>5 DEF Elapse, Queue!Elapse
<1>6. CASE UNCHANGED vars
  BY <1>6 DEF vars
<1>7. QED
  BY <1>1, <1>2, <1>3, <1>4, <1>5, <1>6 DEF Next

\* The lock is held exactly in the two critical sections.
LEMMA LockingStep == IInv /\ [Next]_vars => Locking'
<1> SUFFICES ASSUME TypeOK, Locking, [Next]_vars
             PROVE  Locking'
  BY DEF IInv
<1> USE DEF Goto, Acquire, Release, queueVars, nodeVars, ghostVars,
        TypeOK, Locking, HostPc, TimerPc, InHandler, Queue!TypeOK,
        Queue!TimerId
<1>1. CASE Tick
  <2>1. CASE StartActivation
    BY <2>1 DEF StartActivation
  <2>2. CASE ArmTimer
    BY <2>2 DEF ArmTimer, IdOfAdd, Queue!Add
  <2>3. CASE ContinueActivation
    BY <2>3 DEF ContinueActivation
  <2>4. CASE LockForTick
    BY <2>4 DEF LockForTick
  <2>5. CASE ReturnTimedOut
    BY <2>5 DEF ReturnTimedOut
  <2>6. CASE EnterChildTick
    BY <2>6 DEF EnterChildTick
  <2>7. CASE ChildRunning
    BY <2>7 DEF ChildRunning
  <2>8. CASE ChildDecided
    BY <2>8 DEF ChildDecided
  <2>9. CASE ChildThrows
    BY <2>9 DEF ChildThrows
  <2>10. CASE CancelAfterTick
    BY <2>10 DEF CancelAfterTick, CancelTimer, Queue!Cancel
  <2>11. CASE Relock
    BY <2>11 DEF Relock
  <2>12. CASE SetNodeStatus
    BY <2>12 DEF SetNodeStatus
  <2>13. CASE ResetDecidedChild
    BY <2>13 DEF ResetDecidedChild, ResultReset
  <2> QED
    BY <1>1, <2>1, <2>2, <2>3, <2>4, <2>5, <2>6, <2>7, <2>8, <2>9, <2>10, <2>11, <2>12, <2>13 DEF Tick
<1>2. CASE Halt
  <2>1. CASE HaltReset
    BY <2>1 DEF HaltReset
  <2>2. CASE HaltCancel
    BY <2>2 DEF HaltCancel, CancelTimer, Queue!Cancel
  <2>3. CASE HaltChild("host")
    BY <2>3 DEF HaltChild
  <2>4. CASE HaltDone
    BY <2>4 DEF HaltDone
  <2>5. CASE ParentReset
    BY <2>5 DEF ParentReset
  <2> QED
    BY <1>2, <2>1, <2>2, <2>3, <2>4, <2>5 DEF Halt
<1>3. CASE Destruct
  <2>1. CASE Destroy
    BY <2>1 DEF Destroy, Queue!CancelAll
  <2>2. CASE Join
    BY <2>2 DEF Join
  <2> QED
    BY <1>3, <2>1, <2>2 DEF Destruct
<1>4. CASE Handler
  <2>1. CASE TakeHandler
    BY <2>1 DEF TakeHandler, Queue!Start
  <2>2. CASE HandlerLock
    BY <2>2 DEF HandlerLock
  <2>3. CASE HandlerHalts
    BY <2>3 DEF HandlerHalts
  <2>4. CASE HandlerPasses
    BY <2>4 DEF HandlerPasses
  <2>5. CASE HaltChild("timer")
    BY <2>5 DEF HaltChild
  <2>6. CASE HandlerSetsIdle
    BY <2>6 DEF HandlerSetsIdle
  <2>7. CASE HandlerReturns
    BY <2>7 DEF HandlerReturns, Queue!Finish
  <2> QED
    BY <1>4, <2>1, <2>2, <2>3, <2>4, <2>5, <2>6, <2>7 DEF Handler
<1>5. CASE Elapse
  BY <1>5 DEF Elapse, Queue!Elapse
<1>6. CASE UNCHANGED vars
  BY <1>6 DEF vars
<1>7. QED
  BY <1>1, <1>2, <1>3, <1>4, <1>5, <1>6 DEF Next

\* What holds at each place of the host thread.
LEMMA HostPlaceStep == IInv /\ [Next]_vars => HostPlace'
<1> SUFFICES ASSUME TypeOK, Locking, HostPlace, HandlerPlace, HaltedChild,
                    [Next]_vars
             PROVE  HostPlace'
  BY DEF IInv
<1> USE DEF Goto, Acquire, Release, queueVars, nodeVars, ghostVars,
        TypeOK, Locking, HostPlace, HandlerPlace, HostPc, TimerPc,
        InHandler, HostHalting, Halting
<1>1. CASE Tick
  <2>1. CASE StartActivation
    BY <2>1 DEF StartActivation
  <2>2. CASE ArmTimer
    BY <2>2 DEF ArmTimer
  <2>3. CASE ContinueActivation
    BY <2>3 DEF ContinueActivation
  <2>4. CASE LockForTick
    BY <2>4 DEF LockForTick
  <2>5. CASE ReturnTimedOut
    BY <2>5 DEF ReturnTimedOut, HaltedChild
  <2>6. CASE EnterChildTick
    <3>1. CASE childStatus = "IDLE"
      BY <2>6, <3>1 DEF EnterChildTick
    <3>2. CASE childStatus # "IDLE"
      <4>1. childStatus = "RUNNING" /\ timeoutStarted /\ ~childHalted
        BY <2>6, <3>2 DEF EnterChildTick
      <4>2. haltedBy = {} /\ restores = 0
        BY <4>1 DEF HaltedChild
      <4> QED
        BY <2>6, <3>2, <4>1, <4>2 DEF EnterChildTick
    <3> QED
      BY <3>1, <3>2
  <2>7. CASE ChildRunning
    BY <2>7 DEF ChildRunning
  <2>8. CASE ChildDecided
    BY <2>8 DEF ChildDecided
  <2>9. CASE ChildThrows
    BY <2>9 DEF ChildThrows
  <2>10. CASE CancelAfterTick
    BY <2>10 DEF CancelAfterTick
  <2>11. CASE Relock
    BY <2>11 DEF Relock
  <2>12. CASE SetNodeStatus
    BY <2>12 DEF SetNodeStatus
  <2>13. CASE ResetDecidedChild
    BY <2>13 DEF ResetDecidedChild, ResultReset
  <2> QED
    BY <1>1, <2>1, <2>2, <2>3, <2>4, <2>5, <2>6, <2>7, <2>8, <2>9, <2>10, <2>11, <2>12, <2>13 DEF Tick
<1>2. CASE Halt
  <2>1. CASE HaltReset
    BY <2>1 DEF HaltReset
  <2>2. CASE HaltCancel
    BY <2>2 DEF HaltCancel
  <2>3. CASE HaltChild("host")
    BY <2>3 DEF HaltChild
  <2>4. CASE HaltDone
    BY <2>4 DEF HaltDone
  <2>5. CASE ParentReset
    BY <2>5 DEF ParentReset
  <2> QED
    BY <1>2, <2>1, <2>2, <2>3, <2>4, <2>5 DEF Halt
<1>3. CASE Destruct
  <2>1. CASE Destroy
    BY <2>1 DEF Destroy
  <2>2. CASE Join
    BY <2>2 DEF Join
  <2> QED
    BY <1>3, <2>1, <2>2 DEF Destruct
<1>4. CASE Handler
  <2>1. CASE TakeHandler
    BY <2>1 DEF TakeHandler
  <2>2. CASE HandlerLock
    BY <2>2 DEF HandlerLock
  <2>3. CASE HandlerHalts
    BY <2>3 DEF HandlerHalts
  <2>4. CASE HandlerPasses
    BY <2>4 DEF HandlerPasses
  <2>5. CASE HaltChild("timer")
    BY <2>5 DEF HaltChild
  <2>6. CASE HandlerSetsIdle
    BY <2>6 DEF HandlerSetsIdle
  <2>7. CASE HandlerReturns
    BY <2>7 DEF HandlerReturns
  <2> QED
    BY <1>4, <2>1, <2>2, <2>3, <2>4, <2>5, <2>6, <2>7 DEF Handler
<1>5. CASE Elapse
  BY <1>5 DEF Elapse
<1>6. CASE UNCHANGED vars
  BY <1>6 DEF vars
<1>7. QED
  BY <1>1, <1>2, <1>3, <1>4, <1>5, <1>6 DEF Next

\* A handler that halts the child meets no result of it.
LEMMA HandlerPlaceStep == IInv /\ [Next]_vars => HandlerPlace'
<1> SUFFICES ASSUME TypeOK, Locking, HostPlace, HandlerPlace, [Next]_vars
             PROVE  HandlerPlace'
  BY DEF IInv
<1> USE DEF Goto, Acquire, Release, queueVars, nodeVars, ghostVars,
        TypeOK, Locking, HostPlace, HandlerPlace, HostPc, TimerPc,
        InHandler, HostHalting, Halting
<1>1. CASE Tick
  <2>1. CASE StartActivation
    BY <2>1 DEF StartActivation
  <2>2. CASE ArmTimer
    BY <2>2 DEF ArmTimer
  <2>3. CASE ContinueActivation
    BY <2>3 DEF ContinueActivation
  <2>4. CASE LockForTick
    BY <2>4 DEF LockForTick
  <2>5. CASE ReturnTimedOut
    BY <2>5 DEF ReturnTimedOut
  <2>6. CASE EnterChildTick
    BY <2>6 DEF EnterChildTick
  <2>7. CASE ChildRunning
    BY <2>7 DEF ChildRunning
  <2>8. CASE ChildDecided
    BY <2>8 DEF ChildDecided
  <2>9. CASE ChildThrows
    BY <2>9 DEF ChildThrows
  <2>10. CASE CancelAfterTick
    BY <2>10 DEF CancelAfterTick
  <2>11. CASE Relock
    BY <2>11 DEF Relock
  <2>12. CASE SetNodeStatus
    BY <2>12 DEF SetNodeStatus
  <2>13. CASE ResetDecidedChild
    BY <2>13 DEF ResetDecidedChild, ResultReset
  <2> QED
    BY <1>1, <2>1, <2>2, <2>3, <2>4, <2>5, <2>6, <2>7, <2>8, <2>9, <2>10, <2>11, <2>12, <2>13 DEF Tick
<1>2. CASE Halt
  <2>1. CASE HaltReset
    BY <2>1 DEF HaltReset
  <2>2. CASE HaltCancel
    BY <2>2 DEF HaltCancel
  <2>3. CASE HaltChild("host")
    BY <2>3 DEF HaltChild
  <2>4. CASE HaltDone
    BY <2>4 DEF HaltDone
  <2>5. CASE ParentReset
    BY <2>5 DEF ParentReset
  <2> QED
    BY <1>2, <2>1, <2>2, <2>3, <2>4, <2>5 DEF Halt
<1>3. CASE Destruct
  <2>1. CASE Destroy
    BY <2>1 DEF Destroy
  <2>2. CASE Join
    BY <2>2 DEF Join
  <2> QED
    BY <1>3, <2>1, <2>2 DEF Destruct
<1>4. CASE Handler
  <2>1. CASE TakeHandler
    BY <2>1 DEF TakeHandler
  <2>2. CASE HandlerLock
    BY <2>2 DEF HandlerLock
  <2>3. CASE HandlerHalts
    BY <2>3 DEF HandlerHalts, MustHalt
  <2>4. CASE HandlerPasses
    BY <2>4 DEF HandlerPasses
  <2>5. CASE HaltChild("timer")
    BY <2>5 DEF HaltChild
  <2>6. CASE HandlerSetsIdle
    BY <2>6 DEF HandlerSetsIdle
  <2>7. CASE HandlerReturns
    BY <2>7 DEF HandlerReturns
  <2> QED
    BY <1>4, <2>1, <2>2, <2>3, <2>4, <2>5, <2>6, <2>7 DEF Handler
<1>5. CASE Elapse
  BY <1>5 DEF Elapse
<1>6. CASE UNCHANGED vars
  BY <1>6 DEF vars
<1>7. QED
  BY <1>1, <1>2, <1>3, <1>4, <1>5, <1>6 DEF Next

\* The child is halted once, by one timer.
LEMMA HaltedChildStep == IInv /\ [Next]_vars => HaltedChild'
<1> SUFFICES ASSUME TypeOK, Locking, HostPlace, HandlerPlace, HaltedChild,
                    [Next]_vars
             PROVE  HaltedChild'
  BY DEF IInv
<1> USE DEF Goto, Acquire, Release, queueVars, nodeVars, ghostVars,
        TypeOK, Locking, HostPlace, HandlerPlace, HaltedChild, HostPc,
        TimerPc, InHandler, HostHalting, Halting
<1>1. CASE Tick
  <2>1. CASE StartActivation
    BY <2>1 DEF StartActivation
  <2>2. CASE ArmTimer
    BY <2>2 DEF ArmTimer
  <2>3. CASE ContinueActivation
    BY <2>3 DEF ContinueActivation
  <2>4. CASE LockForTick
    BY <2>4 DEF LockForTick
  <2>5. CASE ReturnTimedOut
    BY <2>5 DEF ReturnTimedOut
  <2>6. CASE EnterChildTick
    BY <2>6 DEF EnterChildTick
  <2>7. CASE ChildRunning
    BY <2>7 DEF ChildRunning
  <2>8. CASE ChildDecided
    BY <2>8 DEF ChildDecided
  <2>9. CASE ChildThrows
    BY <2>9 DEF ChildThrows
  <2>10. CASE CancelAfterTick
    BY <2>10 DEF CancelAfterTick
  <2>11. CASE Relock
    BY <2>11 DEF Relock
  <2>12. CASE SetNodeStatus
    BY <2>12 DEF SetNodeStatus
  <2>13. CASE ResetDecidedChild
    BY <2>13 DEF ResetDecidedChild, ResultReset
  <2> QED
    BY <1>1, <2>1, <2>2, <2>3, <2>4, <2>5, <2>6, <2>7, <2>8, <2>9, <2>10, <2>11, <2>12, <2>13 DEF Tick
<1>2. CASE Halt
  <2>1. CASE HaltReset
    BY <2>1 DEF HaltReset
  <2>2. CASE HaltCancel
    BY <2>2 DEF HaltCancel
  <2>3. CASE HaltChild("host")
    BY <2>3 DEF HaltChild
  <2>4. CASE HaltDone
    BY <2>4 DEF HaltDone
  <2>5. CASE ParentReset
    BY <2>5 DEF ParentReset
  <2> QED
    BY <1>2, <2>1, <2>2, <2>3, <2>4, <2>5 DEF Halt
<1>3. CASE Destruct
  <2>1. CASE Destroy
    BY <2>1 DEF Destroy
  <2>2. CASE Join
    BY <2>2 DEF Join
  <2> QED
    BY <1>3, <2>1, <2>2 DEF Destruct
<1>4. CASE Handler
  <2>1. CASE TakeHandler
    BY <2>1 DEF TakeHandler
  <2>2. CASE HandlerLock
    BY <2>2 DEF HandlerLock
  <2>3. CASE HandlerHalts
    <3>1. running \in TimerIds /\ childStatus = "RUNNING"
      BY <2>3 DEF HandlerHalts, MustHalt, Queue!TypeOK, Queue!TimerId
    <3>2. timeoutStarted => haltedBy = {} /\ restores = 0
      BY <2>3, <3>1 DEF HandlerHalts
    <3>3. timeoutStarted => haltedBy' = {running} /\ restores' = 0
      BY <2>3, <3>2 DEF HandlerHalts
    <3> QED
      BY <2>3, <3>1, <3>3 DEF HandlerHalts
  <2>4. CASE HandlerPasses
    BY <2>4 DEF HandlerPasses
  <2>5. CASE HaltChild("timer")
    BY <2>5 DEF HaltChild
  <2>6. CASE HandlerSetsIdle
    BY <2>6 DEF HandlerSetsIdle
  <2>7. CASE HandlerReturns
    BY <2>7 DEF HandlerReturns
  <2> QED
    BY <1>4, <2>1, <2>2, <2>3, <2>4, <2>5, <2>6, <2>7 DEF Handler
<1>5. CASE Elapse
  BY <1>5 DEF Elapse
<1>6. CASE UNCHANGED vars
  BY <1>6 DEF vars
<1>7. QED
  BY <1>1, <1>2, <1>3, <1>4, <1>5, <1>6 DEF Next
-----------------------------------------------------------------------------
\* The inductive invariant holds in every reachable state.
THEOREM Invariant == Spec => []IInv
<1>1. IInv /\ [Next]_vars => IInv'
  BY TypeStep, LockingStep, HostPlaceStep, HandlerPlaceStep, HaltedChildStep
     DEF IInv
<1> QED
  BY InitIInv, <1>1, PTL DEF Spec

\* Every variable keeps its type, identifiers of timers included.
THEOREM TypeCorrect == Spec => []TypeOK
<1>1. IInv => TypeOK
  BY DEF IInv
<1> QED
  BY Invariant, <1>1, PTL

\* A tick reports a timeout only of a child that one timer halted, once, and
\* to the end (timeout_node.cpp:71-79, 85-89).
THEOREM TimeoutIsEarned == Spec => []TimeoutEarned
<1>1. IInv => TimeoutEarned
  <2> SUFFICES ASSUME IInv, pc["host"] = "locked", childHalted
               PROVE  /\ \E i \in TimerIds : haltedBy = {i}
                      /\ restores = 1
                      /\ childStatus = "IDLE"
    BY DEF TimeoutEarned
  <2>1. timeoutStarted
    BY DEF IInv, HostPlace
  <2>2. pc["timer"] \notin Halting
    BY DEF IInv, Locking, InHandler, Halting
  <2> QED
    BY <2>1, <2>2 DEF IInv, HaltedChild
<1> QED
  BY Invariant, <1>1, PTL

\* A node that the host finds not RUNNING has left no child behind.
THEOREM NoChildLeftBehind == Spec => []NoOrphanChild
<1>1. IInv => NoOrphanChild
  BY DEF IInv, TypeOK, HostPlace, HostHalting, Halting, NoOrphanChild
<1> QED
  BY Invariant, <1>1, PTL

\* Only executeTick() resets a decided child: no handler that is halting the
\* child overwrites the result of its last tick.
THEOREM ResultsAreKept == Spec => ResultNotLost
<1>1. IInv /\ [Next]_vars
      => [(childStatus \in Decided /\ childStatus' # childStatus)
             => (pc["host"] = "resetChild")]_vars
  <2> SUFFICES ASSUME IInv, Next, childStatus \in Decided,
                      childStatus' # childStatus, pc["host"] # "resetChild"
               PROVE  FALSE
    BY DEF vars
  <2>1. pc["host"] \in {"cancel", "relock", "setStatus"}
        /\ pc["timer"] # "setIdle"
    BY DEF IInv, HostPlace, HandlerPlace, Halting
  <2> USE DEF Goto
  <2>2. ~Tick
    BY <2>1 DEF Tick, StartActivation, ArmTimer, ContinueActivation,
       LockForTick, ReturnTimedOut, EnterChildTick, ChildRunning,
       ChildDecided, ChildThrows, CancelAfterTick, Relock, SetNodeStatus,
       ResetDecidedChild
  <2>3. ~Halt
    BY <2>1 DEF Halt, HaltReset, HaltCancel, HaltChild, HaltDone, ParentReset
  <2>4. ~Destruct /\ ~Elapse
    BY <2>1 DEF Destruct, Destroy, Join, Elapse
  <2>5. ~Handler
    BY <2>1 DEF Handler, TakeHandler, HandlerLock, HandlerHalts,
       HandlerPasses, HaltChild, HandlerSetsIdle, HandlerReturns
  <2> QED
    BY <2>2, <2>3, <2>4, <2>5 DEF Next
<1> QED
  BY Invariant, <1>1, PTL DEF ResultNotLost, Spec
\* A host that never halts the node: a handler that is in the child's halt()
\* is alone there, and the child it has found RUNNING stays so.
Undisturbed ==
  /\ pc["host"] \notin HostHalting
  /\ pc["timer"] \in {"halt", "onHalted"} => childStatus = "RUNNING"

\* If the host never halts the node, onHalted() is called on a child that is
\* RUNNING and on no other (action_node.h:174), whatever the timer does.
THEOREM HaltedWhileRunning ==
  ASSUME ~HostHalts PROVE Spec => []OnHaltedWhileRunning
<1>1. Init => Undisturbed
  BY DEF Init, Undisturbed, HostHalting, Halting
<1>2. IInv /\ Undisturbed /\ [Next]_vars => Undisturbed'
  <2> SUFFICES ASSUME IInv, Undisturbed, [Next]_vars PROVE Undisturbed'
    OBVIOUS
  <2> USE DEF Undisturbed, Goto, HostHalting, Halting, IInv, TypeOK, HostPc,
          TimerPc, InHandler
  <2>1. CASE Tick
    <3>1. CASE ChildRunning \/ ChildDecided
      BY <3>1 DEF ChildRunning, ChildDecided, Locking
    <3>2. CASE ResetDecidedChild
      BY <3>2 DEF ResetDecidedChild, ResultReset
    <3>3. CASE Tick /\ ~ChildRunning /\ ~ChildDecided /\ ~ResetDecidedChild
      BY <3>3 DEF Tick, StartActivation, ArmTimer, ContinueActivation,
         LockForTick, ReturnTimedOut, EnterChildTick, ChildThrows,
         CancelAfterTick, Relock, SetNodeStatus
    <3> QED
      BY <2>1, <3>1, <3>2, <3>3
  <2>2. CASE Halt
    BY <2>2 DEF Halt, HaltReset, HaltCancel, HaltChild, HaltDone, ParentReset
  <2>3. CASE Destruct \/ Elapse
    BY <2>3 DEF Destruct, Destroy, Join, Elapse
  <2>4. CASE Handler
    BY <2>4 DEF Handler, TakeHandler, HandlerLock, HandlerHalts,
       HandlerPasses, HaltChild, HandlerSetsIdle, HandlerReturns
  <2>5. CASE UNCHANGED vars
    BY <2>5 DEF vars
  <2> QED
    BY <2>1, <2>2, <2>3, <2>4, <2>5 DEF Next
<1>3. Undisturbed => OnHaltedWhileRunning
  BY DEF Undisturbed, OnHaltedWhileRunning, HostHalting, Halting
<1> QED
  BY Invariant, <1>1, <1>2, <1>3, PTL DEF Spec
=============================================================================
