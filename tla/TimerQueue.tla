----------------------------- MODULE TimerQueue -----------------------------
(***************************************************************************)
(* BT::TimerQueue (behaviortree_cpp_v3/decorators/timer_queue.h): a        *)
(* priority queue of handlers, one worker thread that sleeps on a counting *)
(* semaphore until the next deadline, and client threads that add and      *)
(* cancel timers or destroy the queue.                                     *)
(*                                                                         *)
(* Every critical section of m_mtx is short and never blocks, so each is   *)
(* one action; what the code does outside m_mtx (notify() after unlock,    *)
(* the handler itself, the semaphore wait) is a step of its own.           *)
(* Time is a bounded counter; 0 is Clock::time_point(), before any now.    *)
(***************************************************************************)
EXTENDS Naturals, FiniteSets

CONSTANTS
  Clients,      \* threads that call add, cancel and the destructor
  Delays,       \* delays passed to add()
  MaxId,        \* bound: number of add() calls, the destructor's included
  MaxNow        \* bound: the last instant of the clock

ASSUME QueueAssumption ==
  /\ MaxId \in Nat \ {0}
  /\ MaxNow \in Nat \ {0}
  /\ Delays \subseteq Nat

VARIABLES
  now,          \* Clock::now()
  items,        \* m_items
  idcounter,    \* m_idcounter
  sem,          \* m_checkWork.m_count
  finish,       \* m_finish
  wpc,          \* where the worker thread is in run()
  target,       \* calcWaitTime()'s result: 0 is "no timer"
  cur,          \* handler the worker has taken out, 0 for none
  cpc,          \* where each client thread is
  finishId,     \* handler that sets m_finish, 0 until the destructor adds it
  due,          \* ghost: the deadline add() computed for each handler
  taken         \* ghost: how each handler was taken out by the worker

vars == <<now, items, idcounter, sem, finish, wpc, target, cur, cpc,
          finishId, due, taken>>

HandlerId == 1 .. MaxId
Epoch == 0      \* Clock::time_point()

\* A WorkItem. h names the handler object, live says the std::function is
\* not empty, id is the timer identifier (0: cancelled).
Item == [h : HandlerId, end : 0 .. MaxNow, id : 0 .. MaxId, live : BOOLEAN]

Live == {x \in items : x.live}
Null == {x \in items : ~x.live}

\* m_items.top(): any item of least end, ties are left open by the heap.
Tops == {x \in items : \A y \in items : x.end <= y.end}

Init ==
  /\ now = 1
  /\ items = {}
  /\ idcounter = 0
  /\ sem = 0
  /\ finish = FALSE
  /\ wpc = "calc"
  /\ target = 0
  /\ cur = 0
  /\ cpc = [c \in Clients |-> "free"]
  /\ finishId = 0
  /\ due = [h \in HandlerId |-> 0]
  /\ taken = [h \in HandlerId |-> "no"]
-----------------------------------------------------------------------------
(* Client threads.                                                         *)

Usable == \A d \in Clients : cpc[d] \in {"free", "notify"}

\* The part of add() under m_mtx.
Push(d) ==
  /\ idcounter < MaxId
  /\ now + d <= MaxNow
  /\ idcounter' = idcounter + 1
  /\ items' = items \cup
       {[h |-> idcounter + 1, end |-> now + d, id |-> idcounter + 1,
         live |-> TRUE]}
  /\ due' = [due EXCEPT ![idcounter + 1] = now + d]

\* One identifier is kept back for the destructor.
Add(c, d) ==
  /\ Usable
  /\ cpc[c] = "free"
  /\ idcounter + 1 < MaxId
  /\ Push(d)
  /\ cpc' = [cpc EXCEPT ![c] = "notify"]
  /\ UNCHANGED <<now, sem, finish, wpc, target, cur, finishId, taken>>

\* cancel(): the handler moves to a new item that is due at once.
\* Mutants: the handler is copied and not moved out; the identifier stays.
EmptiedCopies(x) == x
CancelledKeepsId(x) == [x EXCEPT !.end = Epoch]
Cancelled(x) == [x EXCEPT !.end = Epoch, !.id = 0]
Emptied(x) == [x EXCEPT !.live = FALSE]

Cancel(c, i) ==
  /\ Usable
  /\ cpc[c] = "free"
  /\ \E x \in Live :
       /\ x.id = i
       /\ items' = (items \ {x}) \cup {Emptied(x), Cancelled(x)}
  /\ cpc' = [cpc EXCEPT ![c] = "notify"]
  /\ UNCHANGED <<now, idcounter, sem, finish, wpc, target, cur, finishId,
                 due, taken>>

\* semaphore notify(), after m_mtx was released.
NotifyAs(c, count) ==
  /\ cpc[c] \in {"notify", "notifyAll", "notifyFinish"}
  /\ sem' = count
  /\ cpc' = [cpc EXCEPT ![c] =
               CASE @ = "notify" -> "free"
                 [] @ = "notifyAll" -> "finish"
                 [] @ = "notifyFinish" -> "join"]
  /\ UNCHANGED <<now, items, idcounter, finish, wpc, target, cur, finishId,
                 due, taken>>

\* Mutant: the count is not raised, as with a bare condition variable.
NotifyUncounted(c) == NotifyAs(c, sem)
Notify(c) == NotifyAs(c, sem + 1)

\* cancelAll(): every item with a non-zero id, emptied ones included.
\* Mutant: emptied items keep their deadline.
AllCancelledButEmptied(S) ==
  {IF x.id # 0 /\ x.live THEN Cancelled(x) ELSE x : x \in S}
AllCancelled(S) == {IF x.id # 0 THEN Cancelled(x) ELSE x : x \in S}

\* ~TimerQueue(): cancelAll(), then a timer that sets m_finish, then join().
Destroy(c) ==
  /\ \A d \in Clients : cpc[d] = "free"
  /\ items' = AllCancelled(items)
  /\ cpc' = [cpc EXCEPT ![c] = "notifyAll"]
  /\ UNCHANGED <<now, idcounter, sem, finish, wpc, target, cur, finishId,
                 due, taken>>

AddFinish(c) ==
  /\ cpc[c] = "finish"
  /\ Push(0)
  /\ finishId' = idcounter + 1
  /\ cpc' = [cpc EXCEPT ![c] = "notifyFinish"]
  /\ UNCHANGED <<now, sem, finish, wpc, target, cur, taken>>

\* Mutant: the thread is detached and not joined.
WorkerDetached == TRUE
WorkerDone == wpc = "done"

Join(c) ==
  /\ cpc[c] = "join"
  /\ WorkerDone
  /\ cpc' = [cpc EXCEPT ![c] = "gone"]
  /\ UNCHANGED <<now, items, idcounter, sem, finish, wpc, target, cur,
                 finishId, due, taken>>
-----------------------------------------------------------------------------
(* The worker thread: run().                                               *)

\* calcWaitTime(): drop the empty items on top of the heap. Of the empty
\* items that tie with the first live one, any number may lie above it.
CalcWaitTime ==
  /\ wpc = "calc"
  /\ \E D \in SUBSET Null :
       /\ \A x \in Null : (\A y \in Live : x.end < y.end) => x \in D
       /\ \A x \in D : \A y \in Live : x.end <= y.end
       /\ items' = items \ D
  /\ target' = IF Live = {} THEN 0
               ELSE (CHOOSE x \in Live : \A y \in Live : x.end <= y.end).end
  /\ wpc' = IF Live = {} THEN "wait" ELSE "waitUntil"
  /\ UNCHANGED <<now, idcounter, sem, finish, cur, cpc, finishId, due, taken>>

\* Mutant: the count is lowered without a test that it is not 0.
TakeCountUntested == sem' = sem - 1
TakeCount == sem > 0 /\ sem' = sem - 1

Wake ==
  /\ wpc \in {"wait", "waitUntil"}
  /\ \/ TakeCount
     \/ sem = 0 /\ wpc = "waitUntil" /\ target <= now /\ UNCHANGED sem
  /\ wpc' = "check"
  /\ UNCHANGED <<now, items, idcounter, finish, target, cur, cpc, finishId,
                 due, taken>>

\* checkWork(): take out one item whose time has come.
TakeOut ==
  /\ wpc = "check"
  /\ \E x \in Tops :
       /\ x.end <= now
       /\ items' = items \ {x}
       /\ IF x.live
          THEN /\ cur' = x.h
               /\ taken' = [taken EXCEPT ![x.h] =
                              IF x.id = 0 THEN "aborted" ELSE "fired"]
               /\ wpc' = "handler"
          ELSE UNCHANGED <<cur, taken, wpc>>
  /\ UNCHANGED <<now, idcounter, sem, finish, target, cpc, finishId, due>>

RunHandler ==
  /\ wpc = "handler"
  /\ finish' = (finish \/ cur = finishId)
  /\ cur' = 0
  /\ wpc' = "check"
  /\ UNCHANGED <<now, items, idcounter, sem, target, cpc, finishId, due,
                 taken>>

\* Nothing (more) is due: back to run()'s loop condition.
LeaveCheckWork ==
  /\ wpc = "check"
  /\ \A x \in items : x.end > now
  /\ wpc' = IF finish THEN "done" ELSE "calc"
  /\ UNCHANGED <<now, items, idcounter, sem, finish, target, cur, cpc,
                 finishId, due, taken>>

Tick ==
  /\ now < MaxNow
  /\ now' = now + 1
  /\ UNCHANGED <<items, idcounter, sem, finish, wpc, target, cur, cpc,
                 finishId, due, taken>>
-----------------------------------------------------------------------------
Worker == CalcWaitTime \/ Wake \/ TakeOut \/ RunHandler \/ LeaveCheckWork

Client(c) ==
  \/ \E d \in Delays : Add(c, d)
  \/ \E i \in HandlerId : Cancel(c, i)
  \/ Notify(c)
  \/ Destroy(c)
  \/ AddFinish(c)
  \/ Join(c)

Next == Worker \/ Tick \/ \E c \in Clients : Client(c)

Spec == Init /\ [][Next]_vars

\* The worker and the clock never stop; a client that has entered a call
\* returns from it; nobody has to start a call.
Fairness ==
  /\ WF_vars(Worker)
  /\ WF_vars(Tick)
  /\ \A c \in Clients : WF_vars(Notify(c) \/ AddFinish(c) \/ Join(c))

FairSpec == Spec /\ Fairness
-----------------------------------------------------------------------------
\* Types; the semaphore's count never goes below zero.
TypeOK ==
  /\ now \in 1 .. MaxNow
  /\ items \subseteq Item
  /\ idcounter \in 0 .. MaxId
  /\ sem \in Nat
  /\ finish \in BOOLEAN
  /\ wpc \in {"calc", "wait", "waitUntil", "check", "handler", "done"}
  /\ target \in 0 .. MaxNow
  /\ cur \in 0 .. MaxId
  /\ cpc \in [Clients -> {"free", "notify", "notifyAll", "finish",
                          "notifyFinish", "join", "gone"}]
  /\ finishId \in 0 .. MaxId
  /\ due \in [HandlerId -> 0 .. MaxNow]
  /\ taken \in [HandlerId -> {"no", "fired", "aborted"}]

\* Every registered handler is owned exactly once: by one item of the queue
\* that still holds it, or by the worker that has taken it out. A handler is
\* neither lost nor copied by cancel(), cancelAll() or checkWork().
HandlerOwnedOnce ==
  \A h \in HandlerId :
    LET holders == {x \in Live : x.h = h} IN
      IF h <= idcounter /\ taken[h] = "no"
      THEN Cardinality(holders) = 1
      ELSE holders = {}

\* run()'s own assertion, assert(m_items.size() == 0): the worker leaves
\* with nothing in the queue, empty items included.
EmptyAtExit == wpc = "done" => items = {}

\* Once the destructor has joined, no handler can run any more and every
\* registered one has been run: nothing outlives the queue.
NothingOutlivesQueue ==
  (\E c \in Clients : cpc[c] = "gone") =>
    /\ wpc = "done" /\ cur = 0
    /\ \A h \in 1 .. idcounter : taken[h] # "no"

\* Every handler is eventually run: no wake-up is lost, whatever add(),
\* cancel() and the deadline the worker sleeps on interleave to.
HandlersRun ==
  \A h \in HandlerId : (h <= idcounter) ~> (taken[h] # "no" /\ cur = 0)

\* The destructor's join() returns.
DestructorReturns ==
  \A c \in Clients : (cpc[c] # "free" /\ cpc[c] # "notify") ~> (cpc[c] = "gone")

\* What the queue implements: TimerService. A handler of the queue is
\* cancelled when the item that holds it has lost its identifier.
ServiceTimer ==
  [h \in HandlerId |->
     IF h > idcounter THEN "unused"
     ELSE IF taken[h] # "no" THEN taken[h]
     ELSE IF \E x \in Live : x.h = h /\ x.id = 0 THEN "cancelled"
     ELSE IF now < due[h] THEN "waiting" ELSE "due"]

Service == INSTANCE TimerService WITH timer <- ServiceTimer, running <- cur

ImplementsService == Service!Spec
=============================================================================
