---------------------------- MODULE TimerService ----------------------------
(***************************************************************************)
(* What a TimerQueue promises its client (timer_queue.h, class comment):   *)
(* every handler that was registered is run exactly once, on one thread,   *)
(* one at a time; a handler whose timer was cancelled in time is run with  *)
(* aborted = TRUE, any other one only after its time has come.             *)
(*                                                                         *)
(* timer[i] is the life of the timer with identifier i:                    *)
(*   "unused" -> "waiting" -> "due" -> "fired"                             *)
(*                  |           |                                          *)
(*                  +-----------+---> "cancelled" -> "aborted"             *)
(* "fired" and "aborted" are reached when the service takes the handler    *)
(* out to run it: from then on cancel() finds nothing to cancel.           *)
(***************************************************************************)
EXTENDS Naturals

CONSTANT MaxId      \* bound: identifiers handed out by add()

VARIABLES timer, running

TimerId == 1 .. MaxId

TimerState == {"unused", "waiting", "due", "cancelled", "fired", "aborted"}

Pending(i) == timer[i] \in {"waiting", "due"}

TypeOK ==
  /\ timer \in [TimerId -> TimerState]
  /\ running \in TimerId \cup {0}      \* 0: no handler is being run

Init ==
  /\ timer = [i \in TimerId |-> "unused"]
  /\ running = 0

\* Identifiers are handed out in order (++m_idcounter).
NextId(i) == timer[i] = "unused" /\ \A j \in 1 .. i - 1 : timer[j] # "unused"

\* A timer of no length is due at once.
Add(i) ==
  /\ NextId(i)
  /\ \E s \in {"waiting", "due"} : timer' = [timer EXCEPT ![i] = s]
  /\ UNCHANGED running

\* Time passes; it may pass for several timers at once.
Elapse ==
  \E S \in SUBSET {i \in TimerId : timer[i] = "waiting"} :
    /\ timer' = [i \in TimerId |-> IF i \in S THEN "due" ELSE timer[i]]
    /\ UNCHANGED running

Cancel(i) ==
  /\ Pending(i)
  /\ timer' = [timer EXCEPT ![i] = "cancelled"]
  /\ UNCHANGED running

CancelAll ==
  /\ timer' = [i \in TimerId |-> IF Pending(i) THEN "cancelled" ELSE timer[i]]
  /\ UNCHANGED running

\* The worker takes out a handler whose time has come, or a cancelled one.
Start(i) ==
  /\ running = 0
  /\ \/ timer[i] = "due" /\ timer' = [timer EXCEPT ![i] = "fired"]
     \/ timer[i] = "cancelled" /\ timer' = [timer EXCEPT ![i] = "aborted"]
  /\ running' = i

Finish ==
  /\ running # 0
  /\ running' = 0
  /\ UNCHANGED timer

Next ==
  \/ \E i \in TimerId : Add(i) \/ Cancel(i) \/ Start(i)
  \/ Elapse
  \/ CancelAll
  \/ Finish

vars == <<timer, running>>

Spec == Init /\ [][Next]_vars
=============================================================================
