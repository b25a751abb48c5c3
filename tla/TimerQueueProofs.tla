-------------------------- MODULE TimerQueueProofs --------------------------
(***************************************************************************)
(* Theorems about TimerQueue, for any clients, delays and number of calls. *)
(* The inductive invariant has two parts. Owned says what the items of the *)
(* heap are: who is in the heap is registered and not yet taken out, once, *)
(* and its deadline is the one of add() or that of a cancelled timer.      *)
(* Ending says how far the destructor is: alone, with nothing left in the  *)
(* heap that is not due.                                                   *)
(***************************************************************************)
EXTENDS TimerQueue, FiniteSetTheorems, WellFoundedInduction, TLAPS

Items ==
  \A x \in items :
    /\ x.h <= idcounter
    /\ x.id \in {0, x.h}
    /\ x.id = 0 => x.end = Epoch
    /\ x.live => taken[x.h] = "no"
    /\ x.live /\ x.id # 0 => x.end = due[x.h]

Owned ==
  /\ Items
  /\ \A x, y \in Live : x.h = y.h => x = y
  /\ \A h \in HandlerId : h <= idcounter /\ taken[h] = "no" => \E x \in Live : x.h = h
  /\ \A h \in HandlerId : h > idcounter => taken[h] = "no"
  /\ wpc = "handler" <=> cur # 0

Destructing(c) == cpc[c] \notin {"free", "notify"}

Ending ==
  /\ \A c, d \in Clients : Destructing(c) /\ c # d => cpc[d] = "free"
  /\ (\E c \in Clients : Destructing(c)) => \A x \in items : x.end <= now
  /\ finish => finishId # 0
  /\ finishId # 0 => \E c \in Clients : cpc[c] \in {"notifyFinish", "join", "gone"}
  /\ wpc = "done" => finish /\ items = {}
  /\ \A c \in Clients : cpc[c] = "gone" => wpc = "done"

IInv == TypeOK /\ Owned /\ Ending
-----------------------------------------------------------------------------
\* What cancel() and cancelAll() make of an item.
LEMMA ItemOps ==
  ASSUME NEW x \in Item
  PROVE  /\ Cancelled(x) \in Item /\ Emptied(x) \in Item
         /\ Cancelled(x).h = x.h /\ Cancelled(x).live = x.live
         /\ Cancelled(x).id = 0 /\ Cancelled(x).end = Epoch
         /\ Emptied(x).h = x.h /\ Emptied(x).live = FALSE
         /\ Emptied(x).id = x.id /\ Emptied(x).end = x.end
<1>1. 0 \in 0 .. MaxNow /\ 0 \in 0 .. MaxId
  BY QueueAssumption
<1> QED
  BY <1>1 DEF Item, Cancelled, Emptied, Epoch

\* A set of numbers that is not empty has a least one.
LEMMA LeastNumber ==
  ASSUME NEW T, T \subseteq Nat, T # {}
  PROVE  \E n \in T : \A m \in T : n <= m
<1> DEFINE R == OpToRel(<, Nat)
<1>1. IsWellFoundedOn(R, Nat)
  BY NatLessThanWellFounded
<1>2. ASSUME NEW m \in Nat, NEW n \in Nat, m < n PROVE <<m, n>> \in R
  <2>1. R = {ss \in Nat \X Nat : ss[1] < ss[2]}
    BY Zenon DEF OpToRel
  <2>2. <<m, n>> \in {ss \in Nat \X Nat : ss[1] < ss[2]}
    BY <1>2
  <2> QED
    BY <2>1, <2>2, Zenon
<1> HIDE DEF R
<1>3. PICK n \in T : \A m \in T : ~(<<m, n>> \in R)
  BY <1>1, WFMin
<1>4. \A m \in T : ~(m < n)
  BY <1>2, <1>3
<1> QED
  BY <1>4

\* Of a set of items that is not empty one is due first.
LEMMA FirstDue ==
  ASSUME NEW S, S \subseteq Item, S # {}
  PROVE  \E x \in S : \A y \in S : x.end <= y.end
<1> DEFINE T == {x.end : x \in S}
<1>1. \A x \in S : x.end \in Nat
  BY QueueAssumption DEF Item
<1>2. PICK n \in T : \A m \in T : n <= m
  <2>1. T \subseteq Nat /\ T # {}
    BY <1>1
  <2> QED
    BY <2>1, LeastNumber
<1> QED
  BY <1>2
-----------------------------------------------------------------------------
LEMMA InitIInv == Init => IInv
<1> SUFFICES ASSUME Init PROVE IInv
  OBVIOUS
<1> USE DEF Init
<1>1. TypeOK
  <2>1. /\ now \in 1 .. MaxNow /\ items \subseteq Item /\ idcounter \in 0 .. MaxId
        /\ target \in 0 .. MaxNow /\ cur \in 0 .. MaxId /\ finishId \in 0 .. MaxId
    BY QueueAssumption
  <2>2. due \in [HandlerId -> 0 .. MaxNow]
    BY QueueAssumption
  <2> QED
    BY <2>1, <2>2 DEF TypeOK
<1>2. Owned
  BY DEF Owned, Items, Live, HandlerId
<1>3. Ending
  BY DEF Ending, Destructing
<1> QED
  BY <1>1, <1>2, <1>3 DEF IInv

\* The part of add() under m_mtx keeps the types.
LEMMA PushTypes ==
  ASSUME TypeOK, NEW d \in Nat, Push(d)
  PROVE  /\ items' \subseteq Item
         /\ idcounter' \in 1 .. MaxId
         /\ due' \in [HandlerId -> 0 .. MaxNow]
<1> USE QueueAssumption DEF TypeOK, Push, HandlerId
<1>1. idcounter + 1 \in 1 .. MaxId /\ now + d \in 0 .. MaxNow
  OBVIOUS
<1>2. [h |-> idcounter + 1, end |-> now + d, id |-> idcounter + 1, live |-> TRUE] \in Item
  BY <1>1 DEF Item
<1> QED
  BY <1>1, <1>2

\* The steps of a client keep the types.
LEMMA ClientTypes ==
  ASSUME TypeOK, NEW c \in Clients, Client(c)
  PROVE  TypeOK'
<1> USE DEF TypeOK
<1>1. ASSUME NEW d \in Delays, Add(c, d) PROVE TypeOK'
  <2>1. d \in Nat
    BY QueueAssumption
  <2> QED
    BY <1>1, <2>1, PushTypes, QueueAssumption DEF Add
<1>2. ASSUME NEW i \in HandlerId, Cancel(c, i) PROVE TypeOK'
  <2>1. PICK x \in Live : items' = (items \ {x}) \cup {Emptied(x), Cancelled(x)}
    BY <1>2 DEF Cancel
  <2>2. Emptied(x) \in Item /\ Cancelled(x) \in Item
    BY ItemOps DEF Live
  <2>3. items' \subseteq Item
    BY <2>1, <2>2
  <2> QED
    BY <1>2, <2>3 DEF Cancel
<1>3. CASE Notify(c)
  <2>1. sem + 1 \in Nat
    OBVIOUS
  <2> QED
    BY <1>3, <2>1 DEF Notify, NotifyAs
<1>4. CASE Destroy(c)
  <2>1. \A x \in items : Cancelled(x) \in Item
    BY ItemOps
  <2>2. items' \subseteq Item
    BY <1>4, <2>1 DEF Destroy, AllCancelled
  <2> QED
    BY <1>4, <2>2 DEF Destroy
<1>5. CASE AddFinish(c)
  <2>1. finishId' \in 0 .. MaxId
    <3>1. Push(0) /\ finishId' = idcounter'
      BY <1>5 DEF AddFinish, Push
    <3> QED
      BY <3>1, PushTypes, QueueAssumption
  <2> QED
    BY <1>5, <2>1, PushTypes, QueueAssumption DEF AddFinish
<1>6. CASE Join(c)
  BY <1>6 DEF Join
<1> QED
  BY <1>1, <1>2, <1>3, <1>4, <1>5, <1>6 DEF Client

\* So do those of the worker.
LEMMA WorkerTypes ==
  ASSUME TypeOK, Worker
  PROVE  TypeOK'
<1> USE DEF TypeOK
<1>1. CASE CalcWaitTime
  <2>1. items' \subseteq Item
    BY <1>1 DEF CalcWaitTime
  <2>2. target' \in 0 .. MaxNow
    <3>1. CASE Live = {}
      BY <1>1, <3>1, QueueAssumption DEF CalcWaitTime
    <3>2. CASE Live # {}
      <4>1. \E x \in Live : \A y \in Live : x.end <= y.end
        BY <3>2, FirstDue DEF Live
      <4>2. (CHOOSE x \in Live : \A y \in Live : x.end <= y.end) \in Item
        BY <4>1 DEF Live
      <4> QED
        BY <1>1, <3>2, <4>2 DEF CalcWaitTime, Item
    <3> QED
      BY <3>1, <3>2
  <2> QED
    BY <1>1, <2>1, <2>2 DEF CalcWaitTime
<1>2. CASE Wake
  <2>1. sem' \in Nat
    BY <1>2 DEF Wake, TakeCount
  <2> QED
    BY <1>2, <2>1 DEF Wake
<1>3. CASE TakeOut
  <2>1. PICK x \in items :
          /\ items' = items \ {x}
          /\ IF x.live
             THEN /\ cur' = x.h
                  /\ taken' = [taken EXCEPT ![x.h] =
                                 IF x.id = 0 THEN "aborted" ELSE "fired"]
                  /\ wpc' = "handler"
             ELSE UNCHANGED <<cur, taken, wpc>>
    BY <1>3 DEF TakeOut, Tops
  <2>2. x.h \in 0 .. MaxId
    BY QueueAssumption DEF Item, HandlerId
  <2> QED
    BY <1>3, <2>1, <2>2 DEF TakeOut
<1>4. CASE RunHandler
  BY <1>4, QueueAssumption DEF RunHandler
<1>5. CASE LeaveCheckWork
  BY <1>5 DEF LeaveCheckWork
<1> QED
  BY <1>1, <1>2, <1>3, <1>4, <1>5 DEF Worker

LEMMA TypeStep == TypeOK /\ [Next]_vars => TypeOK'
<1> SUFFICES ASSUME TypeOK, [Next]_vars PROVE TypeOK'
  OBVIOUS
<1>1. CASE Tick
  BY <1>1, QueueAssumption DEF Tick, TypeOK
<1>2. CASE UNCHANGED vars
  BY <1>2 DEF vars, TypeOK
<1> QED
  BY <1>1, <1>2, ClientTypes, WorkerTypes DEF Next
-----------------------------------------------------------------------------
\* The new item of add().
NewItem(d) == [h |-> idcounter + 1, end |-> now + d, id |-> idcounter + 1, live |-> TRUE]

LEMMA PushEffect ==
  ASSUME TypeOK, NEW d \in Nat, Push(d)
  PROVE  /\ idcounter + 1 \in HandlerId /\ idcounter' = idcounter + 1
         /\ items' = items \cup {NewItem(d)}
         /\ Live' = Live \cup {NewItem(d)}
         /\ NewItem(d).h = idcounter + 1 /\ NewItem(d).id = idcounter + 1
         /\ NewItem(d).end = now + d /\ NewItem(d).live
         /\ due' = [due EXCEPT ![idcounter + 1] = now + d]
         /\ now + d \in 0 .. MaxNow
  BY QueueAssumption DEF TypeOK, Push, Live, NewItem, HandlerId

LEMMA CancelEffect ==
  ASSUME TypeOK, NEW c, NEW i, Cancel(c, i)
  PROVE  \E x \in Live :
           /\ x.id = i
           /\ items' = (items \ {x}) \cup {Emptied(x), Cancelled(x)}
           /\ Live' = (Live \ {x}) \cup {Cancelled(x)}
<1>1. PICK x \in Live :
        x.id = i /\ items' = (items \ {x}) \cup {Emptied(x), Cancelled(x)}
  BY DEF Cancel
<1>2. x \in Item /\ x.live
  BY DEF Live, TypeOK
<1>3. ~Emptied(x).live /\ Cancelled(x).live
  BY <1>2, ItemOps
<1>4. Live' = (Live \ {x}) \cup {Cancelled(x)}
  BY <1>1, <1>2, <1>3 DEF Live
<1> QED
  BY <1>1, <1>4

LEMMA DestroyEffect ==
  ASSUME TypeOK, NEW c, Destroy(c)
  PROVE  /\ items' = {IF x.id # 0 THEN Cancelled(x) ELSE x : x \in items}
         /\ Live' = {IF x.id # 0 THEN Cancelled(x) ELSE x : x \in Live}
<1>1. items' = {IF x.id # 0 THEN Cancelled(x) ELSE x : x \in items}
  BY DEF Destroy, AllCancelled
<1>2. \A x \in items : Cancelled(x).live = x.live
  BY ItemOps DEF TypeOK
<1> QED
  BY <1>1, <1>2 DEF Live

LEMMA TakeOutEffect ==
  ASSUME TypeOK, TakeOut
  PROVE  \E x \in items :
           /\ x.end <= now /\ x.h \in HandlerId
           /\ items' = items \ {x} /\ Live' = Live \ {x}
           /\ IF x.live
              THEN /\ cur' = x.h
                   /\ taken' = [taken EXCEPT ![x.h] =
                                  IF x.id = 0 THEN "aborted" ELSE "fired"]
                   /\ wpc' = "handler"
              ELSE UNCHANGED <<cur, taken, wpc>>
<1>1. PICK x \in items :
        /\ x.end <= now
        /\ items' = items \ {x}
        /\ IF x.live
           THEN /\ cur' = x.h
                /\ taken' = [taken EXCEPT ![x.h] =
                               IF x.id = 0 THEN "aborted" ELSE "fired"]
                /\ wpc' = "handler"
           ELSE UNCHANGED <<cur, taken, wpc>>
  BY DEF TakeOut, Tops
<1>2. x.h \in HandlerId
  BY DEF TypeOK, Item
<1>3. Live' = Live \ {x}
  BY <1>1 DEF Live
<1> QED
  BY <1>1, <1>2, <1>3

LEMMA CalcEffect ==
  ASSUME CalcWaitTime
  PROVE  items' \subseteq items /\ Live' = Live
  BY DEF CalcWaitTime, Live, Null
-----------------------------------------------------------------------------
\* add() registers one more handler, with an item of its own.
LEMMA OwnedPush ==
  ASSUME TypeOK, Owned, NEW d \in Nat, Push(d), UNCHANGED <<wpc, cur, taken>>
  PROVE  Owned'
<1> DEFINE new == NewItem(d)
<1>1. /\ idcounter + 1 \in HandlerId /\ idcounter' = idcounter + 1 /\ idcounter \in Nat
      /\ items' = items \cup {new} /\ Live' = Live \cup {new}
      /\ new.h = idcounter + 1 /\ new.id = idcounter + 1 /\ new.end = now + d
      /\ due' = [due EXCEPT ![idcounter + 1] = now + d]
  BY PushEffect, QueueAssumption DEF TypeOK
<1>2. \A x \in items : x.h \in HandlerId /\ x.h <= idcounter
  BY DEF Owned, Items, TypeOK, Item
<1>3. due'[idcounter + 1] = now + d /\ \A h \in HandlerId : h <= idcounter => due'[h] = due[h]
  BY <1>1 DEF TypeOK
<1>4. taken[idcounter + 1] = "no"
  BY <1>1 DEF Owned
<1> HIDE DEF new
<1>5. Items'
  <2>1. \A x \in items :
           /\ x.h <= idcounter'
           /\ x.id \in {0, x.h}
           /\ x.id = 0 => x.end = Epoch
           /\ x.live => taken'[x.h] = "no"
           /\ x.live /\ x.id # 0 => x.end = due'[x.h]
    BY <1>1, <1>2, <1>3 DEF Owned, Items, HandlerId
  <2>2. /\ new.h <= idcounter' /\ new.id \in {0, new.h} /\ new.id # 0
        /\ taken'[new.h] = "no" /\ new.end = due'[new.h]
    BY <1>1, <1>3, <1>4
  <2> QED
    BY <1>1, <2>1, <2>2 DEF Items
<1>6. \A x, y \in Live' : x.h = y.h => x = y
  BY <1>1, <1>2 DEF Owned, Live, HandlerId
<1>7. \A h \in HandlerId : h <= idcounter' /\ taken'[h] = "no" => \E x \in Live' : x.h = h
  BY <1>1 DEF Owned, HandlerId
<1>8. \A h \in HandlerId : h > idcounter' => taken'[h] = "no"
  BY <1>1 DEF Owned, HandlerId
<1> QED
  BY <1>5, <1>6, <1>7, <1>8 DEF Owned

\* cancel() moves a handler from one item to another.
LEMMA OwnedCancel ==
  ASSUME TypeOK, Owned, NEW c \in Clients, NEW i \in HandlerId, Cancel(c, i)
  PROVE  Owned'
<1>1. PICK x \in Live :
        /\ x.id = i
        /\ items' = (items \ {x}) \cup {Emptied(x), Cancelled(x)}
        /\ Live' = (Live \ {x}) \cup {Cancelled(x)}
  BY CancelEffect
<1>2. x \in Item /\ x \in items /\ x.live
  BY DEF Live, TypeOK
<1>3. /\ Cancelled(x).h = x.h /\ Cancelled(x).id = 0 /\ Cancelled(x).end = Epoch
      /\ Emptied(x).h = x.h /\ Emptied(x).live = FALSE
      /\ Emptied(x).id = x.id /\ Emptied(x).end = x.end
  BY <1>2, ItemOps
<1>4. UNCHANGED <<idcounter, taken, due, wpc, cur>>
  BY DEF Cancel
<1>5. Items'
  BY <1>1, <1>2, <1>3, <1>4 DEF Owned, Items
<1>6. \A y, z \in Live' : y.h = z.h => y = z
  BY <1>1, <1>3 DEF Owned
<1>7. \A h \in HandlerId : h <= idcounter' /\ taken'[h] = "no" => \E y \in Live' : y.h = h
  BY <1>1, <1>3, <1>4 DEF Owned
<1> QED
  BY <1>4, <1>5, <1>6, <1>7 DEF Owned

\* cancelAll() does so for every handler with an identifier.
LEMMA OwnedDestroy ==
  ASSUME TypeOK, Owned, NEW c \in Clients, Destroy(c)
  PROVE  Owned'
<1> DEFINE f(x) == IF x.id # 0 THEN Cancelled(x) ELSE x
<1>1. items' = {f(x) : x \in items} /\ Live' = {f(x) : x \in Live}
  BY DestroyEffect
<1>2. \A x \in items : /\ f(x).h = x.h /\ f(x).id = 0
                       /\ f(x).live = x.live
  BY ItemOps DEF TypeOK
<1>3. \A x \in items : f(x).end = Epoch
  BY ItemOps DEF TypeOK, Owned, Items
<1>4. UNCHANGED <<idcounter, taken, due, wpc, cur>>
  BY DEF Destroy
<1> HIDE DEF f
<1>5. Items'
  BY <1>1, <1>2, <1>3, <1>4 DEF Owned, Items
<1>6. \A y, z \in Live' : y.h = z.h => y = z
  BY <1>1, <1>2 DEF Owned, Live
<1>7. \A h \in HandlerId : h <= idcounter' /\ taken'[h] = "no" => \E y \in Live' : y.h = h
  BY <1>1, <1>2, <1>4 DEF Owned, Live
<1> QED
  BY <1>4, <1>5, <1>6, <1>7 DEF Owned

\* checkWork() takes a handler out together with its item.
LEMMA OwnedTakeOut ==
  ASSUME TypeOK, Owned, TakeOut
  PROVE  Owned'
<1>1. PICK x \in items :
        /\ x.end <= now /\ x.h \in HandlerId
        /\ items' = items \ {x} /\ Live' = Live \ {x}
        /\ IF x.live
           THEN /\ cur' = x.h
                /\ taken' = [taken EXCEPT ![x.h] =
                               IF x.id = 0 THEN "aborted" ELSE "fired"]
                /\ wpc' = "handler"
           ELSE UNCHANGED <<cur, taken, wpc>>
  BY TakeOutEffect
<1>2. UNCHANGED <<idcounter, due>> /\ wpc = "check"
  BY DEF TakeOut
<1>3. CASE ~x.live
  BY <1>1, <1>2, <1>3 DEF Owned, Items, Live
<1>4. CASE x.live
  <2>1. x \in Live /\ \A y \in Live \ {x} : y.h # x.h
    BY <1>4 DEF Live, Owned
  <2>2. /\ taken'[x.h] # "no"
        /\ \A h \in HandlerId : h # x.h => taken'[h] = taken[h]
    BY <1>1, <1>4 DEF TypeOK
  <2>3. x.h # 0 /\ x.h <= idcounter /\ idcounter \in Nat
    BY <1>1, QueueAssumption DEF HandlerId, Owned, Items, TypeOK
  <2>4. \A y \in items : y.h \in HandlerId
    BY DEF TypeOK, Item
  <2>5. Items'
    BY <1>1, <1>2, <2>1, <2>2, <2>4 DEF Owned, Items, Live
  <2>6. \A h \in HandlerId : h <= idcounter' /\ taken'[h] = "no" => \E y \in Live' : y.h = h
    BY <1>1, <1>2, <2>2 DEF Owned
  <2>7. \A h \in HandlerId : h > idcounter' => taken'[h] = "no"
    BY <1>2, <2>2, <2>3 DEF Owned, HandlerId
  <2> QED
    BY <1>1, <1>4, <2>3, <2>5, <2>6, <2>7 DEF Owned
<1> QED
  BY <1>3, <1>4

LEMMA OwnedStep == TypeOK /\ Owned /\ [Next]_vars => Owned'
<1> SUFFICES ASSUME TypeOK, Owned, [Next]_vars PROVE Owned'
  OBVIOUS
<1>1. ASSUME NEW c \in Clients, Client(c) PROVE Owned'
  <2>1. ASSUME NEW d \in Delays, Add(c, d) PROVE Owned'
    BY <2>1, OwnedPush, QueueAssumption DEF Add
  <2>2. CASE AddFinish(c)
    BY <2>2, OwnedPush DEF AddFinish
  <2>3. CASE Notify(c) \/ Join(c)
    BY <2>3 DEF Notify, NotifyAs, Join, Owned, Items, Live
  <2> QED
    BY <1>1, <2>1, <2>2, <2>3, OwnedCancel, OwnedDestroy DEF Client
<1>2. CASE CalcWaitTime
  BY <1>2, CalcEffect DEF CalcWaitTime, Owned, Items
<1>3. CASE Wake \/ LeaveCheckWork
  BY <1>3 DEF Wake, LeaveCheckWork, Owned, Items, Live
<1>4. CASE RunHandler
  BY <1>4 DEF RunHandler, Owned, Items, Live
<1>5. CASE Tick \/ UNCHANGED vars
  BY <1>5 DEF Tick, vars, Owned, Items, Live
<1> QED
  BY <1>1, <1>2, <1>3, <1>4, <1>5, OwnedTakeOut DEF Next, Worker
-----------------------------------------------------------------------------
\* The destructor is alone: no other client is in a call, and none can begin one.
LEMMA EndingClient ==
  ASSUME TypeOK, Owned, Ending, NEW c \in Clients, Client(c)
  PROVE  Ending'
<1> USE DEF Ending, Destructing
<1>1. cpc \in [Clients -> {"free", "notify", "notifyAll", "finish", "notifyFinish", "join", "gone"}]
  BY DEF TypeOK
<1>2. CASE (\E d \in Delays : Add(c, d)) \/ \E i \in HandlerId : Cancel(c, i)
  <2>1. \A d \in Clients : cpc[d] \in {"free", "notify"}
    BY <1>2 DEF Add, Cancel, Usable
  <2>2. \A d \in Clients : cpc'[d] \in {"free", "notify"}
    BY <1>1, <1>2, <2>1 DEF Add, Cancel
  <2>3. UNCHANGED <<finish, finishId, wpc>>
    BY <1>2 DEF Add, Cancel
  <2>4. ~finish /\ finishId = 0
    BY <2>1
  <2> QED
    BY <2>2, <2>3, <2>4
<1>3. CASE Notify(c)
  <2>1. /\ UNCHANGED <<items, now, finish, finishId, wpc>>
        /\ \A d \in Clients : d # c => cpc'[d] = cpc[d]
        /\ cpc[c] = "notify" => cpc'[c] = "free"
        /\ cpc[c] = "notifyAll" => cpc'[c] = "finish"
        /\ cpc[c] = "notifyFinish" => cpc'[c] = "join"
        /\ cpc[c] \in {"notify", "notifyAll", "notifyFinish"}
    BY <1>1, <1>3 DEF Notify, NotifyAs
  <2> QED
    BY <2>1
<1>4. CASE Destroy(c)
  <2>1. \A d \in Clients : cpc[d] = "free"
    BY <1>4 DEF Destroy
  <2>2. /\ cpc'[c] = "notifyAll" /\ \A d \in Clients : d # c => cpc'[d] = "free"
        /\ UNCHANGED <<now, finish, finishId, wpc>>
    BY <1>1, <1>4, <2>1 DEF Destroy
  <2>3. ~finish /\ finishId = 0
    BY <2>1
  <2>4. \A x \in items' : x.end <= now
    <3>1. \A x \in items : (IF x.id # 0 THEN Cancelled(x) ELSE x).end = Epoch
      BY ItemOps DEF TypeOK, Owned, Items
    <3>2. Epoch <= now
      BY QueueAssumption DEF TypeOK, Epoch
    <3> QED
      BY <1>4, <3>1, <3>2, DestroyEffect
  <2> QED
    BY <2>2, <2>3, <2>4
<1>5. CASE AddFinish(c)
  <2>1. /\ cpc[c] = "finish" /\ cpc'[c] = "notifyFinish"
        /\ \A d \in Clients : d # c => cpc'[d] = cpc[d]
        /\ UNCHANGED <<now, finish, wpc>>
    BY <1>1, <1>5 DEF AddFinish, Push
  <2>2. Push(0) /\ finishId' = idcounter + 1 /\ idcounter + 1 # 0
    BY <1>5, QueueAssumption DEF AddFinish, TypeOK
  <2>3. items' = items \cup {NewItem(0)} /\ NewItem(0).end = now
    BY <2>2, PushEffect, QueueAssumption DEF TypeOK
  <2>4. ~finish /\ finishId = 0
    BY <2>1
  <2>5. now <= now
    BY QueueAssumption DEF TypeOK
  <2> QED
    BY <2>1, <2>2, <2>3, <2>4, <2>5
<1>6. CASE Join(c)
  <2>1. /\ UNCHANGED <<items, now, finish, finishId, wpc>>
        /\ \A d \in Clients : d # c => cpc'[d] = cpc[d]
        /\ cpc[c] = "join" /\ cpc'[c] = "gone" /\ wpc = "done"
    BY <1>1, <1>6 DEF Join, WorkerDone
  <2> QED
    BY <2>1
<1> QED
  BY <1>2, <1>3, <1>4, <1>5, <1>6 DEF Client

\* The worker leaves only when the destructor's own timer has run.
LEMMA EndingStep == TypeOK /\ Owned /\ Ending /\ [Next]_vars => Ending'
<1> SUFFICES ASSUME TypeOK, Owned, Ending, [Next]_vars PROVE Ending'
  OBVIOUS
<1> USE DEF Ending, Destructing
<1>1. CASE CalcWaitTime
  BY <1>1, CalcEffect DEF CalcWaitTime
<1>2. CASE Wake
  BY <1>2 DEF Wake
<1>3. CASE TakeOut
  <2>1. items' \subseteq items /\ wpc' # "done" /\ wpc # "done"
    BY <1>3, TakeOutEffect DEF TakeOut
  <2> QED
    BY <1>3, <2>1 DEF TakeOut
<1>4. CASE RunHandler
  <2>1. cur # 0
    BY <1>4 DEF RunHandler, Owned
  <2> QED
    BY <1>4, <2>1 DEF RunHandler
<1>5. CASE LeaveCheckWork
  <2>1. finish => items = {}
    <3>1. \A x \in items : x.end \in Nat /\ now \in Nat
      BY QueueAssumption DEF TypeOK, Item
    <3>2. \A x \in items : x.end > now
      BY <1>5 DEF LeaveCheckWork
    <3>3. finish => \A x \in items : x.end <= now
      OBVIOUS
    <3> QED
      BY <3>1, <3>2, <3>3
  <2> QED
    BY <1>5, <2>1 DEF LeaveCheckWork
<1>6. CASE Tick
  <2>1. \A x \in items : x.end <= now => x.end <= now + 1
    BY QueueAssumption DEF TypeOK, Item
  <2> QED
    BY <1>6, <2>1 DEF Tick
<1>7. CASE UNCHANGED vars
  BY <1>7 DEF vars
<1> QED
  BY <1>1, <1>2, <1>3, <1>4, <1>5, <1>6, <1>7, EndingClient DEF Next, Worker

LEMMA Invariant == Spec => []IInv
<1>1. IInv /\ [Next]_vars => IInv'
  BY TypeStep, OwnedStep, EndingStep DEF IInv
<1> QED
  BY InitIInv, <1>1, PTL DEF Spec
-----------------------------------------------------------------------------
\* The queue's state keeps its types; the count of the semaphore is never negative.
THEOREM TypeCorrect == Spec => []TypeOK
<1>1. IInv => TypeOK
  BY DEF IInv
<1> QED
  BY Invariant, <1>1, PTL

\* add(), cancel(), cancelAll() and checkWork() neither lose nor copy a handler:
\* one that is registered and has not been taken out is held by one item, any
\* other by none.
THEOREM OwnedOnce == Spec => []HandlerOwnedOnce
<1>1. IInv => HandlerOwnedOnce
  <2> SUFFICES ASSUME IInv, NEW h \in HandlerId
               PROVE  LET holders == {x \in Live : x.h = h} IN
                        IF h <= idcounter /\ taken[h] = "no"
                        THEN Cardinality(holders) = 1
                        ELSE holders = {}
    BY DEF HandlerOwnedOnce
  <2> DEFINE holders == {x \in Live : x.h = h}
  <2>1. CASE h <= idcounter /\ taken[h] = "no"
    <3>1. PICK x \in Live : x.h = h
      BY <2>1 DEF IInv, Owned
    <3>2. holders = {x}
      BY <3>1 DEF IInv, Owned
    <3> QED
      BY <2>1, <3>2, FS_Singleton
  <2>2. CASE ~(h <= idcounter /\ taken[h] = "no")
    BY <2>2 DEF IInv, Owned, Items, Live
  <2> QED
    BY <2>1, <2>2
<1> QED
  BY Invariant, <1>1, PTL

\* run()'s assertion holds: the worker leaves with nothing in the heap.
THEOREM EmptyWhenDone == Spec => []EmptyAtExit
<1>1. IInv => EmptyAtExit
  BY DEF IInv, Ending, EmptyAtExit
<1> QED
  BY Invariant, <1>1, PTL

\* When ~TimerQueue() has joined, every registered handler has been run.
THEOREM NothingLeftToRun == Spec => []NothingOutlivesQueue
<1>1. IInv => NothingOutlivesQueue
  <2> SUFFICES ASSUME IInv, NEW c \in Clients, cpc[c] = "gone"
               PROVE  wpc = "done" /\ cur = 0 /\ \A h \in 1 .. idcounter : taken[h] # "no"
    BY DEF NothingOutlivesQueue
  <2>1. wpc = "done" /\ items = {} /\ cur = 0
    BY DEF IInv, Ending, Owned
  <2>2. \A h \in 1 .. idcounter : h \in HandlerId /\ h <= idcounter
    BY QueueAssumption DEF IInv, TypeOK, HandlerId
  <2> QED
    BY <2>1, <2>2 DEF IInv, Owned, Live
<1> QED
  BY Invariant, <1>1, PTL
-----------------------------------------------------------------------------
(* The queue implements TimerService, step by step.                        *)

\* The handler's timer has been cancelled.
GivenUp(h) == \E x \in Live : x.h = h /\ x.id = 0

\* The life of each timer as the queue has it.
LEMMA TimerOf ==
  ASSUME NEW h \in HandlerId
  PROVE  ServiceTimer[h] =
           IF h > idcounter THEN "unused"
           ELSE IF taken[h] # "no" THEN taken[h]
           ELSE IF GivenUp(h) THEN "cancelled"
           ELSE IF now < due[h] THEN "waiting" ELSE "due"
  BY DEF ServiceTimer, GivenUp

LEMMA TimerOfNext ==
  ASSUME NEW h \in HandlerId
  PROVE  ServiceTimer'[h] =
           IF h > idcounter' THEN "unused"
           ELSE IF taken'[h] # "no" THEN taken'[h]
           ELSE IF GivenUp(h)' THEN "cancelled"
           ELSE IF now' < due'[h] THEN "waiting" ELSE "due"
  BY DEF ServiceTimer, GivenUp

LEMMA TimersAreFunctions ==
  /\ ServiceTimer = [h \in HandlerId |-> ServiceTimer[h]]
  /\ ServiceTimer' = [h \in HandlerId |-> ServiceTimer'[h]]
  /\ HandlerId = Service!TimerId
  BY DEF ServiceTimer, HandlerId, Service!TimerId

\* A timer that is pending is one whose handler is held and not cancelled.
LEMMA PendingTimer ==
  ASSUME IInv, NEW h \in HandlerId
  PROVE  Service!Pending(h) <=> h <= idcounter /\ taken[h] = "no" /\ ~GivenUp(h)
<1>1. taken[h] \in {"no", "fired", "aborted"} /\ h \in Nat /\ idcounter \in Nat
  BY QueueAssumption DEF IInv, TypeOK, HandlerId
<1> QED
  BY <1>1, TimerOf DEF Service!Pending

\* add() is Add of the next identifier.
LEMMA RefinesAdd ==
  ASSUME IInv, NEW d \in Nat, Push(d), UNCHANGED <<now, cur, taken>>
  PROVE  Service!Next
<1>1. PICK i : i = idcounter + 1
  OBVIOUS
<1>2. /\ i \in HandlerId /\ idcounter' = i /\ idcounter \in Nat
      /\ Live' = Live \cup {NewItem(d)}
      /\ NewItem(d).h = i /\ NewItem(d).id = i
      /\ due' = [due EXCEPT ![i] = now + d]
  BY <1>1, PushEffect, QueueAssumption DEF IInv, TypeOK
<1>3. taken[i] = "no" /\ i # 0
  BY <1>1, <1>2 DEF IInv, Owned, HandlerId
<1>4. \A h \in HandlerId : GivenUp(h)' <=> GivenUp(h)
  BY <1>2, <1>3 DEF GivenUp
<1>5. ~GivenUp(i)
  BY <1>1, <1>2 DEF IInv, Owned, Items, Live, GivenUp
<1>6. \A h \in HandlerId : h # i => (h > idcounter' <=> h > idcounter)
  BY <1>1, <1>2 DEF HandlerId
<1>7. \A h \in HandlerId : h # i => ServiceTimer'[h] = ServiceTimer[h]
  <2>1. \A h \in HandlerId : h # i => due'[h] = due[h]
    BY <1>2 DEF IInv, TypeOK
  <2> QED
    BY <1>4, <1>6, <2>1, TimerOf, TimerOfNext
<1>8. ServiceTimer[i] = "unused"
  BY <1>1, <1>2, TimerOf
<1>9. ServiceTimer'[i] \in {"waiting", "due"}
  <2>1. ~(i > idcounter') /\ taken'[i] = "no" /\ ~GivenUp(i)'
    BY <1>1, <1>2, <1>3, <1>4, <1>5
  <2> QED
    BY <1>2, <2>1, TimerOfNext
<1>10. ServiceTimer' = [ServiceTimer EXCEPT ![i] = ServiceTimer'[i]]
  BY <1>2, <1>7, TimersAreFunctions
<1>11. \A j \in 1 .. i - 1 : ServiceTimer[j] # "unused"
  <2> TAKE j \in 1 .. i - 1
  <2>1. j \in HandlerId /\ ~(j > idcounter)
    BY <1>1, <1>2, QueueAssumption DEF HandlerId
  <2>2. taken[j] # "unused"
    BY <2>1 DEF IInv, TypeOK
  <2> QED
    BY <2>1, <2>2, TimerOf
<1>12. Service!Add(i)
  BY <1>8, <1>9, <1>10, <1>11 DEF Service!Add, Service!NextId
<1> QED
  BY <1>2, <1>12, TimersAreFunctions DEF Service!Next

\* cancel() is Cancel.
LEMMA RefinesCancel ==
  ASSUME IInv, NEW c, NEW i \in HandlerId, Cancel(c, i)
  PROVE  Service!Next
<1>1. PICK x \in Live :
        /\ x.id = i
        /\ Live' = (Live \ {x}) \cup {Cancelled(x)}
  BY CancelEffect DEF IInv
<1>2. UNCHANGED <<now, idcounter, cur, due, taken>>
  BY DEF Cancel
<1>3. /\ Cancelled(x).h = x.h /\ Cancelled(x).id = 0
      /\ x.h = i /\ x.h <= idcounter /\ taken[i] = "no" /\ i # 0
      /\ \A y \in Live : y.h = i => y = x
  <2>1. x \in Item /\ x \in items /\ x.live /\ i # 0
    BY DEF IInv, TypeOK, Live, HandlerId
  <2>2. x.h = i /\ x.h <= idcounter /\ taken[i] = "no"
    BY <1>1, <2>1 DEF IInv, Owned, Items
  <2>3. \A y \in Live : y.h = i => y = x
    BY <2>2 DEF IInv, Owned
  <2>4. Cancelled(x).h = x.h /\ Cancelled(x).id = 0
    BY <2>1, ItemOps
  <2> QED
    BY <2>1, <2>2, <2>3, <2>4
<1>4. ~GivenUp(i) /\ GivenUp(i)'
  BY <1>1, <1>3 DEF GivenUp
<1>5. \A h \in HandlerId : h # i => (GivenUp(h)' <=> GivenUp(h))
  BY <1>1, <1>3 DEF GivenUp
<1>6. \A h \in HandlerId : h # i => ServiceTimer'[h] = ServiceTimer[h]
  BY <1>2, <1>5, TimerOf, TimerOfNext
<1>7. ~(i > idcounter)
  BY <1>3, QueueAssumption DEF HandlerId, IInv, TypeOK
<1>8. ServiceTimer'[i] = "cancelled"
  BY <1>2, <1>3, <1>4, <1>7, TimerOfNext
<1>9. Service!Pending(i)
  BY <1>3, <1>4, PendingTimer
<1>10. Service!Cancel(i)
  BY <1>2, <1>6, <1>8, <1>9, TimersAreFunctions DEF Service!Cancel
<1> QED
  BY <1>10, TimersAreFunctions DEF Service!Next

\* cancelAll() is CancelAll.
LEMMA RefinesDestroy ==
  ASSUME IInv, NEW c, Destroy(c)
  PROVE  Service!Next
<1>1. Live' = {IF x.id # 0 THEN Cancelled(x) ELSE x : x \in Live}
  BY DestroyEffect DEF IInv
<1>2. UNCHANGED <<now, idcounter, cur, due, taken>>
  BY DEF Destroy
<1>3. \A x \in Live : LET y == IF x.id # 0 THEN Cancelled(x) ELSE x IN y.h = x.h /\ y.id = 0
  BY ItemOps DEF IInv, TypeOK, Live
<1>4. \A h \in HandlerId : GivenUp(h)' <=> \E x \in Live : x.h = h
  BY <1>1, <1>3 DEF GivenUp
<1>5. \A h \in HandlerId : ServiceTimer'[h] =
        IF Service!Pending(h) THEN "cancelled" ELSE ServiceTimer[h]
  <2> TAKE h \in HandlerId
  <2>1. CASE h > idcounter
    BY <1>2, <2>1, PendingTimer, TimerOf, TimerOfNext, QueueAssumption DEF HandlerId, IInv, TypeOK
  <2>2. CASE h <= idcounter /\ taken[h] # "no"
    BY <1>2, <2>2, PendingTimer, TimerOf, TimerOfNext, QueueAssumption DEF HandlerId, IInv, TypeOK
  <2>3. CASE h <= idcounter /\ taken[h] = "no"
    <3>1. GivenUp(h)' /\ ~(h > idcounter)
      BY <1>4, <2>3, QueueAssumption DEF IInv, Owned, HandlerId, TypeOK
    <3> QED
      BY <1>2, <2>3, <3>1, PendingTimer, TimerOf, TimerOfNext
  <2> QED
    BY <2>1, <2>2, <2>3, QueueAssumption DEF HandlerId, IInv, TypeOK
<1>6. Service!CancelAll
  BY <1>2, <1>5, TimersAreFunctions DEF Service!CancelAll
<1> QED
  BY <1>6 DEF Service!Next

\* The clock is Elapse: some timers become due.
LEMMA RefinesTick ==
  ASSUME IInv, Tick
  PROVE  Service!Next
<1>1. now' = now + 1 /\ UNCHANGED <<idcounter, cur, due, taken, items>>
  BY DEF Tick
<1>2. \A h \in HandlerId : GivenUp(h)' <=> GivenUp(h)
  BY <1>1 DEF GivenUp, Live
<1> DEFINE S == {h \in HandlerId : ServiceTimer[h] = "waiting" /\ ~(now + 1 < due[h])}
<1>3. \A h \in HandlerId : ServiceTimer'[h] = IF h \in S THEN "due" ELSE ServiceTimer[h]
  <2> TAKE h \in HandlerId
  <2>1. due[h] \in Nat /\ now \in Nat /\ taken[h] \in {"no", "fired", "aborted"}
    BY QueueAssumption DEF IInv, TypeOK
  <2>2. now + 1 < due[h] => now < due[h]
    BY <2>1
  <2> QED
    BY <1>1, <1>2, <2>1, <2>2, TimerOf, TimerOfNext
<1>4. S \in SUBSET {i \in Service!TimerId : ServiceTimer[i] = "waiting"}
  BY TimersAreFunctions
<1> HIDE DEF S
<1>5. ServiceTimer' = [i \in Service!TimerId |-> IF i \in S THEN "due" ELSE ServiceTimer[i]]
  BY <1>3, TimersAreFunctions
<1>6. Service!Elapse
  BY <1>1, <1>4, <1>5 DEF Service!Elapse
<1> QED
  BY <1>6 DEF Service!Next

\* checkWork() starts a handler that is due or cancelled, or drops an empty item.
LEMMA RefinesTakeOut ==
  ASSUME IInv, TakeOut
  PROVE  Service!Next \/ UNCHANGED Service!vars
<1>1. PICK x \in items :
        /\ x.end <= now /\ x.h \in HandlerId
        /\ Live' = Live \ {x}
        /\ IF x.live
           THEN /\ cur' = x.h
                /\ taken' = [taken EXCEPT ![x.h] =
                               IF x.id = 0 THEN "aborted" ELSE "fired"]
           ELSE UNCHANGED <<cur, taken>>
  BY TakeOutEffect DEF IInv
<1>2. UNCHANGED <<now, idcounter, due>> /\ cur = 0
  BY DEF TakeOut, IInv, Owned
<1>3. CASE ~x.live
  <2>1. \A h \in HandlerId : GivenUp(h)' <=> GivenUp(h)
    BY <1>1, <1>3 DEF GivenUp, Live
  <2>2. \A h \in HandlerId : ServiceTimer'[h] = ServiceTimer[h]
    BY <1>1, <1>2, <1>3, <2>1, TimerOf, TimerOfNext
  <2> QED
    BY <1>1, <1>3, <2>2, TimersAreFunctions DEF Service!vars
<1>4. CASE x.live
  <2>1. PICK i \in HandlerId : i = x.h
    BY <1>1
  <2>2. /\ x \in Live /\ \A y \in Live : y.h = i => y = x
        /\ taken[i] = "no" /\ i <= idcounter /\ ~(i > idcounter)
        /\ x.id \in {0, i} /\ (x.id # 0 => x.end = due[i])
    BY <1>4, <2>1, QueueAssumption DEF IInv, Owned, Items, Live, HandlerId, TypeOK
  <2>3. GivenUp(i) <=> x.id = 0
    BY <2>1, <2>2 DEF GivenUp
  <2>4. \A h \in HandlerId : h # i => (GivenUp(h)' <=> GivenUp(h))
    BY <1>1, <2>1 DEF GivenUp
  <2>5. /\ taken'[i] = IF x.id = 0 THEN "aborted" ELSE "fired"
        /\ \A h \in HandlerId : h # i => taken'[h] = taken[h]
    BY <1>1, <1>4, <2>1 DEF IInv, TypeOK
  <2>6. \A h \in HandlerId : h # i => ServiceTimer'[h] = ServiceTimer[h]
    BY <1>2, <2>4, <2>5, TimerOf, TimerOfNext
  <2>7. ServiceTimer'[i] = IF x.id = 0 THEN "aborted" ELSE "fired"
    BY <1>2, <2>2, <2>5, TimerOfNext
  <2>8. ServiceTimer[i] = IF x.id = 0 THEN "cancelled" ELSE "due"
    <3>1. x.id # 0 => ~(now < due[i])
      BY <1>1, <2>2, QueueAssumption DEF IInv, TypeOK, Item
    <3> QED
      BY <2>2, <2>3, <3>1, TimerOf
  <2>9. ServiceTimer' = [ServiceTimer EXCEPT ![i] = ServiceTimer'[i]]
    BY <2>6, TimersAreFunctions
  <2>10. Service!Start(i)
    BY <1>1, <1>2, <1>4, <2>1, <2>7, <2>8, <2>9 DEF Service!Start
  <2> QED
    BY <2>10, TimersAreFunctions DEF Service!Next
<1> QED
  BY <1>3, <1>4

\* The steps the client does not see.
LEMMA HiddenSteps ==
  ASSUME UNCHANGED <<now, idcounter, cur, taken, due, Live>>
  PROVE  UNCHANGED Service!vars
<1>1. \A h \in HandlerId : GivenUp(h)' <=> GivenUp(h)
  BY DEF GivenUp
<1>2. \A h \in HandlerId : ServiceTimer'[h] = ServiceTimer[h]
  BY <1>1, TimerOf, TimerOfNext
<1> QED
  BY <1>2, TimersAreFunctions DEF Service!vars

LEMMA RefinesStep == IInv /\ [Next]_vars => [Service!Next]_(Service!vars)
<1> SUFFICES ASSUME IInv, [Next]_vars PROVE Service!Next \/ UNCHANGED Service!vars
  OBVIOUS
<1>1. ASSUME NEW c \in Clients, Client(c) PROVE Service!Next \/ UNCHANGED Service!vars
  <2>1. ASSUME NEW d \in Delays, Add(c, d) PROVE Service!Next
    BY <2>1, RefinesAdd, QueueAssumption DEF Add
  <2>2. CASE AddFinish(c)
    BY <2>2, RefinesAdd DEF AddFinish
  <2>3. CASE Notify(c) \/ Join(c)
    BY <2>3, HiddenSteps DEF Notify, NotifyAs, Join, Live
  <2> QED
    BY <1>1, <2>1, <2>2, <2>3, RefinesCancel, RefinesDestroy DEF Client
<1>2. CASE CalcWaitTime
  BY <1>2, CalcEffect, HiddenSteps DEF CalcWaitTime
<1>3. CASE Wake \/ LeaveCheckWork
  BY <1>3, HiddenSteps DEF Wake, LeaveCheckWork, Live
<1>4. CASE RunHandler
  <2>1. UNCHANGED ServiceTimer
    <3>1. \A h \in HandlerId : GivenUp(h)' <=> GivenUp(h)
      BY <1>4 DEF RunHandler, GivenUp, Live
    <3>2. \A h \in HandlerId : ServiceTimer'[h] = ServiceTimer[h]
      BY <1>4, <3>1, TimerOf, TimerOfNext DEF RunHandler
    <3> QED
      BY <3>2, TimersAreFunctions
  <2>2. cur # 0 /\ cur' = 0
    BY <1>4 DEF RunHandler, IInv, Owned
  <2> QED
    BY <2>1, <2>2 DEF Service!Next, Service!Finish
<1>5. CASE UNCHANGED vars
  BY <1>5, HiddenSteps DEF vars, Live
<1> QED
  BY <1>1, <1>2, <1>3, <1>4, <1>5, RefinesTick, RefinesTakeOut DEF Next, Worker

\* Whatever its clients do, the queue keeps the promise of timer_queue.h: every
\* handler is run at most once, one at a time, fired only after its time and
\* aborted only if its timer was cancelled.
THEOREM QueueImplementsService == Spec => ImplementsService
<1>1. Init => Service!Init
  <2> SUFFICES ASSUME Init PROVE Service!Init
    OBVIOUS
  <2>1. \A h \in HandlerId : h > idcounter
    BY QueueAssumption DEF Init, HandlerId
  <2> QED
    BY <2>1, TimerOf, TimersAreFunctions DEF Init, Service!Init
<1> QED
  BY <1>1, Invariant, RefinesStep, PTL DEF Spec, ImplementsService, Service!Spec
=============================================================================
