------------------------ MODULE PS2Keyboard_proofs -------------------------
(***************************************************************************)
(* Proofs about PS2Keyboard.  Each queue operator is shown to keep the     *)
(* type of the queue and its consistency; the invariants of the service    *)
(* then follow action by action.  At the end, the keyboard is shown to     *)
(* implement OperationQueue.                                               *)
(***************************************************************************)
EXTENDS PS2Keyboard, FiniteSetTheorems, TLAPS

(* Cardinalities of sets of operations are numbers, and so is Drop's result. *)
LEMMA DropType ==
  ASSUME NEW d \in Nat, NEW S \in SUBSET Ops
  PROVE  Drop(d, Cardinality(S)) \in Nat
<1>1. Cardinality(S) \in Nat
  BY OpsAssumption, FS_Subset, FS_CardinalityType
<1> QED BY <1>1 DEF Drop

(* The adapter keeps the type of the slice.                                *)
LEMMA ViewType ==
  ASSUME NEW v \in Views
  PROVE  /\ OnConnecting(v) \in Views
         /\ \A r : OnDisconnected(v, r) \in Views
         /\ OnLost(v) \in Views
         /\ \A r \in {"start", "success", "failed"} : OnIdentify(v, r) \in Views
         /\ OnFatal(v) \in Views
         /\ OnQueued(v) \in Views
         /\ \A o \in Ops : OnStarted(v, o) \in Views
         /\ \A S \in SUBSET Ops : OnCancelled(v, S) \in Views
         /\ OnEnded(v) \in Views
<1>1. ASSUME NEW S \in SUBSET Ops PROVE OnCancelled(v, S) \in Views
  BY DropType DEF OnCancelled, Views
<1>2. OnEnded(v) \in Views
  <2>1. v.depth \in Nat
    BY DEF Views
  <2>2. Drop(v.depth, 1) \in Nat
    BY <2>1 DEF Drop
  <2> QED BY <2>2 DEF OnEnded, Views
<1>3. OnConnecting(v) \in Views /\ OnLost(v) \in Views /\ OnFatal(v) \in Views
  BY DEF OnConnecting, OnLost, OnFatal, Views, ViewPhases
<1>4. ASSUME NEW r PROVE OnDisconnected(v, r) \in Views
  BY DEF OnDisconnected, Views, ViewPhases
<1>5. ASSUME NEW r \in {"start", "success", "failed"}
      PROVE  OnIdentify(v, r) \in Views
  BY DEF OnIdentify, Views, ViewPhases
<1>6. OnQueued(v) \in Views /\ \A o \in Ops : OnStarted(v, o) \in Views
  BY DEF OnQueued, OnStarted, Views
<1> QED BY <1>1, <1>2, <1>3, <1>4, <1>5, <1>6

(* Removing operations from a queue leaves a queue of the others.          *)
LEMMA WithoutType ==
  ASSUME NEW queue \in Queues, NEW S
  PROVE  /\ Without(queue, S) \in Queues
         /\ DOMAIN Without(queue, S) = DOMAIN queue \ S
<1>1. PICK W \in SUBSET Ops : queue \in [W -> SUBSET W]
  BY DEF Queues
<1>2. Without(queue, S) \in [W \ S -> SUBSET (W \ S)]
  BY <1>1 DEF Without
<1>3. W \ S \in SUBSET Ops
  OBVIOUS
<1> QED BY <1>1, <1>2, <1>3 DEF Queues, Without

(* The waiting operations are operations.                                  *)
LEMMA WaitingType ==
  ASSUME NEW s \in QueueStates
  PROVE  Waiting(s) \in SUBSET Ops
<1>1. s.queue \in Queues
  BY DEF QueueStates
<1>2. PICK W \in SUBSET Ops : s.queue \in [W -> SUBSET W]
  BY <1>1 DEF Queues
<1> QED BY <1>2 DEF Waiting

-----------------------------------------------------------------------------
(* What the operators of the queue keep *)

(* The array has a first element, and so has what any filter leaves of it. *)
Ordered(s) ==
  \A W \in SUBSET Waiting(s) : W # {} => \E o \in W : s.queue[o] \cap W = {}

(* The slice shows no work that is not there (ViewNeverOverstates).        *)
UnsettledIn(s) == {o \in Ops : s.pc[o] \in Unsettled}

Told(s) ==
  /\ s.view.depth <= Cardinality(UnsettledIn(s))
  /\ s.view.current \in {NoOp, s.active}

Orderly(s) == Consistent(s) /\ Ordered(s) /\ Told(s)

(* Waiting operations have a runner that will come back for them.          *)
PickedUp(s) ==
  Waiting(s) # {} /\ s.active = NoOp => \E o \in Ops : s.pc[o] = "pause"

(* Sets of operations are finite.                                          *)
LEMMA OpsCount ==
  ASSUME NEW S \in SUBSET Ops
  PROVE  IsFiniteSet(S) /\ Cardinality(S) \in Nat
BY OpsAssumption, FS_Subset, FS_CardinalityType

(* Operations that leave lower the depth by their number, or to zero, and  *)
(* so keep it within the number of those that stay.                        *)
LEMMA DropBound ==
  ASSUME NEW U \in SUBSET Ops, NEW S \in SUBSET U, NEW d \in Nat,
         d <= Cardinality(U)
  PROVE  Drop(d, Cardinality(S)) <= Cardinality(U \ S)
<1>1. IsFiniteSet(U) /\ U \cap S = S
  BY OpsCount
<1>2. Cardinality(U \ S) = Cardinality(U) - Cardinality(S)
  BY <1>1, FS_Difference
<1>3. /\ Cardinality(S) \in Nat /\ Cardinality(U) \in Nat
      /\ Cardinality(U \ S) \in Nat
  BY OpsCount
<1> QED BY <1>2, <1>3 DEF Drop

LEMMA DropOneBound ==
  ASSUME NEW U \in SUBSET Ops, NEW o \in U, NEW d \in Nat, d <= Cardinality(U)
  PROVE  Drop(d, 1) <= Cardinality(U \ {o})
BY DropBound, FS_Singleton

(* What is left of an ordered queue is ordered.                            *)
LEMMA OrderedSub ==
  ASSUME NEW s, NEW t, NEW S, Ordered(s),
         t.queue = Without(s.queue, S), Waiting(t) = Waiting(s) \ S
  PROVE  Ordered(t)
<1> SUFFICES ASSUME NEW W \in SUBSET Waiting(t), W # {}
             PROVE  \E o \in W : t.queue[o] \cap W = {}
  BY DEF Ordered
<1>1. PICK o \in W : s.queue[o] \cap W = {}
  BY DEF Ordered
<1>2. t.queue[o] = s.queue[o] \ S
  BY DEF Without, Waiting
<1> QED BY <1>1, <1>2

(* Publishing an event changes nothing but the slice.                      *)
LEMMA PublishKeeps ==
  ASSUME NEW s \in QueueStates, NEW v \in Views
  PROVE  /\ Publish(s, v) \in QueueStates
         /\ Consistent(s) => Consistent(Publish(s, v))
         /\ KeysDrained(s) => KeysDrained(Publish(s, v))
         /\ Waiting(Publish(s, v)) = Waiting(s)
         /\ Ordered(s) => Ordered(Publish(s, v))
         /\ PickedUp(s) => PickedUp(Publish(s, v))
         /\ UnsettledIn(Publish(s, v)) = UnsettledIn(s)
         /\ Publish(s, v).view = v /\ Publish(s, v).active = s.active
<1> DEFINE t == Publish(s, v)
<1>1. /\ t \in QueueStates /\ t.view = v
      /\ t.queue = s.queue /\ t.pc = s.pc /\ t.kind = s.kind
      /\ t.active = s.active /\ t.cancel = s.cancel
  BY DEF Publish, QueueStates
<1> HIDE DEF t
<1>2. Waiting(t) = Waiting(s)
  BY <1>1 DEF Waiting
<1>3. Ordered(s) => Ordered(t)
  BY <1>1, <1>2 DEF Ordered
<1>4. /\ Consistent(s) => Consistent(t)
      /\ KeysDrained(s) => KeysDrained(t)
      /\ PickedUp(s) => PickedUp(t)
      /\ UnsettledIn(t) = UnsettledIn(s)
  BY <1>1, <1>2 DEF Consistent, KeysDrained, KeyOps, PickedUp, UnsettledIn
<1> QED BY <1>1, <1>2, <1>3, <1>4 DEF t

(* Cancelling queued operations keeps the queue consistent and leaves none *)
(* of them waiting.                                                        *)
LEMMA CancelQueuedKeeps ==
  ASSUME NEW s \in QueueStates, NEW S \in SUBSET Ops
  PROVE  /\ CancelQueued(s, S) \in QueueStates
         /\ Waiting(CancelQueued(s, S)) = Waiting(s) \ S
         /\ CancelQueued(s, S).active = s.active
         /\ CancelQueued(s, S).cancel = s.cancel
         /\ Consistent(s) => Consistent(CancelQueued(s, S))
         /\ KeysDrained(s) => KeysDrained(CancelQueued(s, S))
         /\ Orderly(s) => Orderly(CancelQueued(s, S))
         /\ Consistent(s) /\ PickedUp(s) => PickedUp(CancelQueued(s, S))
<1> DEFINE gone == Waiting(s) \cap S
           c == CancelQueued(s, S)
<1>0. gone \in SUBSET Ops /\ s.view \in Views /\ s.queue \in Queues
  BY WaitingType DEF QueueStates
<1>1. /\ Without(s.queue, gone) \in Queues
      /\ DOMAIN Without(s.queue, gone) = DOMAIN s.queue \ gone
  BY <1>0, WithoutType
<1>2. OnCancelled(s.view, gone) \in Views
  BY <1>0, DropType DEF OnCancelled, Views
<1>3. c = [s EXCEPT !.queue = Without(s.queue, gone),
                    !.pc = [o \in Ops |-> IF o \in gone THEN "free" ELSE s.pc[o]],
                    !.kind = [o \in Ops |-> IF o \in gone THEN "key" ELSE s.kind[o]],
                    !.view = OnCancelled(s.view, gone)]
  BY DEF CancelQueued
<1> HIDE DEF c
<1>4. c \in QueueStates
  BY <1>1, <1>2, <1>3 DEF QueueStates, PCs, Kinds
<1>5. /\ c.queue = Without(s.queue, gone)
      /\ c.pc = [o \in Ops |-> IF o \in gone THEN "free" ELSE s.pc[o]]
      /\ c.kind = [o \in Ops |-> IF o \in gone THEN "key" ELSE s.kind[o]]
      /\ c.active = s.active /\ c.cancel = s.cancel
  BY <1>3 DEF QueueStates
<1>6. Waiting(c) = Waiting(s) \ S
  BY <1>1, <1>5 DEF Waiting
<1>7. Consistent(s) => Consistent(c)
  BY <1>5, <1>6 DEF Consistent, Running
<1>8. KeysDrained(s) => KeysDrained(c)
  BY <1>5 DEF KeysDrained, KeyOps
<1>9. Ordered(s) => Ordered(c)
  <2>1. Waiting(c) = Waiting(s) \ gone
    BY <1>6
  <2> QED BY <1>5, <2>1, OrderedSub
<1>10. ASSUME Consistent(s), PickedUp(s) PROVE PickedUp(c)
  BY <1>5, <1>6, <1>10, WaitingType DEF PickedUp, Consistent
<1>11. ASSUME Consistent(s), Told(s) PROVE Told(c)
  <2>1. c.view = OnCancelled(s.view, gone)
    BY <1>3 DEF QueueStates
  <2>2. s.view.depth \in Nat /\ s.view.current \in {NoOp, s.active}
    BY <1>0, <1>11 DEF Views, Told
  <2>3. /\ c.view.depth = Drop(s.view.depth, Cardinality(gone))
        /\ c.view.current \in {NoOp, s.view.current}
    BY <1>0, <2>1 DEF OnCancelled, Views
  <2>4. gone \in SUBSET UnsettledIn(s)
    BY <1>0, <1>11 DEF Consistent, UnsettledIn, Unsettled
  <2>5. UnsettledIn(c) = UnsettledIn(s) \ gone
    BY <1>0, <1>5 DEF UnsettledIn, Unsettled, Running
  <2>6. UnsettledIn(s) \in SUBSET Ops /\ s.view.depth <= Cardinality(UnsettledIn(s))
    BY <1>11 DEF UnsettledIn, Told
  <2>7. c.view.depth <= Cardinality(UnsettledIn(c))
    BY <2>2, <2>3, <2>4, <2>5, <2>6, DropBound
  <2> QED BY <1>5, <2>2, <2>3, <2>7 DEF Told
<1> QED BY <1>4, <1>5, <1>6, <1>7, <1>8, <1>9, <1>10, <1>11 DEF c, Orderly

(* Marking the active operation changes nothing else, and drains it when   *)
(* it was the only key operation left.                                     *)
LEMMA RequestCancelKeeps ==
  ASSUME NEW s \in QueueStates, NEW S \in SUBSET Ops
  PROVE  /\ RequestCancelActive(s, S) \in QueueStates
         /\ Consistent(s) => Consistent(RequestCancelActive(s, S))
         /\ Consistent(s) /\ KeysDrained(s)
              => KeysDrained(RequestCancelActive(s, S))
         /\ Waiting(RequestCancelActive(s, S)) = Waiting(s)
         /\ Orderly(s) => Orderly(RequestCancelActive(s, S))
         /\ PickedUp(s) => PickedUp(RequestCancelActive(s, S))
<1> DEFINE t == RequestCancelActive(s, S)
<1>1. /\ t \in QueueStates /\ t.view = s.view
      /\ t.queue = s.queue /\ t.pc = s.pc /\ t.kind = s.kind /\ t.active = s.active
      /\ t.cancel = s.cancel \/ t.cancel = s.active
  BY DEF RequestCancelActive, QueueStates
<1> HIDE DEF t
<1>2. Waiting(t) = Waiting(s) /\ (Consistent(s) => Consistent(t))
  BY <1>1 DEF Waiting, Consistent
<1>3. Consistent(s) /\ KeysDrained(s) => KeysDrained(t)
  BY <1>1 DEF Consistent, KeysDrained, KeyOps, Running
<1>4. Ordered(s) => Ordered(t)
  BY <1>1, <1>2 DEF Ordered
<1>5. (Told(s) => Told(t)) /\ (PickedUp(s) => PickedUp(t))
  BY <1>1, <1>2 DEF Told, PickedUp, UnsettledIn
<1> QED BY <1>1, <1>2, <1>3, <1>4, <1>5 DEF Orderly, t

(* When the host goes off the keys are drained, whatever was under way.    *)
LEMMA DropKeysDrains ==
  ASSUME NEW s \in QueueStates, Consistent(s)
  PROVE  /\ DropKeys(s) \in QueueStates
         /\ Consistent(DropKeys(s))
         /\ KeysDrained(DropKeys(s))
         /\ Orderly(s) => Orderly(DropKeys(s))
         /\ PickedUp(s) => PickedUp(DropKeys(s))
<1> DEFINE c == CancelQueued(s, KeyOps(s))
<1>0. KeyOps(s) \in SUBSET Ops
  BY DEF KeyOps
<1>1. /\ c \in QueueStates /\ Consistent(c) /\ Waiting(c) = Waiting(s) \ KeyOps(s)
      /\ Orderly(s) => Orderly(c)
      /\ PickedUp(s) => PickedUp(c)
  BY <1>0, CancelQueuedKeeps
<1>2. /\ c.active = s.active
      /\ \A o \in Ops : o \notin Waiting(s) => c.pc[o] = s.pc[o] /\ c.kind[o] = s.kind[o]
      /\ \A o \in Ops : o \in Waiting(s) \ KeyOps(s) => c.kind[o] = s.kind[o]
  BY DEF CancelQueued, QueueStates
<1> HIDE DEF c
<1>3. DropKeys(s) = RequestCancelActive(c, KeyOps(s))
  BY DEF DropKeys, c
<1>4. /\ DropKeys(s) \in QueueStates /\ Consistent(DropKeys(s))
      /\ Orderly(s) => Orderly(DropKeys(s))
      /\ PickedUp(s) => PickedUp(DropKeys(s))
  BY <1>0, <1>1, <1>3, RequestCancelKeeps
<1>5. /\ DropKeys(s).pc = c.pc /\ DropKeys(s).kind = c.kind
      /\ s.active \in KeyOps(s) => DropKeys(s).cancel = s.active
  BY <1>1, <1>2, <1>3 DEF RequestCancelActive, QueueStates
<1>6. ASSUME NEW o \in KeyOps(DropKeys(s))
      PROVE  /\ c.pc[o] # "queued"
             /\ c.pc[o] \in {"checked", "writing"} => DropKeys(s).cancel = o
  <2>1. o \in Ops /\ c.kind[o] = "key"
    BY <1>5, <1>6 DEF KeyOps
  <2>2. c.pc[o] # "queued"
    BY <1>1, <1>2, <2>1 DEF Consistent, KeyOps
  <2>3. ASSUME c.pc[o] \in {"checked", "writing"} PROVE DropKeys(s).cancel = o
    <3>1. o = c.active /\ o \notin Waiting(c)
      BY <1>1, <2>1, <2>3 DEF Consistent, Running
    <3>2. o = s.active /\ o \notin Waiting(s)
      <4>1. o = s.active /\ s.pc[o] \in Running
        BY <1>2, <2>1, <3>1 DEF Consistent
      <4> QED BY <4>1, <2>1 DEF Consistent, Running
    <3>3. o \in KeyOps(s)
      BY <1>2, <2>1, <3>2 DEF KeyOps
    <3> QED BY <1>5, <3>2, <3>3
  <2> QED BY <2>2, <2>3
<1>7. KeysDrained(DropKeys(s))
  BY <1>5, <1>6 DEF KeysDrained
<1> QED BY <1>4, <1>7

-----------------------------------------------------------------------------
(* Starting operations *)

(* The facts every call that may start operations keeps, and those that    *)
(* hold between the calls.                                                 *)
Sound(s, h) ==
  s \in QueueStates /\ Orderly(s) /\ (h = "off" => KeysDrained(s))

Tended(s, h) == Sound(s, h) /\ PickedUp(s)

(* What starting operation o makes of s.                                   *)
Began(s, o, t) ==
  /\ t \in QueueStates
  /\ o \in Waiting(s) /\ Waiting(t) = Waiting(s) \ {o}
  /\ t.active = o /\ t.kind = s.kind /\ t.cancel = s.cancel
  /\ t.queue = Without(s.queue, {o}) /\ t.view = OnStarted(s.view, o)
  /\ \E p \in {"failing", "cancelling", "checked"} : t.pc = [s.pc EXCEPT ![o] = p]

(* Starting the operation at the head keeps the type of the queue.         *)
LEMMA StartType ==
  ASSUME NEW s \in QueueStates, NEW ready \in BOOLEAN, NEW o \in Heads(s)
  PROVE  Began(s, o, Start(s, o, ready))
<1> DEFINE t == Start(s, o, ready)
           p == IF ~ready THEN "failing"
                ELSE IF s.cancel = o THEN "cancelling" ELSE "checked"
<1>1. o \in Ops /\ o \in Waiting(s)
  BY WaitingType DEF Heads
<1>2. s.queue \in Queues /\ s.view \in Views
  BY DEF QueueStates
<1>3. Without(s.queue, {o}) \in Queues /\ DOMAIN Without(s.queue, {o}) = Waiting(s) \ {o}
  BY <1>2, WithoutType DEF Waiting
<1>4. OnStarted(s.view, o) \in Views
  BY <1>1, <1>2, ViewType
<1>5. t = [s EXCEPT !.queue = Without(s.queue, {o}), !.active = o,
                    !.pc = [s.pc EXCEPT ![o] = p], !.view = OnStarted(s.view, o)]
  BY DEF Start
<1>6. p \in {"failing", "cancelling", "checked"}
  OBVIOUS
<1> HIDE DEF t, p
<1>7. t \in QueueStates
  BY <1>1, <1>3, <1>4, <1>5, <1>6 DEF QueueStates, PCs, Unsettled, Running
<1>8. /\ Waiting(t) = Waiting(s) \ {o} /\ t.active = o
      /\ t.pc = [s.pc EXCEPT ![o] = p] /\ t.kind = s.kind /\ t.cancel = s.cancel
      /\ t.queue = Without(s.queue, {o}) /\ t.view = OnStarted(s.view, o)
  BY <1>3, <1>5 DEF QueueStates, Waiting
<1>9. Began(s, o, t)
  BY <1>1, <1>6, <1>7, <1>8 DEF Began
<1> QED BY <1>9 DEF t

(* With no other operation active it keeps the queue sound: a key that     *)
(* starts while the host is off would have been waiting.                   *)
LEMMA StartKeeps ==
  ASSUME NEW s, NEW h, NEW ready \in BOOLEAN, NEW o \in Heads(s),
         Sound(s, h), s.active = NoOp
  PROVE  Sound(Start(s, o, ready), h)
<1> DEFINE t == Start(s, o, ready)
<1>0. s \in QueueStates
  BY DEF Sound
<1>1. Consistent(s) /\ Ordered(s) /\ Told(s)
  BY DEF Sound, Orderly
<1>2. /\ t \in QueueStates /\ o \in Waiting(s) /\ Waiting(t) = Waiting(s) \ {o}
      /\ t.active = o /\ t.kind = s.kind /\ t.cancel = s.cancel
      /\ t.queue = Without(s.queue, {o}) /\ t.view = OnStarted(s.view, o)
      /\ \E p \in {"failing", "cancelling", "checked"} :
           t.pc = [s.pc EXCEPT ![o] = p]
  <2>1. Began(s, o, t)
    BY <1>0, StartType
  <2> HIDE DEF t
  <2> QED BY <2>1 DEF Began
<1> HIDE DEF t
<1>3. PICK p \in {"failing", "cancelling", "checked"} :
        t.pc = [s.pc EXCEPT ![o] = p]
  BY <1>2
<1>4. o \in Ops
  BY <1>0, <1>2, WaitingType
<1>5. /\ s.pc \in [Ops -> PCs]
      /\ \A x \in Ops : s.pc[x] = "queued" <=> x \in Waiting(s)
      /\ \A x \in Ops : s.pc[x] \notin Running
  BY <1>0, <1>1, NoOpAssumption DEF QueueStates, Consistent
<1>6. Consistent(t)
  BY <1>2, <1>3, <1>4, <1>5 DEF Consistent, Running
<1>7. ASSUME h = "off" PROVE KeysDrained(t)
  <2>1. KeysDrained(s)
    BY <1>7 DEF Sound
  <2>2. s.kind[o] # "key"
    BY <2>1, <1>2, <1>4, <1>5 DEF KeysDrained, KeyOps
  <2> QED BY <2>1, <2>2, <1>2, <1>3, <1>4, <1>5 DEF KeysDrained, KeyOps
<1>8. Ordered(t)
  BY <1>1, <1>2, OrderedSub
<1>9. Told(t)
  <2>1. s.view \in Views
    BY <1>0 DEF QueueStates
  <2>2. t.view.depth = s.view.depth /\ t.view.current = o
    BY <1>2, <2>1 DEF OnStarted, Views
  <2>3. UnsettledIn(t) = UnsettledIn(s)
    BY <1>2, <1>3, <1>4, <1>5 DEF UnsettledIn, Unsettled, Running
  <2> QED BY <1>1, <1>2, <2>2, <2>3 DEF Told
<1> QED BY <1>2, <1>6, <1>7, <1>8, <1>9 DEF t, Sound, Orderly

(* processQueue keeps the type of the queue and keeps it sound, and leaves *)
(* nothing waiting for nobody.                                             *)
LEMMA ProcessQueueKeeps ==
  ASSUME NEW s \in QueueStates, NEW h, NEW ready \in BOOLEAN
  PROVE  /\ ProcessQueue(s, h, ready) \in QueueStates
         /\ Sound(s, h) => Tended(ProcessQueue(s, h, ready), h)
<1> DEFINE left == CancelQueued(s, Blocked(s, h))
<1>1. Blocked(s, h) \in SUBSET Ops
  BY WaitingType DEF Blocked
<1>2. /\ left \in QueueStates /\ left.active = s.active
      /\ Sound(s, h) => Sound(left, h)
  BY <1>1, CancelQueuedKeeps DEF Sound, Orderly
<1> HIDE DEF left
<1>3. CASE s.active # NoOp
  BY <1>3 DEF ProcessQueue, Tended, PickedUp
<1>4. CASE s.active = NoOp /\ Heads(left) = {}
  <2>1. ProcessQueue(s, h, ready) = left
    BY <1>4 DEF ProcessQueue, left
  <2>2. ASSUME Sound(s, h) PROVE Waiting(left) = {}
    <3>1. Ordered(left) /\ left \in QueueStates
      BY <1>2, <2>2 DEF Sound, Orderly
    <3>2. ASSUME NEW o \in Waiting(left), left.queue[o] \cap Waiting(left) = {}
          PROVE  left.queue[o] = {}
      <4>1. PICK W \in SUBSET Ops : left.queue \in [W -> SUBSET W]
        BY <3>1 DEF QueueStates, Queues
      <4> QED BY <3>2, <4>1 DEF Waiting
    <3>3. ASSUME Waiting(left) # {} PROVE FALSE
      <4>1. \E o \in Waiting(left) : left.queue[o] \cap Waiting(left) = {}
        BY <3>1, <3>3 DEF Ordered
      <4>2. PICK o \in Waiting(left) : left.queue[o] = {}
        BY <3>2, <4>1
      <4> QED BY <1>4, <4>2 DEF Heads
    <3> QED BY <3>3
  <2> QED BY <1>2, <2>1, <2>2 DEF Tended, PickedUp
<1>5. CASE s.active = NoOp /\ Heads(left) # {}
  <2> DEFINE o == CHOOSE x \in Heads(left) : TRUE
  <2>1. o \in Heads(left)
    BY <1>5
  <2>2. ProcessQueue(s, h, ready) = Start(left, o, ready)
    BY <1>5 DEF ProcessQueue, left
  <2> HIDE DEF o
  <2>3. Start(left, o, ready) \in QueueStates /\ Start(left, o, ready).active # NoOp
    <3>1. Began(left, o, Start(left, o, ready))
      BY <1>2, <2>1, StartType
    <3>2. Waiting(left) \in SUBSET Ops
      BY <1>2, WaitingType
    <3> QED BY <3>1, <3>2, NoOpAssumption DEF Began
  <2>4. Sound(s, h) => Sound(Start(left, o, ready), h)
    BY <1>2, <1>5, <2>1, StartKeeps
  <2> QED BY <2>2, <2>3, <2>4 DEF Tended, PickedUp
<1> QED BY <1>3, <1>4, <1>5

(* enqueueOperation keeps the type of the queue, and keeps it sound when   *)
(* the operation is a fresh one.                                           *)
LEMMA EnqueueKeeps ==
  ASSUME NEW s \in QueueStates, NEW h, NEW ready \in BOOLEAN,
         NEW o \in Free(s), NEW kind \in Kinds
  PROVE  /\ Enqueue(s, o, kind, h, ready) \in QueueStates
         /\ Tended(s, h) => Tended(Enqueue(s, o, kind, h, ready), h)
<1> DEFINE queued == Publish(s, OnQueued(s.view))
           line == [p \in Waiting(s) \cup {o} |->
                      IF p = o THEN Waiting(s) ELSE s.queue[p]]
           pushed == [queued EXCEPT !.queue = line, !.kind[o] = kind,
                                    !.pc[o] = "queued"]
           refused == Publish(queued, OnCancelled(queued.view, {o}))
<1>1. o \in Ops /\ s.pc[o] = "free" /\ Waiting(s) \in SUBSET Ops
  BY WaitingType DEF Free
<1>2. s.view \in Views /\ OnQueued(s.view) \in Views
  <2>1. s.view \in Views
    BY DEF QueueStates
  <2> QED BY <2>1, <1>1, ViewType
<1>3. queued \in QueueStates /\ queued.view = OnQueued(s.view)
  BY <1>2, PublishKeeps
<1>3a. /\ Consistent(s) => Consistent(queued)
       /\ KeysDrained(s) => KeysDrained(queued)
       /\ Ordered(s) => Ordered(queued)
       /\ PickedUp(s) => PickedUp(queued)
       /\ UnsettledIn(queued) = UnsettledIn(s) /\ queued.active = s.active
  BY <1>2, PublishKeeps
<1>4. refused \in QueueStates /\ (Tended(s, h) => Tended(refused, h))
  <2>1. queued.view \in Views
    BY <1>3 DEF QueueStates
  <2>2. OnCancelled(queued.view, {o}) \in Views
    BY <2>1, <1>1, ViewType
  <2>3. refused \in QueueStates /\ refused.view = OnCancelled(queued.view, {o})
    BY <2>2, <1>3, PublishKeeps
  <2>4. /\ Consistent(s) => Consistent(refused)
        /\ KeysDrained(s) => KeysDrained(refused)
        /\ Ordered(s) => Ordered(refused)
        /\ PickedUp(s) => PickedUp(refused)
        /\ UnsettledIn(refused) = UnsettledIn(s) /\ refused.active = s.active
    <3>1. /\ Consistent(queued) => Consistent(refused)
          /\ KeysDrained(queued) => KeysDrained(refused)
          /\ Ordered(queued) => Ordered(refused)
          /\ PickedUp(queued) => PickedUp(refused)
          /\ UnsettledIn(refused) = UnsettledIn(queued) /\ refused.active = queued.active
      <4> HIDE DEF queued
      <4> QED BY <1>3, <2>2, PublishKeeps
    <3> QED BY <1>3a, <3>1
  <2>5. refused.view.depth = s.view.depth /\ refused.view.current \in {NoOp, s.view.current}
    <3>1. Cardinality({o}) = 1
      BY FS_Singleton
    <3>2. s.view.depth \in Nat
      BY <1>2 DEF Views
    <3> HIDE DEF refused, queued
    <3>3. /\ queued.view.depth = s.view.depth + 1
          /\ queued.view.current = s.view.current
      BY <1>2, <1>3 DEF OnQueued, Views
    <3>4. /\ refused.view.depth = Drop(queued.view.depth, Cardinality({o}))
          /\ refused.view.current \in {NoOp, queued.view.current}
      BY <2>1, <2>3 DEF OnCancelled, Views
    <3>5. Drop(s.view.depth + 1, 1) = s.view.depth
      BY <3>2 DEF Drop
    <3> QED BY <3>1, <3>3, <3>4, <3>5
  <2>6. Told(s) => Told(refused)
    BY <2>4, <2>5 DEF Told
  <2> HIDE DEF refused
  <2> QED BY <2>3, <2>4, <2>6 DEF Tended, Sound, Orderly
<1>5. /\ queued.pc = s.pc /\ queued.kind = s.kind /\ queued.active = s.active
      /\ queued.cancel = s.cancel /\ queued.queue = s.queue
  BY DEF Publish, QueueStates
<1>6. line \in Queues /\ DOMAIN line = Waiting(s) \cup {o}
  <2>1. PICK W \in SUBSET Ops : s.queue \in [W -> SUBSET W]
    BY DEF QueueStates, Queues
  <2>2. Waiting(s) = W
    BY <2>1 DEF Waiting
  <2>3. line \in [W \cup {o} -> SUBSET (W \cup {o})]
    BY <2>1, <2>2
  <2>4. W \cup {o} \in SUBSET Ops
    BY <1>1
  <2>5. line \in Queues
    BY <2>3, <2>4 DEF Queues
  <2>6. DOMAIN line = Waiting(s) \cup {o}
    OBVIOUS
  <2> QED BY <2>5, <2>6
<1> HIDE DEF queued, line
<1>7. /\ pushed \in QueueStates
      /\ Waiting(pushed) = Waiting(s) \cup {o}
      /\ pushed.pc = [s.pc EXCEPT ![o] = "queued"]
      /\ pushed.kind = [s.kind EXCEPT ![o] = kind]
      /\ pushed.active = s.active /\ pushed.cancel = s.cancel
      /\ pushed.queue = line /\ pushed.view = OnQueued(s.view)
  BY <1>1, <1>3, <1>5, <1>6 DEF QueueStates, Waiting, PCs, Unsettled
<1>8. Enqueue(s, o, kind, h, ready) =
        IF kind = "key" /\ h = "off" THEN refused
        ELSE ProcessQueue(pushed, h, ready)
  BY DEF Enqueue, queued, line
<1> HIDE DEF pushed, refused
<1>9. ASSUME Sound(s, h), ~(kind = "key" /\ h = "off") PROVE Sound(pushed, h)
  <2>1. /\ Consistent(s) /\ Ordered(s) /\ Told(s)
        /\ s.pc \in [Ops -> PCs] /\ s.kind \in [Ops -> Kinds]
    BY <1>9 DEF Sound, Orderly, QueueStates
  <2>2. Consistent(pushed)
    BY <2>1, <1>1, <1>7 DEF Consistent, Running
  <2>3. h = "off" => KeysDrained(pushed)
    BY <2>1, <1>1, <1>7, <1>9 DEF Sound, KeysDrained, KeyOps
  <2>4. o \notin Waiting(s)
    BY <2>1, <1>1 DEF Consistent
  <2>5. Ordered(pushed)
    <3> SUFFICES ASSUME NEW W \in SUBSET Waiting(pushed), W # {}
                 PROVE  \E p \in W : pushed.queue[p] \cap W = {}
      BY DEF Ordered
    <3>1. CASE W = {o}
      <4>1. pushed.queue[o] = Waiting(s)
        BY <1>7 DEF line
      <4> QED BY <2>4, <3>1, <4>1
    <3>2. CASE W # {o}
      <4> DEFINE V == W \ {o}
      <4>1. V \in SUBSET Waiting(s) /\ V # {}
        BY <1>7, <3>2
      <4>2. PICK p \in V : s.queue[p] \cap V = {}
        BY <2>1, <4>1 DEF Ordered
      <4>3. pushed.queue[p] = s.queue[p]
        BY <1>7, <4>1, <2>4 DEF line
      <4>4. o \notin s.queue[p]
        <5>1. PICK D \in SUBSET Ops : s.queue \in [D -> SUBSET D]
          BY DEF QueueStates, Queues
        <5> QED BY <2>4, <4>1, <5>1 DEF Waiting
      <4> QED BY <4>2, <4>3, <4>4
    <3> QED BY <3>1, <3>2
  <2>6. Told(pushed)
    <3>1. UnsettledIn(pushed) = UnsettledIn(s) \cup {o} /\ o \notin UnsettledIn(s)
      BY <1>1, <1>7, <2>1 DEF UnsettledIn, Unsettled, Running
    <3>2. UnsettledIn(s) \in SUBSET Ops
      BY DEF UnsettledIn
    <3>3. Cardinality(UnsettledIn(pushed)) = Cardinality(UnsettledIn(s)) + 1
      BY <3>1, <3>2, OpsCount, FS_AddElement
    <3>4. Cardinality(UnsettledIn(s)) \in Nat
      BY <3>2, OpsCount
    <3>5. s.view.depth \in Nat
      BY <1>2 DEF Views
    <3>6. pushed.view.depth = s.view.depth + 1 /\ pushed.view.current = s.view.current
      BY <1>2, <1>7 DEF OnQueued, Views
    <3>7. s.view.depth <= Cardinality(UnsettledIn(s)) /\ s.view.current \in {NoOp, s.active}
      BY <2>1 DEF Told
    <3> QED BY <1>7, <3>3, <3>4, <3>5, <3>6, <3>7 DEF Told
  <2> QED BY <1>7, <2>2, <2>3, <2>5, <2>6 DEF Sound, Orderly
<1> QED BY <1>4, <1>7, <1>8, <1>9, ProcessQueueKeeps DEF Tended

(* Cancelling the power operations keeps the queue sound.                  *)
LEMMA CancelPowerKeeps ==
  ASSUME NEW s \in QueueStates, NEW h
  PROVE  /\ CancelPower(s) \in QueueStates
         /\ Tended(s, h) => Tended(CancelPower(s), h)
<1>1. PowerOps(s) \in SUBSET Ops
  BY DEF PowerOps
<1>2. CancelQueued(s, PowerOps(s)) \in QueueStates
  BY <1>1, CancelQueuedKeeps
<1> QED
  BY <1>1, <1>2, CancelQueuedKeeps, RequestCancelKeeps
  DEF CancelPower, Tended, Sound, Orderly

(* cancelAll keeps the queue sound.                                        *)
LEMMA CancelEverythingKeeps ==
  ASSUME NEW s \in QueueStates, NEW h
  PROVE  /\ CancelEverything(s) \in QueueStates
         /\ Tended(s, h) => Tended(CancelEverything(s), h)
<1>1. CancelQueued(s, Ops) \in QueueStates
  BY CancelQueuedKeeps
<1> QED
  BY <1>1, CancelQueuedKeeps, RequestCancelKeeps
  DEF CancelEverything, Tended, Sound, Orderly

(* Settling the running operation keeps the queue sound, and its sleep is  *)
(* one that others may wait for; v is one of the two slices it may leave.  *)
LEMMA SettleKeeps ==
  ASSUME NEW s \in QueueStates, NEW h, NEW o \in Ops,
         NEW v \in {OnEnded(s.view), OnCancelled(s.view, {o})},
         s.pc[o] \in Running
  PROVE  /\ Settle(s, o, v) \in QueueStates
         /\ Sound(s, h) => Tended(Settle(s, o, v), h)
<1> DEFINE t == Settle(s, o, v)
<1>0. s.view \in Views /\ v \in Views
  <2>1. s.view \in Views
    BY DEF QueueStates
  <2> QED BY <2>1, ViewType
<1>1. t \in QueueStates
  BY <1>0 DEF Settle, QueueStates, PCs, Kinds
<1>2. /\ Waiting(t) = Waiting(s) /\ t.pc = [s.pc EXCEPT ![o] = "pause"]
      /\ t.kind = [s.kind EXCEPT ![o] = "key"] /\ t.active = NoOp
      /\ t.cancel = IF s.cancel = o THEN NoOp ELSE s.cancel
      /\ t.queue = s.queue /\ t.view = v
      /\ s.pc \in [Ops -> PCs]
  BY DEF Settle, QueueStates, Waiting
<1> HIDE DEF t
<1>3. ASSUME Sound(s, h) PROVE Sound(t, h)
  <2>1. Consistent(s) /\ Ordered(s) /\ Told(s)
    BY <1>3 DEF Sound, Orderly
  <2>2. Consistent(t)
    BY <1>2, <2>1, NoOpAssumption DEF Consistent, Running
  <2>3. h = "off" => KeysDrained(t)
    BY <1>2, <1>3, <2>1 DEF Sound, KeysDrained, KeyOps
  <2>4. Ordered(t)
    BY <1>2, <2>1 DEF Ordered
  <2>5. Told(t)
    <3>1. UnsettledIn(t) = UnsettledIn(s) \ {o} /\ o \in UnsettledIn(s)
      BY <1>2 DEF UnsettledIn, Unsettled, Running
    <3>2. UnsettledIn(s) \in SUBSET Ops /\ s.view.depth \in Nat
      BY <1>0 DEF UnsettledIn, Views
    <3>3. s.view.depth <= Cardinality(UnsettledIn(s)) /\ s.view.current \in {NoOp, o}
      BY <2>1 DEF Told, Consistent
    <3>4. Cardinality({o}) = 1
      BY FS_Singleton
    <3>5. v.depth = Drop(s.view.depth, 1) /\ v.current = NoOp
      BY <1>0, <3>3, <3>4 DEF OnEnded, OnCancelled, Views
    <3>6. v.depth <= Cardinality(UnsettledIn(t))
      BY <3>1, <3>2, <3>3, <3>5, DropOneBound
    <3> QED BY <1>2, <3>5, <3>6 DEF Told
  <2> QED BY <1>1, <2>2, <2>3, <2>4, <2>5 DEF Sound, Orderly
<1>4. PickedUp(t)
  BY <1>2 DEF PickedUp
<1> QED BY <1>1, <1>3, <1>4 DEF t, Tended

(* So does the end of its pause.                                           *)
LEMMA WakeKeeps ==
  ASSUME NEW s \in QueueStates, NEW h, NEW o \in Ops, s.pc[o] = "pause"
  PROVE  /\ Wake(s, o) \in QueueStates
         /\ Sound(s, h) => Sound(Wake(s, o), h)
<1> DEFINE t == Wake(s, o)
<1>1. t \in QueueStates
  BY DEF Wake, QueueStates, PCs
<1>2. /\ Waiting(t) = Waiting(s) /\ t.pc = [s.pc EXCEPT ![o] = "free"]
      /\ t.kind = s.kind /\ t.active = s.active
      /\ t.cancel = s.cancel /\ t.queue = s.queue /\ t.view = s.view
      /\ s.pc \in [Ops -> PCs] /\ s.kind \in [Ops -> Kinds]
  BY DEF Wake, QueueStates, Waiting
<1> HIDE DEF t
<1>3. ASSUME Sound(s, h) PROVE Sound(t, h)
  <2>1. Consistent(s) /\ Ordered(s) /\ Told(s)
    BY <1>3 DEF Sound, Orderly
  <2>2. Consistent(t)
    BY <1>2, <2>1 DEF Consistent, Running
  <2>3. h = "off" => KeysDrained(t)
    BY <1>2, <1>3, <2>1 DEF Sound, KeysDrained, KeyOps
  <2>4. Ordered(t)
    BY <1>2, <2>1 DEF Ordered
  <2>5. UnsettledIn(t) = UnsettledIn(s)
    BY <1>2 DEF UnsettledIn, Unsettled, Running
  <2>6. Told(t)
    BY <1>2, <2>1, <2>5 DEF Told
  <2> QED BY <1>1, <2>2, <2>3, <2>4, <2>6 DEF Sound, Orderly
<1> QED BY <1>1, <1>3 DEF t

-----------------------------------------------------------------------------
(* The service *)

(* The conjuncts of TypeOK about the connection and the rest.              *)
LinkOK ==
  /\ device \in Devices \cup {NoDevice}
  /\ port \in {"none", "open", "dead"}
  /\ phase \in ViewPhases /\ identified \in BOOLEAN
  /\ power \in Powers /\ host \in Powers
  /\ opener \in Openers /\ attempt \in {1, 2} /\ token \in BOOLEAN
  /\ timer \in BOOLEAN /\ attempts \in 0..MaxAttempts
  /\ ioClosers \in 0..MaxClosers /\ lostClosers \in 0..MaxClosers
  /\ stop \in {"no", "waiting", "closing", "closed", "done"}
  /\ faults \in 0..MaxFaults

(* The inductive invariant: while stop() has not ended the queue is        *)
(* consistent and ordered, the slice shows no more than it, a runner comes *)
(* back for what waits, and a host known to be off has drained the keys.   *)
(* Consistency is what makes the drained state survive: the only operation *)
(* that can still be executing is the active one, and that one is marked.  *)
(* It is also what lets the depth shown be compared with the operations:   *)
(* the ones an event takes away are unsettled until then.                  *)
IInv ==
  /\ TypeOK
  /\ stop # "done" => Tended(q, host)
  /\ stop = "done" => host = "unknown"

(* What a step does to the queue, when host and stop stay as they are.     *)
QueueStep ==
  /\ q' \in QueueStates
  /\ Tended(q, host) => Tended(q', host)
  /\ UNCHANGED <<host, stop>>

LEMMA StepKeeps == ASSUME IInv, QueueStep, LinkOK' PROVE IInv'
BY DEF IInv, QueueStep, LinkOK, TypeOK, Tended, Sound

(* Slice v shows no more of the queue than slice w.                        *)
ShowsLess(v, w) == v.depth \in {w.depth, 0} /\ v.current \in {w.current, NoOp}

(* Publishing an event that shows no more of the queue is such a step.     *)
LEMMA PublishSound ==
  ASSUME NEW s \in QueueStates, NEW v \in Views, NEW h, ShowsLess(v, s.view)
  PROVE  /\ Publish(s, v) \in QueueStates
         /\ Publish(s, v).view = v
         /\ Tended(s, h) => Tended(Publish(s, v), h)
<1> DEFINE t == Publish(s, v)
<1>1. /\ t \in QueueStates /\ t.view = v /\ t.active = s.active
      /\ Consistent(s) => Consistent(t)
      /\ KeysDrained(s) => KeysDrained(t)
      /\ Ordered(s) => Ordered(t)
      /\ PickedUp(s) => PickedUp(t)
      /\ UnsettledIn(t) = UnsettledIn(s)
  BY PublishKeeps
<1>2. Cardinality(UnsettledIn(s)) \in Nat
  <2>1. UnsettledIn(s) \in SUBSET Ops
    BY DEF UnsettledIn
  <2> QED BY <2>1, OpsCount
<1> HIDE DEF t
<1>3. Told(s) => Told(t)
  BY <1>1, <1>2 DEF Told, ShowsLess
<1> QED BY <1>1, <1>3 DEF Tended, Sound, Orderly, t

(* The events of the connection are published so.                          *)
Kept(s, v, h) ==
  Publish(s, v) \in QueueStates /\ (Tended(s, h) => Tended(Publish(s, v), h))

LEMMA EventsKeep ==
  ASSUME NEW s \in QueueStates, NEW h
  PROVE  /\ s.view \in Views
         /\ Kept(s, OnConnecting(s.view), h)
         /\ Kept(s, OnLost(s.view), h)
         /\ Kept(s, OnFatal(s.view), h)
         /\ \A r : Kept(s, OnDisconnected(s.view, r), h)
         /\ \A r \in {"start", "success", "failed"} :
              Kept(s, OnIdentify(s.view, r), h)
<1>1. s.view \in Views
  BY DEF QueueStates
<1>2. /\ ShowsLess(OnConnecting(s.view), s.view)
      /\ ShowsLess(OnLost(s.view), s.view)
      /\ ShowsLess(OnFatal(s.view), s.view)
      /\ \A r : ShowsLess(OnDisconnected(s.view, r), s.view)
      /\ \A r : ShowsLess(OnIdentify(s.view, r), s.view)
  BY <1>1 DEF ShowsLess, OnConnecting, OnLost, OnFatal, OnDisconnected, OnIdentify, Views
<1> QED BY <1>1, <1>2, ViewType, PublishSound DEF Kept

(* scheduleReconnect is such a step, and bounds the attempts.              *)
LEMMA ScheduleReconnectKeeps ==
  ASSUME NEW s \in QueueStates, LinkOK, ScheduleReconnect(s)
  PROVE  /\ timer' \in BOOLEAN /\ attempts' \in 0..MaxAttempts
         /\ q' \in QueueStates
         /\ Tended(s, host) => Tended(q', host)
<1>1. timer' \in BOOLEAN /\ attempts' \in 0..MaxAttempts
  <2>1. timer \in BOOLEAN /\ attempts \in 0..MaxAttempts /\ MaxAttempts \in Nat
    BY ConfigAssumption DEF LinkOK
  <2>2. timer' = timer \/ timer' = ~Exhausted
    BY DEF ScheduleReconnect
  <2>3. attempts' = attempts \/ (~Exhausted /\ MaxAttempts > 0 /\ attempts' = attempts + 1)
    BY DEF ScheduleReconnect
  <2>4. attempts' \in 0..MaxAttempts
    BY <2>1, <2>3 DEF Exhausted
  <2> QED BY <2>1, <2>2, <2>4
<1>2. q' = s \/ q' = Publish(s, OnFatal(s.view))
  BY DEF ScheduleReconnect
<1> QED BY <1>1, <1>2, EventsKeep DEF Kept

(* Mirroring the host power keeps the queue sound.                         *)
LEMMA MirrorKeeps ==
  ASSUME NEW s \in QueueStates, NEW p \in Powers, NEW ready \in BOOLEAN,
         MirrorHostPower(s, p, ready)
  PROVE  q' \in QueueStates /\ (Tended(s, p) => Tended(q', p))
<1>1. CASE q' = s
  BY <1>1
<1>2. CASE \E o \in Free(CancelPower(s)) :
             q' = Enqueue(CancelPower(s), o, PowerKind(p), p, ready)
  <2>1. PICK o \in Free(CancelPower(s)) :
          q' = Enqueue(CancelPower(s), o, PowerKind(p), p, ready)
    BY <1>2
  <2>2. PowerKind(p) \in Kinds
    BY DEF PowerKind, Kinds, PowerKinds
  <2> QED BY <2>1, <2>2, CancelPowerKeeps, EnqueueKeeps
<1> QED BY <1>1, <1>2 DEF MirrorHostPower

-----------------------------------------------------------------------------
(* Steps of the connection *)

LEMMA ConnectionKeeps == ASSUME IInv, Connection PROVE IInv'
<1> USE DEF IInv
<1>1. q \in QueueStates /\ LinkOK
  BY DEF TypeOK, LinkOK
<1>2. CASE PreCloseDone
  <2>1. QueueStep
    BY <1>1, <1>2, EventsKeep DEF PreCloseDone, QueueStep, Kept, BeginOpening
  <2>2. LinkOK'
    BY <1>1, <1>2 DEF PreCloseDone, BeginOpening, LinkOK, Openers, ViewPhases,
       Powers, retry, closers
  <2> QED BY <2>1, <2>2, StepKeeps
<1>3. CASE OpenFails
  <2>1. QueueStep /\ timer' \in BOOLEAN /\ attempts' \in 0..MaxAttempts
    BY <1>1, <1>3, ScheduleReconnectKeeps DEF OpenFails, QueueStep
  <2>2. LinkOK'
    BY <1>1, <1>3, <2>1, ConfigAssumption
    DEF OpenFails, LinkOK, Openers, ViewPhases, Fault, closers
  <2> QED BY <2>1, <2>2, StepKeeps
<1>4. CASE OpenSucceeds
  <2>1. QueueStep
    <3> DEFINE c == Publish(q, OnConnecting(q.view))
               v == OnIdentify(OnConnecting(q.view), "start")
    <3>1. OnConnecting(q.view) \in Views
      BY <1>1, EventsKeep, ViewType
    <3>2. v \in Views
      BY <3>1, ViewType
    <3>3. ShowsLess(v, q.view)
      BY <1>1 DEF QueueStates, Views, ShowsLess, OnConnecting, OnIdentify
    <3>4. Publish(q, v) \in QueueStates /\ (Tended(q, host) => Tended(Publish(q, v), host))
      BY <1>1, <3>2, <3>3, PublishSound
    <3> QED BY <1>1, <1>4, <3>4 DEF OpenSucceeds, QueueStep
  <2>2. LinkOK'
    <3>1. opener' \in {"stopClose", "writeRequest", "failing"}
      BY <1>4 DEF OpenSucceeds
    <3>2. /\ port' = port \/ port' = "open"
          /\ phase' = phase \/ phase' = "identifying"
          /\ attempts' = attempts \/ attempts' = 0
          /\ attempt' = attempt \/ attempt' = 1
      BY <1>4 DEF OpenSucceeds
    <3> QED BY <1>1, <1>4, <3>1, <3>2, ConfigAssumption
        DEF OpenSucceeds, LinkOK, Openers, ViewPhases, closers
  <2> QED BY <2>1, <2>2, StepKeeps
<1>5. CASE StopCloseDone \/ RequestWritten \/ IdentifyWriteFails \/ EarlyToken
           \/ TokenRead \/ TokenTimeout
  <2>1. QueueStep
    BY <1>1, <1>5 DEF QueueStep, StopCloseDone, RequestWritten,
       IdentifyWriteFails, EarlyToken, TokenRead, TokenTimeout
  <2>2. /\ UNCHANGED <<device, port, phase, identified, power, host, retry,
                       closers, stop>>
        /\ opener' \in Openers
        /\ attempt' \in {1, 2}
        /\ token' \in BOOLEAN
        /\ faults' = faults \/ (faults < MaxFaults /\ faults' = faults + 1)
    <3>1. CASE StopCloseDone \/ RequestWritten \/ EarlyToken
      BY <1>1, <3>1 DEF StopCloseDone, RequestWritten, EarlyToken, Openers, LinkOK
    <3>2. CASE IdentifyWriteFails
      BY <1>1, <3>2 DEF IdentifyWriteFails, FaultIfOpen, Fault, Openers, LinkOK
    <3>3. CASE TokenRead
      BY <1>1, <3>3 DEF TokenRead, Openers, LinkOK
    <3>4. CASE TokenTimeout
      BY <1>1, <3>4 DEF TokenTimeout, FaultIfOpen, Fault, Openers, LinkOK
    <3> QED BY <1>5, <3>1, <3>2, <3>3, <3>4
  <2>3. LinkOK'
    BY <1>1, <2>2, ConfigAssumption
    DEF LinkOK, Openers, ViewPhases, Powers, retry, closers
  <2> QED BY <2>1, <2>3, StepKeeps
<1>6. CASE Identified
  <2>1. QueueStep
    <3>1. PICK s \in {Publish(q, OnIdentify(q.view, "success"))} :
            MirrorHostPower(s, host, port = "open")
      BY <1>6 DEF Identified
    <3>2. s \in QueueStates /\ (Tended(q, host) => Tended(s, host))
      BY <1>1, <3>1, EventsKeep DEF Kept
    <3>3. host \in Powers /\ (port = "open") \in BOOLEAN
      BY <1>1 DEF LinkOK
    <3> QED BY <3>1, <3>2, <3>3, MirrorKeeps, <1>6 DEF QueueStep, Identified
  <2>2. LinkOK'
    BY <1>1, <1>6 DEF Identified, LinkOK, Openers, ViewPhases, retry, closers
  <2> QED BY <2>1, <2>2, StepKeeps
<1>7. CASE IdentifyFails
  <2>1. QueueStep /\ timer' \in BOOLEAN /\ attempts' \in 0..MaxAttempts
    <3> DEFINE f == Publish(q, OnIdentify(q.view, "failed"))
               d == Publish(f, OnDisconnected(f.view, "unknown"))
    <3>1. f \in QueueStates /\ (Tended(q, host) => Tended(f, host))
      BY <1>1, EventsKeep DEF Kept
    <3>2. d \in QueueStates /\ (Tended(f, host) => Tended(d, host))
      BY <3>1, EventsKeep DEF Kept
    <3> HIDE DEF f, d
    <3>3. CASE q' = f /\ UNCHANGED retry
      BY <1>1, <1>7, <3>1, <3>3 DEF IdentifyFails, QueueStep, LinkOK, retry
    <3>4. CASE ScheduleReconnect(d) \/ ScheduleReconnect(f)
      BY <1>1, <1>7, <3>1, <3>2, <3>4, ScheduleReconnectKeeps
      DEF IdentifyFails, QueueStep
    <3> QED BY <1>7, <3>3, <3>4 DEF IdentifyFails, f, d
  <2>2. LinkOK'
    BY <1>1, <1>7, <2>1
    DEF IdentifyFails, ClosePort, LinkOK, Openers, ViewPhases, Powers, closers
  <2> QED BY <2>1, <2>2, StepKeeps
<1>8. CASE FailCloseDone \/ IoCloseDone
  <2>1. QueueStep /\ timer' \in BOOLEAN /\ attempts' \in 0..MaxAttempts
    <3>1. PICK r : ScheduleReconnect(Publish(q, OnDisconnected(q.view, r)))
      BY <1>8 DEF FailCloseDone, IoCloseDone
    <3> DEFINE s == Publish(q, OnDisconnected(q.view, r))
    <3>2. s \in QueueStates /\ (Tended(q, host) => Tended(s, host))
      BY <1>1, EventsKeep DEF Kept
    <3> HIDE DEF s
    <3> QED BY <1>1, <1>8, <3>1, <3>2, ScheduleReconnectKeeps
        DEF s, FailCloseDone, IoCloseDone, QueueStep
  <2>2. LinkOK'
    BY <1>1, <1>8, <2>1, ConfigAssumption
    DEF FailCloseDone, IoCloseDone, LinkOK, Openers, link, closers
  <2> QED BY <2>1, <2>2, StepKeeps
<1>9. CASE PortError \/ Unplug
  <2>1. QueueStep
    BY <1>1, <1>9 DEF QueueStep, PortError, Unplug
  <2>2. LinkOK'
    <3>1. CASE Unplug
      BY <1>1, <3>1, ConfigAssumption DEF LinkOK, Unplug, Fault, retry, closers
    <3>2. CASE PortError
      <4>1. /\ UNCHANGED <<device, host, retry, lostClosers, stop>> /\ attempt' = 1
            /\ port' = "none" /\ phase' = "disconnected" /\ identified' = FALSE
            /\ power' = "unknown" /\ token' = FALSE
            /\ opener' = "failing" \/ opener' = opener
            /\ faults < MaxFaults /\ faults' = faults + 1
            /\ ioClosers + lostClosers < MaxClosers /\ ioClosers' = ioClosers + 1
        BY <3>2 DEF PortError, ClosePort, FailWaiters, Fault
      <4>2. timer' \in BOOLEAN /\ attempts' = attempts
        BY <1>1, <4>1 DEF LinkOK, retry
      <4>3. opener' \in Openers
        BY <1>1, <4>1 DEF LinkOK, Openers
      <4>4. ioClosers' \in 0..MaxClosers /\ faults' \in 0..MaxFaults
        BY <1>1, <4>1, ConfigAssumption DEF LinkOK
      <4> QED BY <1>1, <4>1, <4>2, <4>3, <4>4 DEF LinkOK, ViewPhases, Powers
    <3> QED BY <1>9, <3>1, <3>2
  <2> QED BY <2>1, <2>2, StepKeeps
<1>10. CASE PortCloseEvent
  <2>1. QueueStep /\ timer' \in BOOLEAN /\ attempts' \in 0..MaxAttempts
    <3> DEFINE s == Publish(q, OnDisconnected(q.view, "io-error"))
    <3>1. s \in QueueStates /\ (Tended(q, host) => Tended(s, host))
      BY <1>1, EventsKeep DEF Kept
    <3> HIDE DEF s
    <3> QED BY <1>1, <1>10, <3>1, ScheduleReconnectKeeps
        DEF s, PortCloseEvent, QueueStep
  <2>2. LinkOK'
    BY <1>1, <1>10, <2>1
    DEF PortCloseEvent, LinkOK, Openers, ViewPhases, Powers, ClosePort,
        FailWaiters, closers
  <2> QED BY <2>1, <2>2, StepKeeps
<1>11. CASE TimerFires
  <2>1. QueueStep
    BY <1>1, <1>11 DEF QueueStep, TimerFires
  <2>2. LinkOK'
    <3>1. CASE UNCHANGED link
      <4>1. timer' \in BOOLEAN
        BY <1>1, <1>11 DEF TimerFires, OpenPort, LinkOK
      <4> QED BY <1>1, <1>11, <3>1, <4>1
          DEF LinkOK, Openers, ViewPhases, Powers, TimerFires, link, closers
    <3>2. CASE OpenPort /\ opener = "idle"
      <4>1. /\ timer' = FALSE
            /\ port' = port \/ port' = "none"
            /\ phase' \in {"disconnected", "connecting"} /\ identified' = FALSE
            /\ power' = "unknown" /\ token' = FALSE /\ attempt' \in {1, 2}
            /\ opener' \in {"preClose", "opening"}
        BY <1>1, <3>2 DEF OpenPort, ClosePort, BeginOpening, LinkOK
      <4> QED BY <1>1, <1>11, <4>1
          DEF LinkOK, TimerFires, Openers, ViewPhases, Powers, closers
    <3> QED BY <1>11, <3>1, <3>2 DEF TimerFires
  <2> QED BY <2>1, <2>2, StepKeeps
<1>12. CASE LostCloseDone
  <2>1. QueueStep
    BY <1>1, <1>12, EventsKeep DEF QueueStep, LostCloseDone, Kept
  <2>2. LinkOK'
    BY <1>1, <1>12, ConfigAssumption DEF LinkOK, LostCloseDone, link, retry
  <2> QED BY <2>1, <2>2, StepKeeps
<1> QED
  BY <1>2, <1>3, <1>4, <1>5, <1>6, <1>7, <1>8, <1>9, <1>10, <1>11, <1>12
  DEF Connection

-----------------------------------------------------------------------------
(* Steps of discovery, of callers and of the runner *)

LEMMA DiscoveryKeeps == ASSUME IInv, Discovery PROVE IInv'
<1> USE DEF IInv
<1>1. q \in QueueStates /\ LinkOK
  BY DEF TypeOK, LinkOK
<1>2. PICK d \in Devices : onDeviceIdentified(d) \/ onDeviceLost(d)
  BY DEF Discovery
<1>3. CASE onDeviceIdentified(d)
  <2>1. QueueStep
    BY <1>1, <1>3, EventsKeep DEF onDeviceIdentified, QueueStep, Kept
  <2>2. LinkOK'
    <3>1. CASE UNCHANGED <<link, timer>>
      BY <1>1, <1>3, <3>1
      DEF LinkOK, Openers, ViewPhases, Powers, onDeviceIdentified, link, closers
    <3>2. CASE OpenPort
      <4>1. /\ timer' \in BOOLEAN
            /\ port' = port \/ port' = "none"
            /\ phase' = phase \/ phase' \in {"disconnected", "connecting"}
            /\ identified' \in BOOLEAN
            /\ power' = "unknown" \/ power' = power
            /\ token' \in BOOLEAN
            /\ attempt' \in {1, 2}
            /\ opener' \in {"preClose", "opening"} \/ opener' = opener
        BY <1>1, <3>2 DEF OpenPort, ClosePort, BeginOpening, link, LinkOK
      <4> QED BY <1>1, <1>3, <4>1
          DEF LinkOK, onDeviceIdentified, Openers, ViewPhases, Powers, closers
    <3> QED BY <1>3, <3>1, <3>2 DEF onDeviceIdentified
  <2> QED BY <2>1, <2>2, StepKeeps
<1>4. CASE onDeviceLost(d)
  <2>1. QueueStep
    BY <1>1, <1>4, EventsKeep DEF onDeviceLost, QueueStep, Kept
  <2>2. /\ port' = "none" /\ phase' = "disconnected" /\ identified' = FALSE
        /\ power' = "unknown" /\ token' = FALSE /\ attempt' \in {1, 2}
        /\ opener' = "failing" \/ opener' = opener
        /\ timer' = FALSE
        /\ device' = device \/ device' = NoDevice
        /\ \/ lostClosers' = lostClosers
           \/ /\ ioClosers + lostClosers < MaxClosers
              /\ lostClosers' = lostClosers + 1
        /\ UNCHANGED <<attempts, host, ioClosers, stop, faults>>
    BY <1>4 DEF onDeviceLost, ClosePort, FailWaiters
  <2>3. LinkOK'
    <3>1. opener' \in Openers
      BY <1>1, <2>2 DEF LinkOK, Openers
    <3>2. lostClosers' \in 0..MaxClosers
      BY <1>1, <2>2, ConfigAssumption DEF LinkOK
    <3> QED BY <1>1, <2>2, <3>1, <3>2 DEF LinkOK, ViewPhases, Powers
  <2> QED BY <2>1, <2>3, StepKeeps
<1> QED BY <1>2, <1>3, <1>4

LEMMA RequestsKeep == ASSUME IInv, Requests PROVE IInv'
<1> USE DEF IInv
<1>1. q \in QueueStates /\ LinkOK /\ Ready \in BOOLEAN
  BY DEF TypeOK, LinkOK, Ready
<1>2. CASE \E o \in Ops : enqueueKeyEvent(o)
  <2>1. PICK o \in Ops : enqueueKeyEvent(o)
    BY <1>2
  <2>2. QueueStep
    BY <1>1, <2>1, EnqueueKeeps DEF enqueueKeyEvent, QueueStep, Kinds
  <2>3. LinkOK'
    BY <1>1, <2>1
    DEF enqueueKeyEvent, LinkOK, Openers, ViewPhases, Powers, link, retry, closers
  <2> QED BY <2>2, <2>3, StepKeeps
<1>3. CASE cancelAll
  <2>1. QueueStep
    BY <1>1, <1>3, CancelEverythingKeeps DEF cancelAll, QueueStep
  <2>2. LinkOK'
    BY <1>1, <1>3
    DEF cancelAll, LinkOK, Openers, ViewPhases, Powers, link, retry, closers
  <2> QED BY <2>1, <2>2, StepKeeps
<1>4. CASE \E p \in Powers : setHostPower(p)
  <2>1. PICK p \in Powers : setHostPower(p)
    BY <1>4
  <2> DEFINE s == IF p = "off" THEN DropKeys(q) ELSE q
  <2>2. /\ Orderly(q) /\ Consistent(q) /\ PickedUp(q)
        /\ stop # "done" /\ stop' = stop /\ host' = p
    BY <2>1 DEF setHostPower, Tended, Sound, Orderly
  <2>3. s \in QueueStates /\ Tended(s, p)
    <3>1. CASE p = "off"
      BY <1>1, <2>2, <3>1, DropKeysDrains DEF Tended, Sound
    <3>2. CASE p # "off"
      BY <1>1, <2>2, <3>2 DEF Tended, Sound
    <3> QED BY <3>1, <3>2
  <2>4. MirrorHostPower(s, p, Ready)
    BY <2>1 DEF setHostPower
  <2> HIDE DEF s
  <2>5. q' \in QueueStates /\ Tended(q', p)
    BY <1>1, <2>3, <2>4, MirrorKeeps
  <2>6. LinkOK'
    BY <1>1, <2>1
    DEF setHostPower, LinkOK, Openers, ViewPhases, Powers, link, retry, closers
  <2> QED BY <2>2, <2>5, <2>6 DEF LinkOK, TypeOK
<1> QED BY <1>2, <1>3, <1>4 DEF Requests

(* An operation in execution moves on to another pc of its execution; a    *)
(* key only starts to be written while the host is not off.                *)
LEMMA AdvanceKeeps ==
  ASSUME NEW s \in QueueStates, NEW h, NEW o \in Ops, NEW p \in Running,
         s.pc[o] \in Running,
         p \in {"checked", "writing"} /\ s.kind[o] = "key" => h # "off"
  PROVE  LET t == [s EXCEPT !.pc[o] = p]
         IN  t \in QueueStates /\ (Tended(s, h) => Tended(t, h))
<1> DEFINE t == [s EXCEPT !.pc[o] = p]
<1>1. t \in QueueStates
  BY DEF QueueStates, PCs, Unsettled
<1>2. /\ t.pc = [s.pc EXCEPT ![o] = p] /\ t.kind = s.kind
      /\ t.active = s.active /\ t.cancel = s.cancel
      /\ t.queue = s.queue /\ t.view = s.view
      /\ Waiting(t) = Waiting(s) /\ s.pc \in [Ops -> PCs]
  BY DEF QueueStates, Waiting
<1> HIDE DEF t
<1>3. Consistent(s) => Consistent(t)
  BY <1>2 DEF Consistent, Running
<1>4. KeysDrained(s) /\ h = "off" => KeysDrained(t)
  BY <1>2 DEF KeysDrained, KeyOps, Running
<1>5. Ordered(s) => Ordered(t)
  BY <1>2 DEF Ordered
<1>6. UnsettledIn(t) = UnsettledIn(s)
  BY <1>2 DEF UnsettledIn, Unsettled, Running
<1>7. (Told(s) => Told(t)) /\ (PickedUp(s) => PickedUp(t))
  BY <1>2, <1>6 DEF Told, PickedUp, Running
<1> QED BY <1>1, <1>3, <1>4, <1>5, <1>7 DEF Tended, Sound, Orderly, t

LEMMA RunnerKeeps ==
  ASSUME IInv, NEW o \in Ops, Runner(o) PROVE IInv'
<1> USE DEF IInv
<1>1. q \in QueueStates /\ LinkOK /\ Ready \in BOOLEAN
  BY DEF TypeOK, LinkOK, Ready
<1>2. CASE Write(o)
  <2>1. PICK p \in {"cancelling", "writing", "failing"} :
          /\ q' = [q EXCEPT !.pc[o] = p]
          /\ p = "writing" /\ q.kind[o] = "key" => host # "off"
    BY <1>2 DEF Write
  <2>2. p \in Running /\ q.pc[o] \in Running
    BY <1>2 DEF Write, Running
  <2>3. QueueStep
    BY <1>1, <1>2, <2>1, <2>2, AdvanceKeeps DEF Write, QueueStep
  <2>4. LinkOK'
    BY <1>1, <1>2
    DEF Write, LinkOK, Openers, ViewPhases, Powers, link, retry, closers
  <2> QED BY <2>3, <2>4, StepKeeps
<1>3. CASE Completed(o)
  <2>1. q.pc[o] \in Running
    BY <1>1, <1>3 DEF Completed, Running
  <2>2. QueueStep
    BY <1>1, <1>3, <2>1, SettleKeeps DEF Completed, QueueStep, Tended
  <2>3. power' \in Powers
    BY <1>1, <1>3 DEF Completed, QueueStates, Kinds, PowerKinds, LinkOK, Powers
  <2>4. LinkOK'
    <3>1. UNCHANGED <<device, port, phase, identified, opener, attempt, token,
                      host, timer, attempts, ioClosers, lostClosers, stop, faults>>
      BY <1>3 DEF Completed, retry, closers
    <3> QED BY <1>1, <2>3, <3>1 DEF LinkOK
  <2> QED BY <2>2, <2>4, StepKeeps
<1>4. CASE WriteFails(o)
  <2>1. "failing" \in Running /\ q.pc[o] \in Running
    BY <1>4 DEF WriteFails, Running
  <2>2. QueueStep
    BY <1>1, <1>4, <2>1, AdvanceKeeps DEF WriteFails, QueueStep
  <2>3. faults' = faults \/ (faults < MaxFaults /\ faults' = faults + 1)
    BY <1>4 DEF WriteFails, FaultIfOpen, Fault
  <2>4. LinkOK'
    BY <1>1, <1>4, <2>3, ConfigAssumption
    DEF WriteFails, LinkOK, Openers, ViewPhases, Powers, link, retry, closers
  <2> QED BY <2>2, <2>4, StepKeeps
<1>5. CASE Failed(o)
  <2>1. q.pc[o] \in Running
    BY <1>1, <1>5 DEF Failed, Running
  <2>2. QueueStep
    BY <1>1, <1>5, <2>1, SettleKeeps DEF Failed, QueueStep, Tended
  <2>3. LinkOK'
    BY <1>1, <1>5
    DEF Failed, LinkOK, Openers, ViewPhases, Powers, link, retry, closers
  <2> QED BY <2>2, <2>3, StepKeeps
<1>6. CASE Cancelled(o)
  <2>1. q.pc[o] \in Running
    BY <1>1, <1>6 DEF Cancelled, Running
  <2>2. QueueStep
    BY <1>1, <1>6, <2>1, SettleKeeps DEF Cancelled, QueueStep, Tended
  <2>3. LinkOK'
    BY <1>1, <1>6
    DEF Cancelled, LinkOK, Openers, ViewPhases, Powers, link, retry, closers
  <2> QED BY <2>2, <2>3, StepKeeps
<1>7. CASE WakeUp(o)
  <2>1. QueueStep
    <3>1. Wake(q, o) \in QueueStates /\ (Tended(q, host) => Sound(Wake(q, o), host))
      BY <1>1, <1>7, WakeKeeps DEF WakeUp, Tended
    <3>2. q' = ProcessQueue(Wake(q, o), host, Ready)
      BY <1>7 DEF WakeUp
    <3> QED BY <1>1, <1>7, <3>1, <3>2, ProcessQueueKeeps DEF WakeUp, QueueStep
  <2>2. LinkOK'
    BY <1>1, <1>7
    DEF WakeUp, LinkOK, Openers, ViewPhases, Powers, link, retry, closers
  <2> QED BY <2>1, <2>2, StepKeeps
<1> QED BY <1>2, <1>3, <1>4, <1>5, <1>6, <1>7 DEF Runner

(* stop() keeps the invariant; its end forgets the queue and the host.     *)
LEMMA StopKeeps == ASSUME IInv, Stop PROVE IInv'
<1> USE DEF IInv
<1>1. q \in QueueStates /\ LinkOK
  BY DEF TypeOK, LinkOK
<1>2. \A r : Kept(q, OnDisconnected(q.view, r), host)
  BY <1>1, EventsKeep
<1>3. CASE StopBegin \/ StopClose \/ StopClosed
  <2>1. q' \in QueueStates /\ (Tended(q, host) => Tended(q', host))
    BY <1>1, <1>2, <1>3, CancelEverythingKeeps DEF StopBegin, StopClose, StopClosed, Kept
  <2>2. LinkOK' /\ stop # "done" /\ stop' # "done" /\ host' = host
    BY <1>1, <1>3
    DEF StopBegin, StopClose, StopClosed, ClosePort, LinkOK, Openers,
        ViewPhases, Powers, link, retry, closers
  <2> QED BY <2>1, <2>2 DEF LinkOK, TypeOK
<1>4. CASE StopFinish
  <2>1. q' \in QueueStates
    <3>1. EmptyQueue \in Queues
      BY DEF EmptyQueue, Queues
    <3> QED BY <1>1, <1>4, <3>1 DEF StopFinish, Reset, QueueStates, PCs, Unsettled
  <2>2. LinkOK'
    BY <1>1, <1>4
    DEF StopFinish, LinkOK, Openers, ViewPhases, Powers, retry, closers
  <2> QED BY <1>4, <2>1, <2>2 DEF StopFinish, LinkOK, TypeOK
<1> QED BY <1>3, <1>4 DEF Stop

(* The invariant holds initially.                                          *)
LEMMA InitSound == Init => IInv
<1> SUFFICES ASSUME Init PROVE IInv
  OBVIOUS
<1>1. InitialView \in Views /\ EmptyQueue \in Queues
  <2>1. InitialView \in Views
    BY DEF InitialView, Views, ViewPhases
  <2>2. EmptyQueue \in [{} -> SUBSET {}]
    BY DEF EmptyQueue
  <2> QED BY <2>1, <2>2 DEF Queues
<1>2. q \in QueueStates
  BY <1>1 DEF Init, InitialQueue, QueueStates, Kinds, PCs
<1>3. Consistent(q)
  BY NoOpAssumption
  DEF Init, InitialQueue, EmptyQueue, Consistent, Waiting, Running
<1>5. Ordered(q) /\ PickedUp(q)
  BY DEF Init, InitialQueue, EmptyQueue, Ordered, PickedUp, Waiting
<1>6. Told(q)
  <2>1. UnsettledIn(q) \in SUBSET Ops
    BY DEF UnsettledIn
  <2>2. Cardinality(UnsettledIn(q)) \in Nat
    BY <2>1, OpsCount
  <2> QED BY <2>2 DEF Init, InitialQueue, InitialView, Told
<1>4. TypeOK
  <2>1. /\ identified \in BOOLEAN /\ token \in BOOLEAN /\ timer \in BOOLEAN
        /\ device = NoDevice
    BY DEF Init
  <2>2. /\ port = "none" /\ phase \in ViewPhases /\ power \in Powers
        /\ host \in Powers /\ opener \in Openers /\ attempt = 1 /\ stop = "no"
    BY DEF Init, ViewPhases, Powers, Openers
  <2>3. /\ attempts \in 0..MaxAttempts /\ faults \in 0..MaxFaults
        /\ ioClosers \in 0..MaxClosers /\ lostClosers \in 0..MaxClosers
    BY ConfigAssumption DEF Init
  <2> QED BY <1>2, <2>1, <2>2, <2>3 DEF TypeOK
<1> QED BY <1>2, <1>3, <1>4, <1>5, <1>6 DEF IInv, Tended, Sound, Orderly, Init

LEMMA Invariance == Spec => []IInv
<1>1. IInv /\ [Next]_vars => IInv'
  <2> SUFFICES ASSUME IInv, [Next]_vars PROVE IInv'
    OBVIOUS
  <2>1. CASE UNCHANGED vars
    BY <2>1 DEF IInv, TypeOK, vars, link, retry, closers
  <2>2. CASE Halted
    BY <2>2 DEF Halted, IInv, TypeOK, vars, link, retry, closers
  <2> QED
    BY <2>1, <2>2, ConnectionKeeps, DiscoveryKeeps, RequestsKeep, RunnerKeeps,
       StopKeeps DEF Next
<1> QED BY InitSound, <1>1, PTL DEF Spec

-----------------------------------------------------------------------------
(* The connection: reconnects, and the phase the browser is shown *)

Closers == ioClosers + lostClosers

(* A connection that stop() overtook is only ever closed by it; the        *)
(* completion is written to a port that is gone only while its closing is  *)
(* under way, or the device is lost too.                                   *)
OpenerSound ==
  /\ opener = "stopClose" => Stopping
  /\ opener = "writeCompletion" /\ port = "none" /\ ~Stopping =>
       device = NoDevice \/ Closers > 0

(* Without a port something is under way that ends in a reconnect.         *)
Reconnecting ==
  port = "none" /\ device # NoDevice /\ ReconnectEnabled /\ ~Stopping =>
    timer \/ Exhausted \/ opener # "idle" \/ Closers > 0

(* A keyboard shown to be ready is ready, or an event is under way that    *)
(* will show otherwise.                                                    *)
ShownReady ==
  q.view.phase = "ready" /\ ~Stopping =>
    \/ Closers > 0 \/ opener = "preClose" \/ port = "dead"
    \/ opener = "idle" /\ phase = "ready" /\ (port = "open" \/ device = NoDevice)

ConnectionInv == OpenerSound /\ Reconnecting /\ ShownReady

(* What each event shows, and that no call of the queue shows a phase.     *)
LEMMA EventPhases ==
  ASSUME NEW s \in QueueStates
  PROVE  /\ Publish(s, OnConnecting(s.view)).view.phase = "connecting"
         /\ Publish(s, OnLost(s.view)).view.phase # "ready"
         /\ Publish(s, OnFatal(s.view)).view.phase = "error"
         /\ \A r : Publish(s, OnDisconnected(s.view, r)).view.phase # "ready"
         /\ Publish(s, OnIdentify(s.view, "failed")).view.phase = "error"
<1>1. s.view \in Views
  BY DEF QueueStates
<1>2. \A v : Publish(s, v).view = v
  BY DEF Publish, QueueStates
<1> QED
  BY <1>1, <1>2
  DEF OnConnecting, OnLost, OnFatal, OnDisconnected, OnIdentify, Views

LEMMA CancelPhases ==
  ASSUME NEW s \in QueueStates, NEW S
  PROVE  /\ CancelQueued(s, S).view.phase = s.view.phase
         /\ RequestCancelActive(s, S).view.phase = s.view.phase
<1>1. s.view \in Views
  BY DEF QueueStates
<1>2. \A G : OnCancelled(s.view, G).phase = s.view.phase
  BY <1>1 DEF OnCancelled, Views
<1>3. \E G : CancelQueued(s, S).view = OnCancelled(s.view, G)
  BY DEF CancelQueued, QueueStates
<1>4. RequestCancelActive(s, S).view = s.view
  BY DEF RequestCancelActive, QueueStates
<1> QED BY <1>2, <1>3, <1>4

LEMMA ProcessQueuePhase ==
  ASSUME NEW s \in QueueStates, NEW h, NEW ready
  PROVE  ProcessQueue(s, h, ready).view.phase = s.view.phase
<1> DEFINE left == CancelQueued(s, Blocked(s, h))
<1>1. Blocked(s, h) \in SUBSET Ops
  BY WaitingType DEF Blocked
<1>2. left \in QueueStates /\ left.view.phase = s.view.phase
  BY <1>1, CancelQueuedKeeps, CancelPhases
<1> HIDE DEF left
<1>3. left.view \in Views
  BY <1>2 DEF QueueStates
<1>4. ASSUME NEW o PROVE Start(left, o, ready).view.phase = left.view.phase
  BY <1>2, <1>3 DEF Start, QueueStates, OnStarted, Views
<1>5. \/ ProcessQueue(s, h, ready) = s
      \/ ProcessQueue(s, h, ready) = left
      \/ \E o : ProcessQueue(s, h, ready) = Start(left, o, ready)
  BY DEF ProcessQueue, left
<1> QED BY <1>2, <1>4, <1>5

LEMMA EnqueuePhase ==
  ASSUME NEW s \in QueueStates, NEW h, NEW ready, NEW o \in Free(s),
         NEW kind \in Kinds
  PROVE  Enqueue(s, o, kind, h, ready).view.phase = s.view.phase
<1> DEFINE queued == Publish(s, OnQueued(s.view))
           line == [p \in Waiting(s) \cup {o} |->
                      IF p = o THEN Waiting(s) ELSE s.queue[p]]
           pushed == [queued EXCEPT !.queue = line, !.kind[o] = kind,
                                    !.pc[o] = "queued"]
           refused == Publish(queued, OnCancelled(queued.view, {o}))
<1>1. s.view \in Views /\ OnQueued(s.view) \in Views
  <2>1. s.view \in Views
    BY DEF QueueStates
  <2> QED BY <2>1, ViewType
<1>2. queued \in QueueStates /\ queued.view = OnQueued(s.view)
  BY <1>1, PublishKeeps
<1>3. queued.view.phase = s.view.phase /\ queued.view \in Views
  BY <1>1, <1>2 DEF OnQueued, Views
<1>4. \/ Enqueue(s, o, kind, h, ready) = refused
      \/ Enqueue(s, o, kind, h, ready) = ProcessQueue(pushed, h, ready)
  BY DEF Enqueue
<1>5. o \in Ops /\ line \in Queues
  <2>1. PICK W \in SUBSET Ops : s.queue \in [W -> SUBSET W]
    BY DEF QueueStates, Queues
  <2>2. o \in Ops /\ line \in [W \cup {o} -> SUBSET (W \cup {o})]
    BY <2>1 DEF Waiting, Free
  <2>3. W \cup {o} \in SUBSET Ops
    BY <2>2
  <2> QED BY <2>2, <2>3 DEF Queues
<1> HIDE DEF queued, line
<1>6. refused.view.phase = s.view.phase
  <2>1. refused.view = OnCancelled(queued.view, {o})
    BY <1>2 DEF Publish, QueueStates
  <2> QED BY <1>3, <2>1 DEF OnCancelled, Views
<1>7. pushed \in QueueStates /\ pushed.view = queued.view
  BY <1>2, <1>5 DEF QueueStates, PCs, Unsettled
<1> HIDE DEF pushed, refused
<1> QED BY <1>3, <1>4, <1>6, <1>7, ProcessQueuePhase

LEMMA MirrorPhase ==
  ASSUME NEW s \in QueueStates, NEW p, NEW ready, MirrorHostPower(s, p, ready)
  PROVE  q'.view.phase = s.view.phase
<1>1. CASE q' = s
  BY <1>1
<1>2. CASE \E o \in Free(CancelPower(s)) :
             q' = Enqueue(CancelPower(s), o, PowerKind(p), p, ready)
  <2>1. PICK o \in Free(CancelPower(s)) :
          q' = Enqueue(CancelPower(s), o, PowerKind(p), p, ready)
    BY <1>2
  <2>2. CancelPower(s) \in QueueStates
    BY CancelPowerKeeps
  <2>3. CancelPower(s).view.phase = s.view.phase
    <3>1. PowerOps(s) \in SUBSET Ops
      BY DEF PowerOps
    <3>2. CancelQueued(s, PowerOps(s)) \in QueueStates
      BY <3>1, CancelQueuedKeeps
    <3> QED BY <3>2, CancelPhases DEF CancelPower
  <2>4. PowerKind(p) \in Kinds
    BY DEF PowerKind, Kinds, PowerKinds
  <2> QED BY <2>1, <2>2, <2>3, <2>4, EnqueuePhase
<1> QED BY <1>1, <1>2 DEF MirrorHostPower

(* scheduleReconnect sets its timer, or finds that there is to be no other *)
(* attempt, and shows nothing but that.                                    *)
LEMMA ScheduleReconnectArms ==
  ASSUME NEW s \in QueueStates, LinkOK, ScheduleReconnect(s)
  PROVE  /\ ~Stopping /\ ReconnectEnabled /\ device # NoDevice => timer' \/ Exhausted'
         /\ s.view.phase # "ready" => q'.view.phase # "ready"
         /\ q'.view.phase \in {s.view.phase, "error"}
<1>1. q' = s \/ q' = Publish(s, OnFatal(s.view))
  BY DEF ScheduleReconnect
<1>2. attempts \in Nat /\ MaxAttempts \in Nat
  BY ConfigAssumption DEF LinkOK
<1>3. ASSUME ~Stopping, ReconnectEnabled, device # NoDevice
      PROVE  timer' \/ Exhausted'
  BY <1>2, <1>3 DEF ScheduleReconnect, Exhausted
<1> QED BY <1>1, <1>3, EventPhases

(* A step that is no step of stop() keeps the three.                       *)
LEMMA ConnectionInvStep ==
  ASSUME IInv, ConnectionInv, stop = "no",
         Connection \/ Discovery \/ Requests \/ \E o \in Ops : Runner(o)
  PROVE  ConnectionInv'
<1> USE DEF ConnectionInv, OpenerSound, Reconnecting, ShownReady, Closers, Stopping
<1>1. /\ q \in QueueStates /\ LinkOK
      /\ ioClosers \in Nat /\ lostClosers \in Nat /\ attempts \in Nat /\ MaxAttempts \in Nat
      /\ stop # "done"
  BY ConfigAssumption DEF IInv, TypeOK, LinkOK
<1>2. /\ \A r : Publish(q, OnDisconnected(q.view, r)) \in QueueStates
      /\ \A r : Publish(q, OnDisconnected(q.view, r)).view.phase # "ready"
  BY <1>1, EventPhases, EventsKeep DEF Kept
<1>3. CASE PreCloseDone
  BY <1>1, <1>2, <1>3 DEF PreCloseDone, BeginOpening, closers, retry
<1>4. CASE OpenFails
  <2>1. /\ ~Stopping /\ ReconnectEnabled /\ device # NoDevice => timer' \/ Exhausted'
        /\ q'.view.phase \in {q.view.phase, "error"}
    BY <1>1, <1>4, ScheduleReconnectArms DEF OpenFails
  <2> QED BY <1>1, <1>4, <2>1 DEF OpenFails, closers
<1>5. CASE OpenSucceeds
  <2>1. /\ port' = "open" /\ opener' \in {"writeRequest", "failing"}
        /\ q' = Publish(q, OnIdentify(OnConnecting(q.view), "start"))
    BY <1>5 DEF OpenSucceeds
  <2>2. q'.view.phase = "identifying"
    BY <1>1, <2>1 DEF Publish, QueueStates, Views, OnIdentify, OnConnecting
  <2> QED BY <1>5, <2>1, <2>2 DEF OpenSucceeds, closers
<1>6. CASE StopCloseDone
  BY <1>6 DEF StopCloseDone
<1>7. CASE RequestWritten \/ IdentifyWriteFails \/ EarlyToken \/ TokenRead \/ TokenTimeout
  BY <1>1, <1>7
  DEF RequestWritten, IdentifyWriteFails, EarlyToken, TokenRead, TokenTimeout,
      closers, retry, Exhausted, CanWrite
<1>8. CASE Identified
  BY <1>1, <1>8 DEF Identified, LinkOK, closers, retry, Exhausted
<1>9. CASE IdentifyFails
  <2> DEFINE f == Publish(q, OnIdentify(q.view, "failed"))
             d == Publish(f, OnDisconnected(f.view, "unknown"))
  <2>1. f \in QueueStates /\ f.view.phase # "ready"
    BY <1>1, EventPhases, EventsKeep DEF Kept
  <2>2. d \in QueueStates /\ d.view.phase # "ready"
    <3> HIDE DEF f
    <3> QED BY <2>1, EventPhases, EventsKeep DEF Kept
  <2>3. /\ port' = "none"
        /\ \/ opener' = "failClose" /\ q' = f
           \/ opener' = "idle" /\ (ScheduleReconnect(d) \/ ScheduleReconnect(f))
    BY <1>9 DEF IdentifyFails, ClosePort
  <2> HIDE DEF f, d
  <2>4. CASE opener' = "failClose" /\ q' = f
    BY <1>9, <2>1, <2>4 DEF IdentifyFails, closers
  <2>5. CASE opener' = "idle" /\ (ScheduleReconnect(d) \/ ScheduleReconnect(f))
    <3>1. /\ q'.view.phase # "ready"
          /\ ReconnectEnabled /\ device # NoDevice => timer' \/ Exhausted'
      BY <1>1, <2>1, <2>2, <2>5, ScheduleReconnectArms
    <3> QED BY <1>9, <2>5, <3>1 DEF IdentifyFails, closers
  <2> QED BY <2>3, <2>4, <2>5
<1>10. CASE FailCloseDone \/ IoCloseDone \/ PortCloseEvent
  <2>1. PICK r : ScheduleReconnect(Publish(q, OnDisconnected(q.view, r)))
    BY <1>10 DEF FailCloseDone, IoCloseDone, PortCloseEvent
  <2>2. /\ q'.view.phase # "ready"
        /\ ReconnectEnabled /\ device # NoDevice => timer' \/ Exhausted'
    BY <1>1, <1>2, <2>1, ScheduleReconnectArms
  <2> QED
    BY <1>1, <1>10, <2>2
    DEF FailCloseDone, IoCloseDone, PortCloseEvent, ClosePort, FailWaiters,
        WritesOver, link, closers
<1>11. CASE PortError
  BY <1>1, <1>11 DEF PortError, ClosePort, FailWaiters, retry
<1>12. CASE Unplug
  BY <1>1, <1>12 DEF Unplug, closers, retry
<1>13. CASE TimerFires
  <2>1. CASE device = NoDevice \/ opener # "idle"
    BY <1>1, <1>13, <2>1 DEF TimerFires, link, closers, Exhausted
  <2>2. CASE device # NoDevice /\ opener = "idle"
    BY <1>1, <1>13, <2>2 DEF TimerFires, OpenPort, BeginOpening, ClosePort, closers
  <2> QED BY <2>1, <2>2
<1>14. CASE LostCloseDone
  <2>1. q'.view.phase # "ready"
    BY <1>1, <1>14, EventPhases DEF LostCloseDone
  <2> QED BY <1>1, <1>14, <2>1 DEF LostCloseDone, link, retry, WritesOver
<1>15. CASE \E d \in Devices : onDeviceIdentified(d)
  <2>1. PICK d \in Devices : onDeviceIdentified(d)
    BY <1>15
  <2>2. q'.view.phase = "connecting"
    <3>1. q' = Publish(q, OnConnecting(q.view))
      BY <2>1 DEF onDeviceIdentified
    <3> QED BY <1>1, <3>1, EventPhases
  <2>3. CASE UNCHANGED <<link, timer>>
    BY <1>1, <2>1, <2>2, <2>3
    DEF onDeviceIdentified, Ready, OpenPort, BeginOpening, link, closers, WritesOver
  <2>4. CASE OpenPort /\ opener = "idle"
    BY <1>1, <2>1, <2>2, <2>4
    DEF onDeviceIdentified, OpenPort, BeginOpening, ClosePort, closers
  <2> QED BY <2>1, <2>3, <2>4 DEF onDeviceIdentified, OpenPort
<1>16. CASE \E d \in Devices : onDeviceLost(d)
  <2>1. PICK d \in Devices : onDeviceLost(d)
    BY <1>16
  <2>2. port # "open" => q'.view.phase # "ready"
    BY <1>1, <2>1, EventPhases DEF onDeviceLost
  <2> QED BY <1>1, <2>1, <2>2 DEF onDeviceLost, ClosePort, FailWaiters
<1>17. CASE Requests \/ \E o \in Ops : Runner(o)
  <2>1. /\ UNCHANGED <<device, port, phase, opener, closers, stop, retry>>
    BY <1>17
    DEF Requests, enqueueKeyEvent, cancelAll, setHostPower, Runner, Write,
        Completed, WriteFails, Failed, Cancelled, WakeUp, link
  <2>2. q'.view.phase = q.view.phase
    <3>1. CASE Requests
      <4>1. CASE \E o \in Ops : enqueueKeyEvent(o)
        BY <1>1, <4>1, EnqueuePhase DEF enqueueKeyEvent, Kinds
      <4>2. CASE cancelAll
        <5>1. CancelQueued(q, Ops) \in QueueStates
          BY <1>1, CancelQueuedKeeps
        <5> QED BY <1>1, <4>2, <5>1, CancelPhases DEF cancelAll, CancelEverything
      <4>3. CASE \E p \in Powers : setHostPower(p)
        <5>1. PICK p \in Powers : setHostPower(p)
          BY <4>3
        <5> DEFINE s == IF p = "off" THEN DropKeys(q) ELSE q
        <5>2. s \in QueueStates /\ s.view.phase = q.view.phase
          <6>1. KeyOps(q) \in SUBSET Ops
            BY DEF KeyOps
          <6>2. CancelQueued(q, KeyOps(q)) \in QueueStates
            BY <1>1, <6>1, CancelQueuedKeeps
          <6>3. DropKeys(q) \in QueueStates /\ DropKeys(q).view.phase = q.view.phase
            BY <1>1, <6>1, <6>2, CancelPhases, RequestCancelKeeps DEF DropKeys
          <6> QED BY <1>1, <6>3
        <5> HIDE DEF s
        <5>3. MirrorHostPower(s, p, Ready)
          BY <5>1 DEF setHostPower, s
        <5> QED BY <5>2, <5>3, MirrorPhase
      <4> QED BY <3>1, <4>1, <4>2, <4>3 DEF Requests
    <3>2. CASE \E o \in Ops : Runner(o)
      <4>1. PICK o \in Ops : Runner(o)
        BY <3>2
      <4>2. CASE Write(o) \/ WriteFails(o)
        BY <1>1, <4>2 DEF Write, WriteFails, QueueStates
      <4>3. CASE Completed(o) \/ Failed(o) \/ Cancelled(o)
        <5>1. q.view \in Views
          BY <1>1 DEF QueueStates
        <5>2. q'.view \in {OnEnded(q.view), OnCancelled(q.view, {o})}
          BY <1>1, <4>3 DEF Completed, Failed, Cancelled, Settle, QueueStates
        <5> QED BY <5>1, <5>2 DEF OnEnded, OnCancelled, Views
      <4>4. CASE WakeUp(o)
        <5>1. Wake(q, o) \in QueueStates /\ Wake(q, o).view = q.view
          BY <1>1, <4>4, WakeKeeps DEF WakeUp, Wake, QueueStates
        <5> QED BY <4>4, <5>1, ProcessQueuePhase DEF WakeUp
      <4> QED BY <4>1, <4>2, <4>3, <4>4 DEF Runner
    <3> QED BY <1>17, <3>1, <3>2
  <2> QED BY <2>1, <2>2 DEF closers, retry, Exhausted
<1> QED
  BY <1>3, <1>4, <1>5, <1>6, <1>7, <1>8, <1>9, <1>10, <1>11, <1>12, <1>13,
     <1>14, <1>15, <1>16, <1>17
  DEF Connection, Discovery

LEMMA ConnectionInvariance == Spec => []ConnectionInv
<1>1. Init => ConnectionInv
  BY DEF Init, ConnectionInv, OpenerSound, Reconnecting, ShownReady, Closers,
     InitialQueue, InitialView
<1>2. IInv /\ ConnectionInv /\ [Next]_vars => ConnectionInv'
  <2> SUFFICES ASSUME IInv, ConnectionInv, [Next]_vars PROVE ConnectionInv'
    OBVIOUS
  <2>1. CASE stop' # "no"
    BY <2>1
    DEF ConnectionInv, OpenerSound, Reconnecting, ShownReady, Stopping
  <2>2. CASE UNCHANGED vars \/ Halted
    BY <2>2
    DEF ConnectionInv, OpenerSound, Reconnecting, ShownReady, Closers, Stopping,
        Exhausted, Halted, vars, link, retry, closers
  <2>3. CASE Stop
    BY <2>1, <2>3 DEF Stop, StopBegin, StopClose, StopClosed, StopFinish
  <2>4. CASE stop' = "no" /\ (Connection \/ Discovery \/ Requests \/ \E o \in Ops : Runner(o))
    <3>1. stop = "no"
      BY <2>4
      DEF Connection, PreCloseDone, OpenFails, OpenSucceeds, StopCloseDone,
          RequestWritten, IdentifyWriteFails, EarlyToken, TokenRead, TokenTimeout,
          Identified, IdentifyFails, FailCloseDone, PortError, IoCloseDone, Unplug,
          PortCloseEvent, TimerFires, LostCloseDone, Discovery, onDeviceIdentified,
          onDeviceLost, Requests, enqueueKeyEvent, cancelAll, setHostPower, Runner,
          Write, Completed, WriteFails, Failed, Cancelled, WakeUp
    <3> QED BY <2>4, <3>1, ConnectionInvStep
  <2> QED BY <2>1, <2>2, <2>3, <2>4 DEF Next
<1> QED BY <1>1, <1>2, Invariance, PTL DEF Spec

-----------------------------------------------------------------------------
(* Every variable of the keyboard service keeps to its type, for every     *)
(* number of operations and devices and every bound.                       *)
THEOREM TypeCorrect == Spec => []TypeOK
<1>1. IInv => TypeOK
  BY DEF IInv
<1> QED BY <1>1, Invariance, PTL

(* No call of the service loses an operation or runs two at a time: until  *)
(* stop() has ended the unsettled operations are the queue and the active  *)
(* operation.                                                              *)
THEOREM OperationsAccounted == Spec => []Accounted
<1>1. IInv => Accounted
  BY DEF IInv, Tended, Sound, Orderly, Accounted
<1> QED BY <1>1, Invariance, PTL

(* While the host is known to be off, no key operation waits and none in   *)
(* execution is unmarked, whatever came before.                            *)
THEOREM OffHostDrained == Spec => []HostOffDrainsKeys
<1>1. IInv => HostOffDrainsKeys
  BY DEF IInv, Tended, Sound, HostOffDrainsKeys
<1> QED BY <1>1, Invariance, PTL

(* No operation waits for nobody: while any waits and none is active, a    *)
(* runner asleep between two operations will look at the queue again.      *)
THEOREM WaitingWorkIsPickedUp == Spec => []WorkGetsPickedUp
<1>1. IInv => WorkGetsPickedUp
  BY DEF IInv, Tended, PickedUp, WorkGetsPickedUp
<1> QED BY <1>1, Invariance, PTL

(* A keyboard discovery reports is never left without a port and without   *)
(* anything under way: a reconnect is scheduled, or they are used up.      *)
THEOREM NoKeyboardStranded == Spec => []NeverStranded
<1>1. IInv /\ ConnectionInv => NeverStranded
  BY DEF IInv, TypeOK, ConnectionInv, Reconnecting, NeverStranded, Settled, Closers
<1> QED BY <1>1, Invariance, ConnectionInvariance, PTL

(* The browser is shown at most the work there is, and never a ready       *)
(* keyboard that the service does not hold to be ready once the events of  *)
(* a connection are in.                                                    *)
THEOREM ShownKeyboardIsTrue == Spec => []ViewIsTrue
<1>1. IInv => ViewNeverOverstates
  BY DEF IInv, Tended, Sound, Orderly, Told, ViewNeverOverstates, UnsettledOps,
     UnsettledIn
<1>2. IInv /\ ConnectionInv => ReadyViewIsReady
  BY DEF IInv, TypeOK, ConnectionInv, ShownReady, ReadyViewIsReady, Settled, Closers
<1> QED BY <1>1, <1>2, Invariance, ConnectionInvariance, PTL DEF ViewIsTrue

-----------------------------------------------------------------------------
(* PS2Keyboard implements OperationQueue: every step of the service is a   *)
(* step of its abstract queue or leaves the queue alone.  The calls of the *)
(* service are compositions of a few moves on the record q (operations     *)
(* leave, one joins, the first begins); the moves are shown to compose     *)
(* into one Turn, and each action to be such a composition.                *)

Exec(s) == {o \in Ops : s.pc[o] \in Running}

(* The moves, from the queue s to the queue t.                             *)
Shrunk(s, t) ==
  /\ Exec(t) = Exec(s)
  /\ \E gone \in SUBSET Waiting(s) : t.queue = Without(s.queue, gone)

Grown(s, t) ==
  /\ Exec(t) = Exec(s)
  /\ \E o \in Ops \ (Exec(s) \cup Waiting(s)) : t.queue = Promise!Joined(s.queue, {o})

Begun(s, t) ==
  /\ Exec(s) = {}
  /\ \E o \in Heads(s) : Exec(t) = {o} /\ t.queue = Without(s.queue, {o})

(* What they make together.                                                *)
Turned(s, t) ==
  \E gone \in SUBSET Waiting(s), new \in {{}} \cup {{o} : o \in Ops \ Exec(s)} :
    /\ new \cap (Waiting(s) \ gone) = {}
    /\ LET l == Promise!Joined(Without(s.queue, gone), new)
       IN  \/ t.queue = l /\ Exec(t) = Exec(s)
           \/ /\ Exec(s) = {}
              /\ \E o \in Promise!First(l) :
                   Exec(t) = {o} /\ t.queue = Without(l, {o})

(* A queue is a function from its waiting operations to sets of them.      *)
LEMMA QueueShape ==
  ASSUME NEW s \in QueueStates
  PROVE  /\ s.queue \in [Waiting(s) -> SUBSET Waiting(s)]
         /\ Waiting(s) \in SUBSET Ops
<1>1. PICK W \in SUBSET Ops : s.queue \in [W -> SUBSET W]
  BY DEF QueueStates, Queues
<1> QED BY <1>1 DEF Waiting

LEMMA JoinNothing ==
  ASSUME NEW s \in QueueStates, NEW gone
  PROVE  Promise!Joined(Without(s.queue, gone), {}) = Without(s.queue, gone)
BY DEF Promise!Joined, Without

(* Operations that leave twice leave once.                                 *)
LEMMA ShrunkTwice ==
  ASSUME NEW s \in QueueStates, NEW t \in QueueStates, NEW u \in QueueStates,
         Shrunk(s, t), Shrunk(t, u)
  PROVE  Shrunk(s, u)
<1>1. PICK a \in SUBSET Waiting(s) : t.queue = Without(s.queue, a)
  BY DEF Shrunk
<1>2. PICK b \in SUBSET Waiting(t) : u.queue = Without(t.queue, b)
  BY DEF Shrunk
<1>3. Waiting(t) = Waiting(s) \ a
  BY <1>1, QueueShape DEF Without, Waiting
<1>4. u.queue = Without(s.queue, a \cup b)
  BY <1>1, <1>2, <1>3, QueueShape DEF Without, Waiting
<1>5. a \cup b \in SUBSET Waiting(s)
  BY <1>3
<1> QED BY <1>4, <1>5 DEF Shrunk

LEMMA ShrunkSelf ==
  ASSUME NEW s \in QueueStates, NEW t, t.queue = s.queue, Exec(t) = Exec(s)
  PROVE  Shrunk(s, t)
<1>1. s.queue = Without(s.queue, {})
  BY QueueShape DEF Without, Waiting
<1> QED BY <1>1 DEF Shrunk

(* Operations may leave after one has joined as well as before.            *)
LEMMA ShrunkGrown ==
  ASSUME NEW s \in QueueStates, NEW t \in QueueStates, NEW u \in QueueStates,
         Grown(s, t), Shrunk(t, u)
  PROVE  \/ Shrunk(s, u)
         \/ \E v \in QueueStates : Shrunk(s, v) /\ Grown(v, u)
<1>1. PICK o \in Ops \ (Exec(s) \cup Waiting(s)) :
        t.queue = Promise!Joined(s.queue, {o})
  BY DEF Grown
<1>2. PICK b \in SUBSET Waiting(t) : u.queue = Without(t.queue, b)
  BY DEF Shrunk
<1>3. Waiting(t) = Waiting(s) \cup {o}
  BY <1>1 DEF Promise!Joined, Waiting
<1>4. Exec(u) = Exec(s)
  BY DEF Grown, Shrunk
<1>5. CASE o \in b
  <2>1. u.queue = Without(s.queue, b \ {o})
    BY <1>1, <1>2, <1>3, <1>5, QueueShape DEF Without, Waiting, Promise!Joined
  <2>2. b \ {o} \in SUBSET Waiting(s)
    BY <1>3
  <2> QED BY <1>4, <2>1, <2>2 DEF Shrunk
<1>6. CASE o \notin b
  <2> DEFINE v == [s EXCEPT !.queue = Without(s.queue, b)]
  <2>1. Without(s.queue, b) \in Queues /\ DOMAIN Without(s.queue, b) = Waiting(s) \ b
    <3>1. s.queue \in Queues
      BY DEF QueueStates
    <3> QED BY <3>1, WithoutType DEF Waiting
  <2>2. v \in QueueStates /\ v.queue = Without(s.queue, b) /\ v.pc = s.pc
    BY <2>1 DEF QueueStates
  <2> HIDE DEF v
  <2>3. Exec(v) = Exec(s)
    BY <2>2 DEF Exec
  <2>4. b \in SUBSET Waiting(s)
    BY <1>3, <1>6
  <2>5. Shrunk(s, v)
    BY <2>2, <2>3, <2>4 DEF Shrunk
  <2>6. Waiting(v) = Waiting(s) \ b
    BY <2>1, <2>2 DEF Waiting
  <2>7. u.queue = Promise!Joined(v.queue, {o})
    BY <1>1, <1>2, <1>3, <1>6, <2>2, QueueShape DEF Without, Waiting, Promise!Joined
  <2>8. o \in Ops \ (Exec(v) \cup Waiting(v))
    BY <2>3, <2>6
  <2>9. Exec(u) = Exec(v)
    BY <1>4, <2>3
  <2>10. Grown(v, u)
    BY <2>7, <2>8, <2>9 DEF Grown
  <2> QED BY <2>2, <2>5, <2>10
<1> QED BY <1>5, <1>6

(* Moves that end in a shrunken or a grown queue, and one more if the      *)
(* first operation begins, are a turn.                                     *)
LEMMA MovesTurn ==
  ASSUME NEW s \in QueueStates, NEW v \in QueueStates, NEW t,
         Shrunk(s, v), NEW u \in QueueStates,
         (u.queue = v.queue /\ Exec(u) = Exec(v)) \/ Grown(v, u),
         (t.queue = u.queue /\ Exec(t) = Exec(u)) \/ Begun(u, t)
  PROVE  Turned(s, t)
<1>1. PICK gone \in SUBSET Waiting(s) : v.queue = Without(s.queue, gone)
  BY DEF Shrunk
<1>2. Exec(u) = Exec(s)
  BY DEF Shrunk, Grown
<1>3. Waiting(v) = Waiting(s) \ gone
  BY <1>1, QueueShape DEF Without, Waiting
<1>4. PICK new \in {{}} \cup {{o} : o \in Ops \ Exec(s)} :
        /\ new \cap (Waiting(s) \ gone) = {}
        /\ u.queue = Promise!Joined(Without(s.queue, gone), new)
  <2>1. CASE u.queue = v.queue
    BY <1>1, <2>1, JoinNothing
  <2>2. CASE Grown(v, u)
    <3>1. PICK o \in Ops \ (Exec(v) \cup Waiting(v)) :
            u.queue = Promise!Joined(v.queue, {o})
      BY <2>2 DEF Grown
    <3>2. Exec(v) = Exec(s)
      BY DEF Shrunk
    <3> QED BY <1>1, <1>3, <3>1, <3>2
  <2> QED BY <2>1, <2>2
<1> DEFINE l == Promise!Joined(Without(s.queue, gone), new)
<1>5. \/ t.queue = l /\ Exec(t) = Exec(s)
      \/ /\ Exec(s) = {}
         /\ \E o \in Promise!First(l) : Exec(t) = {o} /\ t.queue = Without(l, {o})
  <2>1. CASE t.queue = u.queue /\ Exec(t) = Exec(u)
    BY <1>2, <1>4, <2>1
  <2>2. CASE Begun(u, t)
    BY <1>2, <1>4, <2>2 DEF Begun, Heads, Waiting, Promise!First
  <2> QED BY <2>1, <2>2
<1> QED BY <1>4, <1>5 DEF Turned

-----------------------------------------------------------------------------
(* What the calls of the service are made of *)

(* An event of the adapter, a mark on the active operation and a pc that   *)
(* stays within the execution leave line and execution as they are.        *)
LEMMA PublishSame ==
  ASSUME NEW s \in QueueStates, NEW v
  PROVE  Publish(s, v).queue = s.queue /\ Publish(s, v).pc = s.pc
BY DEF Publish, QueueStates

LEMMA SameExec ==
  ASSUME NEW s, NEW t, t.pc = s.pc
  PROVE  Exec(t) = Exec(s)
BY DEF Exec

LEMMA CancelQueuedShrinks ==
  ASSUME NEW s \in QueueStates, NEW S \in SUBSET Ops, Consistent(s)
  PROVE  Shrunk(s, CancelQueued(s, S))
<1> DEFINE gone == Waiting(s) \cap S
           c == CancelQueued(s, S)
<1>1. /\ c.queue = Without(s.queue, gone)
      /\ c.pc = [o \in Ops |-> IF o \in gone THEN "free" ELSE s.pc[o]]
  BY DEF CancelQueued, QueueStates
<1> HIDE DEF c
<1>2. Exec(c) = Exec(s)
  BY <1>1 DEF Exec, Consistent, Running
<1> QED BY <1>1, <1>2 DEF c, Shrunk

LEMMA RequestCancelSame ==
  ASSUME NEW s \in QueueStates, NEW S
  PROVE  /\ RequestCancelActive(s, S).queue = s.queue
         /\ RequestCancelActive(s, S).pc = s.pc
BY DEF RequestCancelActive, QueueStates

(* cancelAll, cancelQueuedKeyOps with requestCancelActiveOp, and the same  *)
(* for the power operations: some leave.                                   *)
LEMMA CancelShrinks ==
  ASSUME NEW s \in QueueStates, NEW S \in SUBSET Ops, Consistent(s)
  PROVE  Shrunk(s, RequestCancelActive(CancelQueued(s, S), S))
<1>1. CancelQueued(s, S) \in QueueStates /\ Shrunk(s, CancelQueued(s, S))
  BY CancelQueuedKeeps, CancelQueuedShrinks
<1> QED BY <1>1, RequestCancelSame, SameExec DEF Shrunk

(* processQueue: some leave, then the first may begin.                     *)
LEMMA ProcessQueueMoves ==
  ASSUME NEW s \in QueueStates, NEW h, NEW ready \in BOOLEAN, Consistent(s)
  PROVE  \E u \in QueueStates :
           /\ Shrunk(s, u)
           /\ LET t == ProcessQueue(s, h, ready)
              IN  (t.queue = u.queue /\ Exec(t) = Exec(u)) \/ Begun(u, t)
<1> DEFINE left == CancelQueued(s, Blocked(s, h))
           t == ProcessQueue(s, h, ready)
<1>1. Blocked(s, h) \in SUBSET Ops
  BY WaitingType DEF Blocked
<1>2. /\ left \in QueueStates /\ Consistent(left) /\ Shrunk(s, left)
      /\ left.active = s.active
  BY <1>1, CancelQueuedKeeps, CancelQueuedShrinks
<1> HIDE DEF left
<1>3. CASE s.active # NoOp
  BY <1>3, ShrunkSelf DEF ProcessQueue
<1>4. CASE s.active = NoOp /\ Heads(left) = {}
  BY <1>2, <1>4 DEF ProcessQueue, left
<1>5. CASE s.active = NoOp /\ Heads(left) # {}
  <2> DEFINE o == CHOOSE x \in Heads(left) : TRUE
  <2>1. o \in Heads(left)
    BY <1>5
  <2>2. t = Start(left, o, ready)
    BY <1>5 DEF ProcessQueue, left
  <2> HIDE DEF o, t
  <2>3. Exec(left) = {}
    BY <1>2, <1>5, NoOpAssumption DEF Exec, Consistent
  <2>4. PICK p \in {"failing", "cancelling", "checked"} : t.pc = [left.pc EXCEPT ![o] = p]
    <3>1. Began(left, o, t)
      BY <1>2, <2>1, <2>2, StartType
    <3> QED BY <3>1 DEF Began
  <2>5. o \in Ops /\ left.pc \in [Ops -> PCs]
    BY <1>2, <2>1, WaitingType DEF Heads, QueueStates
  <2>6. Exec(t) = {o}
    BY <2>3, <2>4, <2>5 DEF Exec, Running
  <2>7. t.queue = Without(left.queue, {o})
    BY <1>2, <2>2 DEF Start, QueueStates
  <2> QED BY <1>2, <2>1, <2>3, <2>6, <2>7 DEF Begun, t
<1> QED BY <1>3, <1>4, <1>5

(* The rest of a call that ends in processQueue.                           *)
LEMMA ProcessQueueTurns ==
  ASSUME NEW s \in QueueStates, NEW a \in QueueStates, Shrunk(s, a),
         NEW b \in QueueStates, (b.queue = a.queue /\ Exec(b) = Exec(a)) \/ Grown(a, b),
         NEW h, NEW ready \in BOOLEAN, Consistent(b)
  PROVE  Turned(s, ProcessQueue(b, h, ready))
<1> DEFINE t == ProcessQueue(b, h, ready)
<1>1. PICK u \in QueueStates :
        Shrunk(b, u) /\ ((t.queue = u.queue /\ Exec(t) = Exec(u)) \/ Begun(u, t))
  BY ProcessQueueMoves
<1> HIDE DEF t
<1>2. CASE b.queue = a.queue /\ Exec(b) = Exec(a)
  <2>1. Shrunk(a, b)
    BY <1>2, ShrunkSelf
  <2>2. Shrunk(s, u)
    BY <1>1, <2>1, ShrunkTwice
  <2> QED BY <1>1, <2>2, MovesTurn DEF t
<1>3. CASE Grown(a, b)
  <2>1. CASE Shrunk(a, u)
    <3>1. Shrunk(s, u)
      BY <2>1, ShrunkTwice
    <3> QED BY <1>1, <3>1, MovesTurn DEF t
  <2>2. CASE \E v \in QueueStates : Shrunk(a, v) /\ Grown(v, u)
    <3>1. PICK v \in QueueStates : Shrunk(a, v) /\ Grown(v, u)
      BY <2>2
    <3>2. Shrunk(s, v)
      BY <3>1, ShrunkTwice
    <3> QED BY <1>1, <3>1, <3>2, MovesTurn DEF t
  <2> QED BY <1>1, <1>3, <2>1, <2>2, ShrunkGrown
<1> QED BY <1>2, <1>3

(* enqueueOperation, after a call has cancelled some.                      *)
LEMMA EnqueueTurns ==
  ASSUME NEW s \in QueueStates, NEW a \in QueueStates, Shrunk(s, a),
         Consistent(a), NEW o \in Free(a), NEW kind \in Kinds,
         NEW h, NEW ready \in BOOLEAN
  PROVE  Turned(s, Enqueue(a, o, kind, h, ready))
<1> DEFINE t == Enqueue(a, o, kind, h, ready)
           queued == Publish(a, OnQueued(a.view))
           refused == Publish(queued, OnCancelled(queued.view, {o}))
           line == [p \in Waiting(a) \cup {o} |->
                      IF p = o THEN Waiting(a) ELSE a.queue[p]]
           pushed == [queued EXCEPT !.queue = line, !.kind[o] = kind,
                                    !.pc[o] = "queued"]
<1>1. o \in Ops /\ a.pc[o] = "free"
  BY DEF Free
<1>2. o \notin Waiting(a) /\ o \notin Exec(a)
  BY <1>1 DEF Consistent, Exec, Running
<1>3. a.view \in Views /\ OnQueued(a.view) \in Views
  <2>1. a.view \in Views
    BY DEF QueueStates
  <2> QED BY <2>1, <1>1, ViewType
<1>4. queued \in QueueStates
  BY <1>3, PublishKeeps
<1>5. /\ queued.queue = a.queue /\ queued.pc = a.pc /\ queued.active = a.active
      /\ refused.queue = a.queue /\ refused.pc = a.pc
  BY <1>4 DEF Publish, QueueStates
<1>6. t = IF kind = "key" /\ h = "off" THEN refused ELSE ProcessQueue(pushed, h, ready)
  BY DEF Enqueue
<1> HIDE DEF t, queued, refused, line
<1>7. CASE kind = "key" /\ h = "off"
  <2>1. t.queue = a.queue /\ Exec(t) = Exec(a)
    BY <1>5, <1>6, <1>7, SameExec
  <2> QED BY <2>1, MovesTurn DEF t
<1>8. CASE ~(kind = "key" /\ h = "off")
  <2>1. pushed.queue = line /\ pushed.pc = [a.pc EXCEPT ![o] = "queued"]
        /\ pushed.active = a.active
    BY <1>4, <1>5 DEF QueueStates
  <2>2. DOMAIN line = Waiting(a) \cup {o}
    BY DEF line
  <2>3. line \in Queues
    <3>1. a.queue \in [Waiting(a) -> SUBSET Waiting(a)] /\ Waiting(a) \in SUBSET Ops
      BY QueueShape
    <3>2. line \in [Waiting(a) \cup {o} -> SUBSET (Waiting(a) \cup {o})]
      BY <3>1 DEF line
    <3>3. Waiting(a) \cup {o} \in SUBSET Ops
      BY <1>1, <3>1
    <3> QED BY <3>2, <3>3 DEF Queues
  <2>4. pushed \in QueueStates
    BY <1>1, <1>4, <2>3 DEF QueueStates, PCs, Unsettled
  <2> HIDE DEF pushed
  <2>5. a.pc \in [Ops -> PCs]
    BY DEF QueueStates
  <2>6. Waiting(pushed) = Waiting(a) \cup {o}
    BY <2>1, <2>2 DEF Waiting
  <2>7. Consistent(pushed)
    BY <1>1, <1>2, <2>1, <2>5, <2>6 DEF Consistent, Running
  <2>8. Exec(pushed) = Exec(a)
    BY <1>1, <2>1, <2>5 DEF Exec, Running
  <2>9. line = Promise!Joined(a.queue, {o})
    BY <1>2 DEF line, Promise!Joined, Waiting
  <2>10. Grown(a, pushed)
    BY <1>1, <1>2, <2>1, <2>8, <2>9 DEF Grown
  <2>11. Turned(s, ProcessQueue(pushed, h, ready))
    BY <2>4, <2>7, <2>10, ProcessQueueTurns
  <2> QED BY <1>6, <1>8, <2>11 DEF t
<1> QED BY <1>7, <1>8 DEF t

-----------------------------------------------------------------------------
(* The steps of the service *)

Same(s, t) == t.queue = s.queue /\ Exec(t) = Exec(s)
Ended(s, t) == Exec(s) # {} /\ Exec(t) = {} /\ t.queue = s.queue

(* What a step does to the queue.                                          *)
Served == Turned(q, q') \/ Ended(q, q') \/ Same(q, q')

(* Once stop() has ended nothing waits; one operation at most executes,    *)
(* the one stop() forgot included.                                         *)
RInv ==
  /\ IInv
  /\ stop = "done" => Waiting(q) = {}
  /\ \A a, b \in Exec(q) : a = b

(* A step that is served, and begins nothing once stop() has ended.        *)
Serves == Served /\ (stop = "done" => Ended(q, q') \/ Same(q, q'))

(* Most steps of the connection and of discovery only publish events.      *)
Quiet == q'.queue = q.queue /\ q'.pc = q.pc

LEMMA QuietServes == ASSUME Quiet PROVE Serves
BY SameExec DEF Quiet, Serves, Served, Same

LEMMA ScheduleReconnectQuiet ==
  ASSUME NEW s \in QueueStates, s.queue = q.queue, s.pc = q.pc, ScheduleReconnect(s)
  PROVE  Quiet
<1>1. q' = s \/ q' = Publish(s, OnFatal(s.view))
  BY DEF ScheduleReconnect
<1> QED BY <1>1, PublishSame DEF Quiet

LEMMA MirrorServes ==
  ASSUME NEW s \in QueueStates, Shrunk(q, s), q \in QueueStates, Consistent(s),
         NEW p \in Powers, NEW ready \in BOOLEAN, MirrorHostPower(s, p, ready)
  PROVE  Served \/ q' = s
<1>1. CASE q' = s
  BY <1>1
<1>2. CASE \E o \in Free(CancelPower(s)) :
             q' = Enqueue(CancelPower(s), o, PowerKind(p), p, ready)
  <2>1. PICK o \in Free(CancelPower(s)) :
          q' = Enqueue(CancelPower(s), o, PowerKind(p), p, ready)
    BY <1>2
  <2>2. PowerOps(s) \in SUBSET Ops /\ PowerKind(p) \in Kinds
    BY DEF PowerOps, PowerKind, Kinds, PowerKinds
  <2>3. /\ CancelQueued(s, PowerOps(s)) \in QueueStates
        /\ Consistent(CancelQueued(s, PowerOps(s)))
    BY <2>2, CancelQueuedKeeps
  <2>4. CancelPower(s) \in QueueStates /\ Consistent(CancelPower(s))
    BY <2>2, <2>3, RequestCancelKeeps DEF CancelPower
  <2>5. Shrunk(s, CancelPower(s))
    BY <2>2, CancelShrinks DEF CancelPower
  <2>6. Shrunk(q, CancelPower(s))
    BY <2>4, <2>5, ShrunkTwice
  <2>7. Turned(q, q')
    BY <2>1, <2>2, <2>4, <2>6, EnqueueTurns
  <2> QED BY <2>7 DEF Served
<1> QED BY <1>1, <1>2 DEF MirrorHostPower

(* A queue some have left is a turn of its own.                            *)
LEMMA ShrunkServed ==
  ASSUME q \in QueueStates, q' \in QueueStates, Shrunk(q, q')
  PROVE  Served
BY MovesTurn DEF Served

LEMMA ConnectionServes == ASSUME RInv, Connection PROVE Serves
<1>1. q \in QueueStates /\ LinkOK /\ IInv
  BY DEF RInv, IInv, TypeOK, LinkOK
<1> DEFINE unknown == Publish(q, OnDisconnected(q.view, "unknown"))
           error == Publish(q, OnDisconnected(q.view, "io-error"))
           failed == Publish(q, OnIdentify(q.view, "failed"))
           both == Publish(failed, OnDisconnected(failed.view, "unknown"))
<1>2. /\ unknown \in QueueStates /\ unknown.queue = q.queue /\ unknown.pc = q.pc
      /\ error \in QueueStates /\ error.queue = q.queue /\ error.pc = q.pc
      /\ failed \in QueueStates /\ failed.queue = q.queue /\ failed.pc = q.pc
  BY <1>1, EventsKeep, PublishSame DEF Kept
<1>3. both \in QueueStates /\ both.queue = q.queue /\ both.pc = q.pc
  BY <1>2, EventsKeep, PublishSame DEF Kept
<1> HIDE DEF unknown, error, failed, both
<1>4. CASE PreCloseDone
  BY <1>2, <1>4, QuietServes DEF PreCloseDone, Quiet, unknown
<1>5. CASE OpenFails
  BY <1>1, <1>5, ScheduleReconnectQuiet, QuietServes DEF OpenFails
<1>6. CASE OpenSucceeds
  <2>1. q' = q \/ \E v : q' = Publish(q, v)
    BY <1>6 DEF OpenSucceeds
  <2> QED BY <1>1, <2>1, PublishSame, QuietServes DEF Quiet
<1>7. CASE StopCloseDone \/ RequestWritten \/ IdentifyWriteFails \/ EarlyToken
           \/ TokenRead \/ TokenTimeout \/ PortError \/ Unplug \/ TimerFires
  <2>1. q' = q
    BY <1>7 DEF StopCloseDone, RequestWritten, IdentifyWriteFails, EarlyToken,
       TokenRead, TokenTimeout, PortError, Unplug, TimerFires
  <2> QED BY <2>1, QuietServes DEF Quiet
<1>8. CASE Identified
  <2> DEFINE s == Publish(q, OnIdentify(q.view, "success"))
  <2>1. MirrorHostPower(s, host, port = "open")
    BY <1>8 DEF Identified
  <2>2. s \in QueueStates /\ s.queue = q.queue /\ s.pc = q.pc
    BY <1>1, EventsKeep, PublishSame DEF Kept
  <2>3. Tended(q, host) => Tended(s, host)
    BY <1>1, EventsKeep DEF Kept
  <2> HIDE DEF s
  <2>4. q' = s => Quiet
    BY <2>2 DEF Quiet
  <2>5. CASE stop # "done"
    <3>1. Consistent(s)
      BY <1>1, <2>3, <2>5 DEF IInv, Tended, Sound, Orderly
    <3>2. Shrunk(q, s)
      BY <1>1, <2>2, SameExec, ShrunkSelf
    <3>3. host \in Powers /\ (port = "open") \in BOOLEAN
      BY <1>1 DEF LinkOK
    <3>4. Served \/ q' = s
      BY <1>1, <2>1, <2>2, <3>1, <3>2, <3>3, MirrorServes
    <3> QED BY <2>4, <2>5, <3>4, QuietServes DEF Serves
  <2>6. CASE stop = "done"
    <3>1. q' = s
      BY <1>1, <2>1, <2>6 DEF IInv, MirrorHostPower, NeedsSync
    <3> QED BY <2>4, <3>1, QuietServes
  <2> QED BY <2>5, <2>6
<1>9. CASE IdentifyFails
  <2>1. \/ q' = failed
        \/ ScheduleReconnect(both) \/ ScheduleReconnect(failed)
    BY <1>9 DEF IdentifyFails, failed, both
  <2> QED BY <1>2, <1>3, <2>1, ScheduleReconnectQuiet, QuietServes DEF Quiet
<1>10. CASE FailCloseDone
  BY <1>2, <1>10, ScheduleReconnectQuiet, QuietServes DEF FailCloseDone, unknown
<1>11. CASE IoCloseDone \/ PortCloseEvent
  BY <1>2, <1>11, ScheduleReconnectQuiet, QuietServes
  DEF IoCloseDone, PortCloseEvent, error
<1>12. CASE LostCloseDone
  BY <1>1, <1>12, PublishSame, QuietServes DEF LostCloseDone, Quiet
<1> QED
  BY <1>4, <1>5, <1>6, <1>7, <1>8, <1>9, <1>10, <1>11, <1>12 DEF Connection

LEMMA DiscoveryServes == ASSUME RInv, Discovery PROVE Serves
<1>1. q \in QueueStates
  BY DEF RInv, IInv, TypeOK
<1>2. PICK d \in Devices : onDeviceIdentified(d) \/ onDeviceLost(d)
  BY DEF Discovery
<1>3. q' = q \/ \E v : q' = Publish(q, v)
  BY <1>2 DEF onDeviceIdentified, onDeviceLost
<1> QED BY <1>1, <1>3, PublishSame, QuietServes DEF Quiet

LEMMA RequestsServe == ASSUME RInv, Requests PROVE Serves
<1>1. q \in QueueStates /\ q' \in QueueStates /\ Ready \in BOOLEAN
  <2>1. IInv'
    BY RequestsKeep DEF RInv
  <2> QED BY <2>1 DEF RInv, IInv, TypeOK, Ready
<1>2. stop # "done" /\ Consistent(q)
  <2>1. stop # "done"
    BY DEF Requests, enqueueKeyEvent, cancelAll, setHostPower
  <2> QED BY <2>1 DEF RInv, IInv, Tended, Sound, Orderly
<1>3. CASE \E o \in Ops : enqueueKeyEvent(o)
  <2>1. PICK o \in Free(q) : q' = Enqueue(q, o, "key", host, Ready)
    BY <1>3 DEF enqueueKeyEvent
  <2>2. Shrunk(q, q) /\ "key" \in Kinds
    BY <1>1, ShrunkSelf DEF Kinds
  <2>3. Turned(q, q')
    BY <1>1, <1>2, <2>1, <2>2, EnqueueTurns
  <2> QED BY <1>2, <2>3 DEF Serves, Served
<1>4. CASE cancelAll
  <2>1. Shrunk(q, q')
    BY <1>1, <1>2, <1>4, CancelShrinks DEF cancelAll, CancelEverything
  <2> QED BY <1>1, <1>2, <2>1, ShrunkServed DEF Serves
<1>5. CASE \E p \in Powers : setHostPower(p)
  <2>1. PICK p \in Powers : setHostPower(p)
    BY <1>5
  <2> DEFINE s == IF p = "off" THEN DropKeys(q) ELSE q
  <2>2. MirrorHostPower(s, p, Ready)
    BY <2>1 DEF setHostPower
  <2>3. s \in QueueStates /\ Consistent(s) /\ Shrunk(q, s)
    <3>1. DropKeys(q) \in QueueStates /\ Consistent(DropKeys(q))
      BY <1>1, <1>2, DropKeysDrains
    <3>2. Shrunk(q, DropKeys(q))
      <4>1. KeyOps(q) \in SUBSET Ops
        BY DEF KeyOps
      <4> QED BY <1>1, <1>2, <4>1, CancelShrinks DEF DropKeys
    <3>3. Shrunk(q, q)
      BY <1>1, ShrunkSelf
    <3> QED BY <1>1, <1>2, <3>1, <3>2, <3>3
  <2> HIDE DEF s
  <2>4. Served \/ q' = s
    BY <1>1, <2>2, <2>3, MirrorServes
  <2>5. Served
    BY <1>1, <2>3, <2>4, ShrunkServed
  <2> QED BY <1>2, <2>5 DEF Serves
<1> QED BY <1>3, <1>4, <1>5 DEF Requests

(* The operation in execution goes on, ends, or a runner wakes.            *)
LEMMA RunnerServes == ASSUME RInv, NEW o \in Ops, Runner(o) PROVE Serves
<1>1. q \in QueueStates /\ q.pc \in [Ops -> PCs] /\ Ready \in BOOLEAN
  BY DEF RInv, IInv, TypeOK, Ready, QueueStates
<1>2. CASE Write(o) \/ WriteFails(o)
  <2>1. PICK p \in Running : q' = [q EXCEPT !.pc[o] = p]
    BY <1>2 DEF Write, WriteFails, Running
  <2>2. q'.queue = q.queue /\ q'.pc = [q.pc EXCEPT ![o] = p] /\ q.pc[o] \in Running
    BY <1>1, <1>2, <2>1 DEF QueueStates, Write, WriteFails, Running
  <2>3. Exec(q') = Exec(q)
    BY <1>1, <2>2 DEF Exec
  <2> QED BY <2>2, <2>3 DEF Serves, Served, Same
<1>3. CASE Completed(o) \/ Failed(o) \/ Cancelled(o)
  <2>1. PICK v : q' = Settle(q, o, v)
    BY <1>3 DEF Completed, Failed, Cancelled
  <2>2. q'.queue = q.queue /\ q'.pc = [q.pc EXCEPT ![o] = "pause"]
    BY <1>1, <2>1 DEF Settle, QueueStates
  <2>3. o \in Exec(q)
    BY <1>3 DEF Exec, Completed, Failed, Cancelled, Running
  <2>4. Exec(q) = {o}
    BY <2>3 DEF RInv
  <2>5. Exec(q') = {}
    BY <1>1, <2>2, <2>4 DEF Exec, Running
  <2> QED BY <2>2, <2>4, <2>5 DEF Serves, Served, Ended
<1>4. CASE WakeUp(o)
  <2> DEFINE w == Wake(q, o)
  <2>1. q.pc[o] = "pause" /\ q' = ProcessQueue(w, host, Ready)
    BY <1>4 DEF WakeUp
  <2>2. w \in QueueStates /\ (Tended(q, host) => Sound(w, host))
    BY <1>1, <2>1, WakeKeeps DEF Tended
  <2>3. w.queue = q.queue /\ w.pc = [q.pc EXCEPT ![o] = "free"]
    BY <1>1 DEF Wake, QueueStates
  <2> HIDE DEF w
  <2>4. Exec(w) = Exec(q)
    BY <1>1, <2>1, <2>3 DEF Exec, Running
  <2>5. CASE stop # "done"
    <3>1. Consistent(w)
      BY <2>2, <2>5 DEF RInv, IInv, Tended, Sound, Orderly
    <3>2. Shrunk(q, w)
      BY <1>1, <2>3, <2>4, ShrunkSelf
    <3>3. Turned(q, q')
      BY <1>1, <2>1, <2>2, <3>1, <3>2, ProcessQueueTurns
    <3> QED BY <2>5, <3>3 DEF Serves, Served
  <2>6. CASE stop = "done"
    <3> DEFINE left == CancelQueued(w, Blocked(w, host))
    <3>1. Waiting(w) = {}
      BY <2>3, <2>6 DEF RInv, Waiting
    <3>2. left.queue = w.queue /\ left.pc = w.pc
      <4>1. left.queue = Without(w.queue, {})
        BY <2>2, <3>1 DEF CancelQueued, QueueStates
      <4>2. Without(w.queue, {}) = w.queue
        BY <2>2, QueueShape DEF Without, Waiting
      <4>3. left.pc = [x \in Ops |-> w.pc[x]]
        BY <2>2, <3>1 DEF CancelQueued, QueueStates
      <4>4. w.pc = [x \in Ops |-> w.pc[x]]
        BY <2>2 DEF QueueStates
      <4> QED BY <4>1, <4>2, <4>3, <4>4
    <3>3. Heads(left) = {}
      BY <3>1, <3>2 DEF Heads, Waiting
    <3>4. q' = w \/ q' = left
      BY <2>1, <3>3 DEF ProcessQueue
    <3>5. q'.queue = q.queue /\ q'.pc = w.pc
      BY <2>3, <3>2, <3>4
    <3>6. Exec(q') = Exec(w)
      BY <3>5, SameExec
    <3> QED BY <2>4, <3>5, <3>6 DEF Serves, Served, Same
  <2> QED BY <2>5, <2>6
<1> QED BY <1>2, <1>3, <1>4 DEF Runner

(* The end of stop() forgets what waits, and does not touch what executes. *)
LEMMA StopServes ==
  ASSUME RInv, Stop
  PROVE  Served /\ (StopFinish \/ stop' # "done")
<1>1. q \in QueueStates /\ q' \in QueueStates /\ q.pc \in [Ops -> PCs]
  <2>1. IInv'
    BY StopKeeps DEF RInv
  <2> QED BY <2>1 DEF RInv, IInv, TypeOK, QueueStates
<1>2. stop # "done" /\ Consistent(q)
  <2>1. stop # "done"
    BY DEF Stop, StopBegin, StopClose, StopClosed, StopFinish
  <2> QED BY <2>1 DEF RInv, IInv, Tended, Sound, Orderly
<1>3. CASE StopBegin
  <2>1. Shrunk(q, q')
    BY <1>1, <1>2, <1>3, CancelShrinks DEF StopBegin, CancelEverything
  <2> QED BY <1>1, <1>3, <2>1, ShrunkServed DEF StopBegin
<1>4. CASE StopClose \/ StopClosed
  <2>1. q' = q \/ \E v : q' = Publish(q, v)
    BY <1>4 DEF StopClose, StopClosed
  <2>2. Quiet
    BY <1>1, <2>1, PublishSame DEF Quiet
  <2> QED BY <1>4, <2>2, QuietServes DEF Serves, StopClose, StopClosed
<1>5. CASE StopFinish
  <2>1. /\ q'.queue = EmptyQueue
        /\ q'.pc = [x \in Ops |-> IF x \in Waiting(q) THEN "dropped" ELSE q.pc[x]]
    BY <1>1, <1>5 DEF StopFinish, Reset, QueueStates
  <2>2. Exec(q') = Exec(q)
    BY <1>2, <2>1 DEF Exec, Consistent, Running
  <2>3. EmptyQueue = Without(q.queue, Waiting(q))
    BY DEF EmptyQueue, Without, Waiting
  <2>4. Shrunk(q, q')
    BY <2>1, <2>2, <2>3 DEF Shrunk
  <2> QED BY <1>1, <1>5, <2>4, ShrunkServed
<1> QED BY <1>3, <1>4, <1>5 DEF Stop

(* A step of the record q that is served is a step of OperationQueue.      *)
LEMMA ServedImplements ==
  ASSUME Served
  PROVE  [Promise!Next]_<<q.queue, Executing>>
<1>1. Executing = Exec(q) /\ Executing' = Exec(q')
  BY DEF Executing, Exec
<1>2. CASE Turned(q, q')
  <2>1. PICK gone \in SUBSET Waiting(q), new \in {{}} \cup {{o} : o \in Ops \ Exec(q)} :
    /\ new \cap (Waiting(q) \ gone) = {}
    /\ LET l == Promise!Joined(Without(q.queue, gone), new)
       IN  \/ q'.queue = l /\ Exec(q') = Exec(q)
           \/ /\ Exec(q) = {}
              /\ \E o \in Promise!First(l) :
                   Exec(q') = {o} /\ q'.queue = Without(l, {o})
    BY <1>2 DEF Turned
  <2>2. \A l, S : Promise!Leaving(l, S) = Without(l, S)
    BY DEF Promise!Leaving, Without
  <2> DEFINE l == Promise!Joined(Promise!Leaving(q.queue, gone), new)
  <2>3. Promise!Rearranges(l) \/ Promise!Begins(l)
    BY <1>1, <2>1, <2>2 DEF Promise!Rearranges, Promise!Begins
  <2>4. gone \in SUBSET DOMAIN q.queue /\ new \cap (DOMAIN q.queue \ gone) = {}
    BY <2>1 DEF Waiting
  <2> HIDE DEF l
  <2>5. Promise!Turn
    BY <1>1, <2>1, <2>3, <2>4 DEF Promise!Turn, l
  <2> QED BY <2>5 DEF Promise!Next
<1>3. CASE Ended(q, q')
  BY <1>1, <1>3 DEF Ended, Promise!Next, Promise!Ends
<1>4. CASE Same(q, q')
  BY <1>1, <1>4 DEF Same
<1> QED BY <1>2, <1>3, <1>4 DEF Served

(* Every step is served, and keeps the invariant.                          *)
LEMMA StepServes ==
  ASSUME RInv, [Next]_vars
  PROVE  Served /\ RInv'
<1>1. IInv'
  <2>1. CASE UNCHANGED vars \/ Halted
    BY <2>1 DEF RInv, IInv, TypeOK, Halted, vars, link, retry, closers
  <2> QED BY <2>1, ConnectionKeeps, DiscoveryKeeps, RequestsKeep, RunnerKeeps,
             StopKeeps DEF Next, RInv
<1>2. (Serves /\ stop' = stop) \/ (Served /\ (StopFinish \/ stop' # "done"))
  <2>1. CASE UNCHANGED vars \/ Halted
    BY <2>1, QuietServes DEF Quiet, Halted, vars
  <2>2. CASE Connection
    <3>1. stop' = stop
      BY <2>2 DEF Connection, PreCloseDone, OpenFails, OpenSucceeds, StopCloseDone,
         RequestWritten, IdentifyWriteFails, EarlyToken, TokenRead, TokenTimeout,
         Identified, IdentifyFails, FailCloseDone, PortError, IoCloseDone, Unplug,
         PortCloseEvent, TimerFires, LostCloseDone
    <3> QED BY <2>2, <3>1, ConnectionServes
  <2>3. CASE Discovery
    BY <2>3, DiscoveryServes DEF Discovery, onDeviceIdentified, onDeviceLost
  <2>4. CASE Requests
    BY <2>4, RequestsServe DEF Requests, enqueueKeyEvent, cancelAll, setHostPower
  <2>5. CASE \E o \in Ops : Runner(o)
    <3>1. PICK o \in Ops : Runner(o)
      BY <2>5
    <3>2. stop' = stop
      BY <3>1 DEF Runner, Write, Completed, WriteFails, Failed, Cancelled, WakeUp
    <3> QED BY <3>1, <3>2, RunnerServes
  <2>6. CASE Stop
    BY <2>6, StopServes
  <2> QED BY <2>1, <2>2, <2>3, <2>4, <2>5, <2>6 DEF Next
<1>3. Served
  BY <1>2 DEF Serves
<1>4. CASE stop' # "done"
  <2>1. Consistent(q')
    BY <1>1, <1>4 DEF IInv, Tended, Sound, Orderly
  <2> QED BY <1>1, <1>3, <1>4, <2>1 DEF RInv, Consistent, Exec
<1>5. CASE Serves /\ stop' = stop /\ stop = "done"
  <2>1. q'.queue = q.queue /\ Exec(q') \in SUBSET Exec(q)
    BY <1>5 DEF Serves, Ended, Same
  <2> QED BY <1>1, <1>3, <1>5, <2>1 DEF RInv, Waiting
<1>6. CASE StopFinish
  <2>1. q \in QueueStates
    BY DEF RInv, IInv, TypeOK
  <2>2. /\ q'.queue = EmptyQueue
        /\ q'.pc = [x \in Ops |-> IF x \in Waiting(q) THEN "dropped" ELSE q.pc[x]]
    BY <1>6, <2>1 DEF StopFinish, Reset, QueueStates
  <2>3. Waiting(q') = {} /\ Exec(q') \in SUBSET Exec(q)
    BY <2>2 DEF EmptyQueue, Waiting, Exec, Running
  <2> QED BY <1>1, <1>3, <2>3 DEF RInv
<1> QED BY <1>2, <1>4, <1>5, <1>6

(* Whatever the port, the host power, cancellations and stop() do, the     *)
(* keyboard's queue is an OperationQueue: operations begin in the order    *)
(* they were enqueued, one at a time, and one that has begun ends before   *)
(* another begins.                                                         *)
THEOREM ImplementsOperationQueue == Spec => ServesInOrder
<1>1. Init => RInv /\ Promise!Init
  <2> SUFFICES ASSUME Init PROVE RInv /\ Promise!Init
    OBVIOUS
  <2>1. IInv /\ stop = "no"
    BY InitSound DEF Init
  <2>2. q.queue = EmptyQueue /\ Exec(q) = {} /\ Executing = {}
    BY DEF Init, InitialQueue, Exec, Executing, Running
  <2> QED BY <2>1, <2>2 DEF RInv, Promise!Init, Promise!EmptyLine, EmptyQueue
<1>2. RInv /\ [Next]_vars => RInv' /\ [Promise!Next]_<<q.queue, Executing>>
  BY StepServes, ServedImplements
<1> QED BY <1>1, <1>2, PTL DEF Spec, ServesInOrder, Promise!Spec
=============================================================================
