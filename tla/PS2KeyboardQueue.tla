-------------------------- MODULE PS2KeyboardQueue --------------------------
(***************************************************************************)
(* The operation queue of PS2KeyboardService as operators on a record q:   *)
(*   queue   the waiting operations, each with the set of those ahead of   *)
(*           it (this.queue; the array order is "is ahead of")             *)
(*   active  this.activeOp, or NoOp                                        *)
(*   cancel  the operation this.activeCancel names, or NoOp                *)
(*   kind    the kind of each operation in use                             *)
(*   pc      where each operation is (see PCs)                             *)
(*   view    the slice the adapter keeps, changed by every event published *)
(* Every call of the service that touches the queue is a composition of    *)
(* these operators; they are synchronous JavaScript, so one step of the    *)
(* specification applies all of them.                                      *)
(***************************************************************************)
EXTENDS PS2KeyboardAdapter

PowerKinds == {"powerOn", "powerOff"}
Kinds == {"key"} \cup PowerKinds      \* press, hold and release behave alike

(* Where an operation is.                                                  *)
(*   free        no such operation: its promise is settled, or it never was *)
(*   queued      in the queue                                              *)
(*   checked     ensureReady() passed, its continuation is pending         *)
(*   writing     serialport's write() was called, its callback is pending  *)
(*   failing     an Error, or a CancelledError, was thrown: the catch      *)
(*   cancelling  block of processQueue is pending                          *)
(*   pause       settled; asleep for interCommandDelayMs                   *)
(*   dropped     removed from the queue by stop() without being settled    *)
Running == {"checked", "writing", "failing", "cancelling"}
Unsettled == {"queued", "dropped"} \cup Running
PCs == {"free", "pause"} \cup Unsettled

Queues == UNION {[W -> SUBSET W] : W \in SUBSET Ops}

QueueStates ==
  [queue  : Queues,
   active : Ops \cup {NoOp},
   cancel : Ops \cup {NoOp},
   kind   : [Ops -> Kinds],
   pc     : [Ops -> PCs],
   view   : Views]

EmptyQueue == [o \in {} |-> {}]

InitialQueue ==
  [queue |-> EmptyQueue, active |-> NoOp, cancel |-> NoOp,
   kind |-> [o \in Ops |-> "key"], pc |-> [o \in Ops |-> "free"],
   view |-> InitialView]

Waiting(q) == DOMAIN q.queue
KeyOps(q) == {o \in Ops : q.kind[o] = "key"}
PowerOps(q) == {o \in Ops : q.kind[o] \in PowerKinds}
Free(q) == {o \in Ops : q.pc[o] = "free"}
(* Mutant: pop() for shift().                                              *)
Tails(q) == {o \in Waiting(q) : \A p \in Waiting(q) : o \notin q.queue[p]}

Heads(q) == {o \in Waiting(q) : q.queue[o] = {}}
ActiveCancelled(q) == q.active # NoOp /\ q.cancel = q.active

Publish(q, newView) == [q EXCEPT !.view = newView]

Without(queue, ops) == [p \in DOMAIN queue \ ops |-> queue[p] \ ops]

(* Mutant: the adapter is not told.                                        *)
CancelQueuedSilently(q, ops) ==
  LET gone == Waiting(q) \cap ops
  IN  [q EXCEPT !.queue = Without(@, gone),
                !.pc = [o \in Ops |-> IF o \in gone THEN "free" ELSE @[o]],
                !.kind = [o \in Ops |-> IF o \in gone THEN "key" ELSE @[o]]]

(* Settle queued operations as cancelled: the loop of cancelAll,           *)
(* cancelQueuedKeyOps and cancelQueuedPowerOps, each with its own ops.     *)
CancelQueued(q, ops) ==
  LET gone == Waiting(q) \cap ops
  IN  [q EXCEPT !.queue = Without(@, gone),
                !.pc = [o \in Ops |-> IF o \in gone THEN "free" ELSE @[o]],
                !.kind = [o \in Ops |-> IF o \in gone THEN "key" ELSE @[o]],
                !.view = OnCancelled(@, gone)]

(* requestCancelActiveOp, when the active operation is one of ops.         *)
RequestCancelActive(q, ops) ==
  IF q.active \in ops THEN [q EXCEPT !.cancel = q.active] ELSE q

(* What shift() and the synchronous part of execute() do to operation o:   *)
(* ensureReady throws, or leaves the rest to a continuation.               *)
Start(q, o, ready) ==
  [q EXCEPT !.queue = Without(@, {o}),
            !.active = o,
            !.pc[o] = IF ~ready THEN "failing"
                      ELSE IF q.cancel = o THEN "cancelling" ELSE "checked",
            !.view = OnStarted(@, o)]

(* The key operations a host that is known to be off keeps from starting:  *)
(* those with no other kind ahead of them.                                 *)
Blocked(q, host) ==
  IF host = "off"
  THEN {o \in Waiting(q) : ({o} \cup q.queue[o]) \subseteq KeyOps(q)}
  ELSE {}

(* Mutant: processQueue does not return when an operation is active.       *)
ProcessQueueUnguarded(q, host, ready) ==
  LET left == CancelQueued(q, Blocked(q, host))
  IN  IF Heads(left) = {} THEN left
      ELSE Start(left, CHOOSE o \in Heads(left) : TRUE, ready)

(* processQueue up to its first await: cancel what the host power blocks,  *)
(* then start the operation at the head.                                   *)
ProcessQueue(q, host, ready) ==
  IF q.active # NoOp THEN q
  ELSE LET left == CancelQueued(q, Blocked(q, host))
       IN  IF Heads(left) = {} THEN left
           ELSE Start(left, CHOOSE o \in Heads(left) : TRUE, ready)

(* enqueueOperation with a fresh operation o.                              *)
Enqueue(q, o, kind, host, ready) ==
  LET queued == Publish(q, OnQueued(q.view))
      pushed == [queued EXCEPT
                   !.queue = [p \in Waiting(q) \cup {o} |->
                                IF p = o THEN Waiting(q) ELSE q.queue[p]],
                   !.kind[o] = kind,
                   !.pc[o] = "queued"]
  IN  IF kind = "key" /\ host = "off"
      THEN Publish(queued, OnCancelled(queued.view, {o}))
      ELSE ProcessQueue(pushed, host, ready)

(* maybeSyncKeyboardSidePowerFromHostPower returns early unless this holds. *)
NeedsSync(host, ready, power) == host # "unknown" /\ ready /\ power # host

(* The rest of it cancels the power operations, then enqueues a new one.    *)
CancelPower(q) == RequestCancelActive(CancelQueued(q, PowerOps(q)), PowerOps(q))

PowerKind(host) == IF host = "on" THEN "powerOn" ELSE "powerOff"

(* Mutant: the operation in execution is left alone.                       *)
DropQueuedKeys(q) == CancelQueued(q, KeyOps(q))

(* What setHostPower does to the queue when the host goes off.             *)
DropKeys(q) == RequestCancelActive(CancelQueued(q, KeyOps(q)), KeyOps(q))

(* cancelAll.                                                              *)
CancelEverything(q) == RequestCancelActive(CancelQueued(q, Ops), Ops)

(* Mutant: the finally block leaves activeOp set.                          *)
SettleKeepsActive(q, o, view) ==
  [q EXCEPT !.cancel = IF @ = o THEN NoOp ELSE @,
            !.pc[o] = "pause",
            !.kind[o] = "key",
            !.view = view]

(* The catch and finally blocks of processQueue for operation o: the       *)
(* promise is settled, view is the slice after the event published, and    *)
(* the runner goes to sleep.                                               *)
Settle(q, o, view) ==
  [q EXCEPT !.cancel = IF @ = o THEN NoOp ELSE @,
            !.active = NoOp,
            !.pc[o] = "pause",
            !.kind[o] = "key",
            !.view = view]

(* Operation o wakes after interCommandDelayMs; processQueue follows.      *)
Wake(q, o) == [q EXCEPT !.pc[o] = "free"]

(* stop() empties the queue and forgets the active operation and any       *)
(* cancellation, whatever was enqueued or is still running.                *)
Reset(q) ==
  [q EXCEPT !.queue = EmptyQueue, !.active = NoOp, !.cancel = NoOp,
            !.pc = [o \in Ops |-> IF o \in Waiting(q) THEN "dropped" ELSE @[o]]]

(* An operation waits exactly when it is in the queue, and runs exactly    *)
(* when it is the active one.                                              *)
Consistent(q) ==
  /\ \A o \in Ops : q.pc[o] = "queued" <=> o \in Waiting(q)
  /\ \A o \in Ops : q.pc[o] \in Running <=> o = q.active

(* No key operation waits, and the one in execution is to be cancelled.    *)
KeysDrained(q) ==
  \A o \in KeyOps(q) :
    /\ q.pc[o] # "queued"
    /\ q.pc[o] \in {"checked", "writing"} => q.cancel = o
=============================================================================
