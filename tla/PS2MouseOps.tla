----------------------------- MODULE PS2MouseOps -----------------------------
(***************************************************************************)
(* The discrete operations of PS2MouseService and the chain of writes they *)
(* share with the movement ticks, as operators on a record q:              *)
(*   queue   the waiting operations (this.queue)                           *)
(*   active  this.active, or NoOp                                          *)
(*   cancel  this.activeCancel names the active operation                  *)
(*   pc      where the active operation is: "idle" when there is none,     *)
(*           "starting" until its first await returns, "first" in its      *)
(*           first write, "hold" between CLICK and RELEASE of a click,     *)
(*           "second" in its RELEASE                                       *)
(*   wire    who is in writeSeq: the head's bytes are at the port, the     *)
(*           others wait for it                                            *)
(*   down    this.buttonsDown                                              *)
(*   view    the slice the adapter keeps                                   *)
(***************************************************************************)
EXTENDS PS2MouseAdapter

CONSTANT NoOp                           \* no operation is active

(* A wheel stands for any operation of one write that leaves no state; a   *)
(* config operation writes nothing.                                        *)
Actions == [kind : {"down", "up", "click"}, button : Buttons]
Kinds == Actions \cup [kind : {"wheel", "config"}]

Writers == {"op", "move", "identify"}

OpStates ==
  [queue  : Seq(Kinds),
   active : Kinds \cup {NoOp},
   cancel : BOOLEAN,
   pc     : {"idle", "starting", "first", "hold", "second"},
   wire   : Seq(Writers),
   down   : SUBSET Buttons,
   view   : Views]

InitialOps ==
  [queue |-> <<>>, active |-> NoOp, cancel |-> FALSE, pc |-> "idle",
   wire |-> <<>>, down |-> {}, view |-> InitialView]

(* assertActiveOpNotCancelled throws.                                      *)
Cancelled(q) == q.active # NoOp /\ q.cancel

Publish(q, newView) == [q EXCEPT !.view = newView]

(* processQueue up to its first await.  Nothing waits while the host is    *)
(* off (HostOffDrainsOps), so the branch for that has nothing to shift.    *)
ProcessQueue(q) ==
  IF q.active # NoOp \/ q.queue = <<>> THEN q
  ELSE [q EXCEPT !.active = Head(q.queue), !.queue = Tail(@),
                 !.pc = "starting", !.view = OnStarted(@)]

(* The end of processQueue: the active operation's promise is settled and  *)
(* the next operation starts.                                              *)
Settle(q) ==
  ProcessQueue([q EXCEPT !.active = NoOp, !.cancel = FALSE, !.pc = "idle",
                         !.view = OnEnded(@)])

(* enqueueOp; the caller keeps it from a host that is off.                 *)
Enqueue(q, op) == ProcessQueue([q EXCEPT !.queue = Append(@, op)])

CancelActive(q) == IF q.active # NoOp THEN [q EXCEPT !.cancel = TRUE] ELSE q

(* cancelAll: every waiting operation is settled as cancelled, the active  *)
(* one is marked.                                                          *)
CancelAll(q) == CancelActive([q EXCEPT !.queue = <<>>])

(* Mutant: the function of a queued write does not ask again.              *)
JoinBlind(q, w, open) == open

(* What the function given to queueWrite finds when its turn comes: the    *)
(* write goes to the port, or it throws or returns without one.            *)
MayWrite(q, w, open) == open /\ ~Cancelled(q)

(* queueWrite(w): behind the others, or at once.                           *)
Join(q, w) == [q EXCEPT !.wire = Append(@, w)]
Leave(q) == [q EXCEPT !.wire = Tail(@)]

(* The writes of an operation change the buttons when they have been made. *)
Pressed(q, b) == [q EXCEPT !.down = @ \cup {b}]
Released(q, b) == [q EXCEPT !.down = @ \ {b}]

(* Which command the active operation is writing.                          *)
Command(q) ==
  IF q.active.kind \notin {"down", "up", "click"} THEN [kind |-> "WHEEL"]
  ELSE [kind |-> IF q.active.kind = "up" \/ q.pc = "second" THEN "RELEASE" ELSE "CLICK",
        button |-> q.active.button]

(* A button operation that finds its button where it wants it is a no-op,  *)
(* and so is a click on a button that is down.                             *)
NoOperation(q, op) ==
  \/ op.kind \in {"down", "click"} /\ op.button \in q.down
  \/ op.kind = "up" /\ op.button \notin q.down
=============================================================================
