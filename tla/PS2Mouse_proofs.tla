--------------------------- MODULE PS2Mouse_proofs ---------------------------
(***************************************************************************)
(* Proofs about PS2Mouse.  The chain of writes is never longer than an     *)
(* operation's write and a movement's, or the identify's alone; from there *)
(* follow what is sent to a host that is off, the buttons, and reconnects. *)
(***************************************************************************)
EXTENDS PS2Mouse, SequenceTheorems, TLAPS

(* The writes that ever wait for each other: an operation's and a          *)
(* movement's, in the order they came, or the identify's alone.            *)
OpChains == {<<"op">>, <<"op", "move">>, <<"move", "op">>}
MoveChains == {<<"move">>, <<"op", "move">>, <<"move", "op">>}
Chains == {<<>>, <<"identify">>} \cup OpChains \cup MoveChains

(* How such a chain grows and shrinks.                                     *)
LEMMA ChainSteps ==
  /\ <<>> \notin OpChains \cup MoveChains /\ <<>> # <<"identify">>
  /\ <<"identify">> \notin OpChains \cup MoveChains
  /\ <<"move">> \notin OpChains /\ <<"op">> \notin MoveChains
  /\ \A w \in Writers : Append(<<>>, w) = <<w>> /\ Head(<<w>>) = w /\ Tail(<<w>>) = <<>>
  /\ Append(<<"move">>, "op") = <<"move", "op">>
  /\ Append(<<"op">>, "move") = <<"op", "move">>
  /\ Head(<<"op", "move">>) = "op" /\ Tail(<<"op", "move">>) = <<"move">>
  /\ Head(<<"move", "op">>) = "move" /\ Tail(<<"move", "op">>) = <<"op">>
<1>1. /\ <<>> \notin OpChains \cup MoveChains /\ <<>> # <<"identify">>
      /\ <<"identify">> \notin OpChains \cup MoveChains
      /\ <<"move">> \notin OpChains /\ <<"op">> \notin MoveChains
  BY DEF OpChains, MoveChains
<1>2. \A w \in Writers : Append(<<>>, w) = <<w>> /\ Head(<<w>>) = w /\ Tail(<<w>>) = <<>>
  BY DEF Writers
<1>3. \A v, w \in Writers : Append(<<v>>, w) = <<v, w>>
  <2> TAKE v, w \in Writers
  <2>1. /\ Append(<<v>>, w) \in Seq(Writers) /\ <<v, w>> \in Seq(Writers)
        /\ Len(Append(<<v>>, w)) = 2 /\ Len(<<v, w>>) = 2
        /\ \A i \in 1..2 : Append(<<v>>, w)[i] = <<v, w>>[i]
    OBVIOUS
  <2> QED BY <2>1, SeqEqual
<1>4. /\ Head(<<"op", "move">>) = "op" /\ Tail(<<"op", "move">>) = <<"move">>
      /\ Head(<<"move", "op">>) = "move" /\ Tail(<<"move", "op">>) = <<"op">>
  OBVIOUS
<1> QED BY <1>1, <1>2, <1>3, <1>4 DEF Writers

LEMMA ChainHeads ==
  ASSUME NEW c \in Chains, c # <<>>
  PROVE  /\ Head(c) = "op" => c \in {<<"op">>, <<"op", "move">>}
         /\ Head(c) = "move" => c \in {<<"move">>, <<"move", "op">>}
         /\ Head(c) = "identify" => c = <<"identify">>
BY ChainSteps DEF Chains, OpChains, MoveChains, Writers

LEMMA ChainTypes == \A c \in Chains : c \in Seq(Writers) /\ Len(c) <= 2
<1>1. \A v, w \in Writers : /\ <<v, w>> \in Seq(Writers) /\ Len(<<v, w>>) = 2
                            /\ <<v>> \in Seq(Writers) /\ Len(<<v>>) = 1
  OBVIOUS
<1>2. <<>> \in Seq(Writers) /\ Len(<<>>) <= 2
  OBVIOUS
<1>3. "op" \in Writers /\ "move" \in Writers /\ "identify" \in Writers
  BY DEF Writers
<1>4. /\ <<"op">> \in Seq(Writers) /\ <<"move">> \in Seq(Writers)
      /\ <<"identify">> \in Seq(Writers)
      /\ Len(<<"op">>) <= 2 /\ Len(<<"move">>) <= 2 /\ Len(<<"identify">>) <= 2
  BY <1>1, <1>3
<1>5. /\ <<"op", "move">> \in Seq(Writers) /\ <<"move", "op">> \in Seq(Writers)
      /\ Len(<<"op", "move">>) <= 2 /\ Len(<<"move", "op">>) <= 2
  BY <1>1, <1>3
<1> QED BY <1>2, <1>4, <1>5, Zenon DEF Chains, OpChains, MoveChains

-----------------------------------------------------------------------------
(* The queue of operations *)

(* An operation is active exactly when it is somewhere, and only a click   *)
(* holds and writes a second time.                                         *)
Queued(s) ==
  /\ s \in OpStates /\ (s.active = NoOp <=> s.pc = "idle")
  /\ s.pc \in {"hold", "second"} => s.active.kind = "click"

(* What the runner of the queue leaves alone.                              *)
SameButtons(s, r) == r.wire = s.wire /\ r.down = s.down /\ r.view.held = s.view.held

LEMMA ProcessQueueEffect ==
  ASSUME NEW s, Queued(s)
  PROVE  /\ Queued(ProcessQueue(s)) /\ SameButtons(s, ProcessQueue(s))
         /\ s.active # NoOp \/ s.queue = <<>> => ProcessQueue(s) = s
         /\ s.active = NoOp => ProcessQueue(s).pc \in {"idle", "starting"}
<1>1. CASE s.active # NoOp \/ s.queue = <<>>
  BY <1>1 DEF ProcessQueue, Queued, SameButtons
<1>2. CASE s.active = NoOp /\ s.queue # <<>>
  <2>1. Head(s.queue) \in Kinds /\ Tail(s.queue) \in Seq(Kinds)
    BY <1>2 DEF Queued, OpStates
  <2>2. OnStarted(s.view) \in Views /\ OnStarted(s.view).held = s.view.held
    BY DEF Queued, OpStates, Views, OnStarted
  <2>3. ProcessQueue(s) = [s EXCEPT !.active = Head(s.queue), !.queue = Tail(s.queue),
                                    !.pc = "starting", !.view = OnStarted(s.view)]
    BY <1>2 DEF ProcessQueue, Queued, OpStates
  <2> QED BY <1>2, <2>1, <2>2, <2>3, NoOpAssumption DEF Queued, OpStates, SameButtons
<1> QED BY <1>1, <1>2

(* The active operation's promise is settled.                              *)
LEMMA SettleEffect ==
  ASSUME NEW s, s \in OpStates
  PROVE  /\ Queued(Settle(s)) /\ SameButtons(s, Settle(s))
         /\ Settle(s).pc \in {"idle", "starting"}
         /\ s.queue = <<>> => Settle(s).active = NoOp /\ Settle(s).queue = <<>>
<1> DEFINE r == [s EXCEPT !.active = NoOp, !.cancel = FALSE, !.pc = "idle",
                          !.view = OnEnded(s.view)]
<1>1. OnEnded(s.view) \in Views /\ OnEnded(s.view).held = s.view.held
  BY DEF OpStates, Views, OnEnded
<1>2. /\ Queued(r) /\ SameButtons(s, r)
      /\ r.active = NoOp /\ r.pc = "idle" /\ r.queue = s.queue
  BY <1>1 DEF Queued, OpStates, SameButtons
<1>3. Settle(s) = ProcessQueue(r)
  BY DEF Settle, OpStates
<1> HIDE DEF r
<1> QED BY <1>2, <1>3, ProcessQueueEffect DEF SameButtons

LEMMA EnqueueEffect ==
  ASSUME NEW s, Queued(s), NEW op \in Kinds
  PROVE  /\ Queued(Enqueue(s, op)) /\ SameButtons(s, Enqueue(s, op))
         /\ s.active # NoOp => /\ Enqueue(s, op).active = s.active
                               /\ Enqueue(s, op).pc = s.pc
         /\ s.active = NoOp => Enqueue(s, op).pc \in {"idle", "starting"}
<1> DEFINE r == [s EXCEPT !.queue = Append(s.queue, op)]
<1>0. s \in OpStates /\ Append(s.queue, op) \in Seq(Kinds)
  BY DEF Queued, OpStates
<1>1. /\ r \in OpStates /\ r.wire = s.wire /\ r.down = s.down /\ r.view = s.view
      /\ r.active = s.active /\ r.pc = s.pc
  BY <1>0 DEF OpStates
<1>2. Enqueue(s, op) = ProcessQueue(r)
  BY DEF Enqueue, Queued, OpStates
<1> HIDE DEF r
<1> QED BY <1>1, <1>2, ProcessQueueEffect DEF SameButtons, Queued

LEMMA CancelAllEffect ==
  ASSUME NEW s, Queued(s)
  PROVE  /\ Queued(CancelAll(s)) /\ SameButtons(s, CancelAll(s))
         /\ CancelAll(s).view = s.view
         /\ CancelAll(s).active = s.active /\ CancelAll(s).pc = s.pc
         /\ CancelAll(s).queue = <<>> /\ (s.active # NoOp => CancelAll(s).cancel)
<1> DEFINE r == [s EXCEPT !.queue = <<>>]
<1>0. s \in OpStates /\ <<>> \in Seq(Kinds)
  BY DEF Queued
<1>1. /\ r \in OpStates /\ r.queue = <<>> /\ r.active = s.active /\ r.pc = s.pc
      /\ r.wire = s.wire /\ r.down = s.down /\ r.view = s.view
  BY <1>0 DEF OpStates
<1>2. CancelAll(s) = IF r.active # NoOp THEN [r EXCEPT !.cancel = TRUE] ELSE r
  BY DEF CancelAll, CancelActive
<1> HIDE DEF r
<1> QED BY <1>1, <1>2 DEF Queued, OpStates, SameButtons

(* closePort forgets the buttons too.                                      *)
LEMMA ClosedEffect ==
  ASSUME NEW s, Queued(s)
  PROVE  /\ Queued(Closed(s)) /\ Closed(s).wire = s.wire /\ Closed(s).view = s.view
         /\ Closed(s).active = s.active /\ Closed(s).pc = s.pc /\ Closed(s).down = {}
         /\ Closed(s).queue = <<>> /\ (s.active # NoOp => Closed(s).cancel)
<1> DEFINE r == CancelAll(s)
<1>1. /\ Queued(r) /\ SameButtons(s, r) /\ r.view = s.view
      /\ r.active = s.active /\ r.pc = s.pc
      /\ r.queue = <<>> /\ (s.active # NoOp => r.cancel)
  BY CancelAllEffect
<1>2. Closed(s) = [r EXCEPT !.down = {}]
  BY DEF Closed
<1> HIDE DEF r
<1> QED BY <1>1, <1>2 DEF Queued, OpStates, SameButtons

(* What an event shows changes nothing but the slice.                      *)
LEMMA PublishEffect ==
  ASSUME NEW s, Queued(s), NEW v \in Views
  PROVE  /\ Queued(Publish(s, v)) /\ Publish(s, v).view = v
         /\ Publish(s, v).wire = s.wire /\ Publish(s, v).down = s.down
         /\ Publish(s, v).active = s.active /\ Publish(s, v).pc = s.pc
         /\ Publish(s, v).queue = s.queue /\ Publish(s, v).cancel = s.cancel
BY DEF Publish, Queued, OpStates

LEMMA EventViews ==
  ASSUME NEW v \in Views
  PROVE  /\ OnConnected(v) \in Views /\ OnConnected(v).held = {}
         /\ OnDisconnected(v) \in Views /\ OnDisconnected(v).held = {}
         /\ OnLost(v) \in Views /\ OnLost(v).held = {}
         /\ OnFatal(v) \in Views /\ OnFatal(v).held = v.held
         /\ \A w \in {"start", "success", "failed"} :
              OnIdentify(v, w) \in Views /\ OnIdentify(v, w).held = v.held
         /\ \A b \in Buttons :
              /\ OnButton(v, b, "down") \in Views
              /\ OnButton(v, b, "down").held = v.held \cup {b}
              /\ OnButton(v, b, "up") \in Views
              /\ OnButton(v, b, "up").held = v.held \ {b}
BY DEF Views, ViewPhases, OnConnected, OnDisconnected, OnLost, FreshSession, OnFatal,
       OnIdentify, OnButton

-----------------------------------------------------------------------------
(* The chain of writes *)

(* s is in the chain when it is in its first or second write, a movement   *)
(* when a tick m waits for it, and the identify, at o, when it writes; and *)
(* the identify never meets the others.                                    *)
Wired(s, m, o) ==
  /\ Queued(s) /\ s.wire \in Chains
  /\ s.wire \in OpChains <=> s.pc \in {"first", "second"}
  /\ s.wire \in MoveChains <=> m # NoMove
  /\ s.wire = <<"identify">> <=> o \in {"request", "completion"}
  /\ o \in {"request", "awaitToken", "completion"} =>
       s.pc \in {"idle", "starting"} /\ m = NoMove

(* What leaves the chain alone: operations start and settle, the opener    *)
(* goes where it writes nothing.                                           *)
LEMMA WiredKept ==
  ASSUME NEW s, NEW m, NEW o, Wired(s, m, o), NEW r, Queued(r), r.wire = s.wire,
         r.pc = s.pc \/ {r.pc, s.pc} \subseteq {"idle", "starting", "hold"},
         o \in {"request", "awaitToken", "completion"} => r.pc # "hold",
         NEW p, p = o \/ {p, o} \cap {"request", "awaitToken", "completion"} = {}
                      \/ (o = "awaitToken" /\ p = "failing")
  PROVE  Wired(r, m, p)
BY DEF Wired

(* The operation's write has ended: what is left is a movement that may    *)
(* write, or nothing.                                                      *)
LEMMA AfterOp ==
  ASSUME NEW m, NEW o, Wired(q, m, o), q.wire # <<>>, Head(q.wire) = "op"
  PROVE  \E w \in {<<>>, <<"move">>} :
           /\ Promote(Leave(q)) = [q EXCEPT !.wire = w]
           /\ w = <<"move">> <=> m # NoMove /\ ~MoveRefused(Leave(q))
           /\ w = <<"move">> => MayWrite(q, "move", Open)
<1>1. q \in OpStates /\ q.wire \in {<<"op">>, <<"op", "move">>}
  BY ChainHeads DEF Wired, Queued
<1>2. /\ Leave(q) = [q EXCEPT !.wire = Tail(q.wire)]
      /\ Leave(q).wire = Tail(q.wire) /\ Cancelled(Leave(q)) = Cancelled(q)
      /\ Leave(Leave(q)) = [q EXCEPT !.wire = Tail(Tail(q.wire))]
  BY <1>1 DEF Leave, OpStates, Cancelled
<1>3. CASE q.wire = <<"op">>
  <2>1. Leave(q).wire = <<>> /\ m = NoMove
    BY <1>2, <1>3, ChainSteps DEF Writers, Wired
  <2>2. Promote(Leave(q)) = [q EXCEPT !.wire = <<>>] /\ <<>> # <<"move">>
    BY <1>2, <2>1 DEF Promote
  <2> QED BY <2>1, <2>2
<1>4. CASE q.wire = <<"op", "move">>
  <2>1. /\ Leave(q).wire = <<"move">> /\ Head(Leave(q).wire) = "move" /\ m # NoMove
        /\ Tail(Leave(q).wire) = <<>> /\ <<"move">> # <<>>
    BY <1>2, <1>4, ChainSteps DEF Writers, Wired, MoveChains
  <2>2. CASE MayWrite(Leave(q), "move", Open)
    <3>1. Promote(Leave(q)) = [q EXCEPT !.wire = <<"move">>]
      BY <1>2, <2>1, <2>2 DEF Promote
    <3> QED BY <1>2, <2>1, <2>2, <3>1 DEF MoveRefused, MayWrite
  <2>3. CASE ~MayWrite(Leave(q), "move", Open)
    <3>1. Promote(Leave(q)) = [q EXCEPT !.wire = <<>>]
      BY <1>2, <2>1, <2>3 DEF Promote
    <3> QED BY <2>1, <2>3, <3>1 DEF MoveRefused
  <2> QED BY <2>2, <2>3
<1> QED BY <1>1, <1>3, <1>4

(* The movement's write has ended: an operation that waits writes or, when *)
(* it may not, fails.                                                      *)
LEMMA AfterMove ==
  ASSUME NEW m, NEW o, Wired(q, m, o), q.wire # <<>>, Head(q.wire) = "move"
  PROVE  /\ Wired(Promote(Leave(q)), NoMove, o)
         /\ Promote(Leave(q)).down = q.down
         /\ Promote(Leave(q)).view.held = q.view.held
         /\ Promote(Leave(q)).wire # <<>> =>
              /\ Promote(Leave(q)).wire = <<"op">> /\ MayWrite(q, "op", Open)
              /\ q.wire = <<"move", "op">>
         /\ q.queue = <<>> /\ (q.active = NoOp \/ q.cancel) =>
              /\ Promote(Leave(q)).queue = <<>>
              /\ Promote(Leave(q)).active = NoOp \/ Promote(Leave(q)).cancel
<1>1. q \in OpStates /\ q.wire \in {<<"move">>, <<"move", "op">>}
  BY ChainHeads DEF Wired, Queued
<1>2. /\ Leave(q) = [q EXCEPT !.wire = Tail(q.wire)]
      /\ Leave(q).wire = Tail(q.wire) /\ Cancelled(Leave(q)) = Cancelled(q)
      /\ Leave(Leave(q)) = [q EXCEPT !.wire = Tail(Tail(q.wire))]
  BY <1>1 DEF Leave, OpStates, Cancelled
<1>3. o \notin {"request", "awaitToken", "completion"}
  BY <1>1, ChainSteps DEF Wired, MoveChains, OpChains
<1>4. /\ <<>> \in Chains /\ <<"op">> \in Chains /\ <<"op">> \in OpChains
      /\ <<"op">> # <<"identify">>
  BY ChainSteps DEF Chains, OpChains
<1>5. CASE q.wire = <<"move">>
  <2> DEFINE r == [q EXCEPT !.wire = <<>>]
  <2>1. Leave(q) = r /\ r.wire = <<>> /\ q.pc \notin {"first", "second"}
    BY <1>1, <1>2, <1>5, ChainSteps DEF Writers, Wired, OpStates
  <2>2. /\ r \in OpStates /\ r.active = q.active /\ r.pc = q.pc
        /\ r.down = q.down /\ r.view = q.view
        /\ r.queue = q.queue /\ r.cancel = q.cancel
    BY <1>1, <1>4, ChainTypes DEF OpStates
  <2> HIDE DEF r
  <2>3. Promote(Leave(q)) = r
    BY <2>1 DEF Promote
  <2>4. Wired(r, NoMove, o)
    BY <1>3, <1>4, <2>1, <2>2, ChainSteps DEF Wired, Queued
  <2> QED BY <2>1, <2>2, <2>3, <2>4
<1>6. CASE q.wire = <<"move", "op">>
  <2> DEFINE r == [q EXCEPT !.wire = <<"op">>]
             e == [q EXCEPT !.wire = <<>>]
  <2>1. /\ Leave(q) = r /\ r.wire = <<"op">> /\ Head(r.wire) = "op" /\ r.wire # <<>>
        /\ Leave(r) = e /\ q.pc \in {"first", "second"}
    BY <1>1, <1>2, <1>6, ChainSteps DEF Writers, Wired, OpStates, OpChains
  <2>2. /\ r \in OpStates /\ r.active = q.active /\ r.pc = q.pc
        /\ r.down = q.down /\ r.view = q.view
        /\ r.queue = q.queue /\ r.cancel = q.cancel
    BY <1>1, <1>4, ChainTypes DEF OpStates
  <2>3. /\ e \in OpStates /\ e.wire = <<>> /\ e.down = q.down /\ e.view = q.view
        /\ e.queue = q.queue
    BY <1>1, <1>4, ChainTypes DEF OpStates
  <2> HIDE DEF r, e
  <2>4. CASE MayWrite(r, "op", Open)
    <3>1. Promote(Leave(q)) = r
      BY <2>1, <2>4 DEF Promote
    <3>2. Wired(r, NoMove, o)
      BY <1>3, <1>4, <2>1, <2>2, ChainSteps DEF Wired, Queued
    <3> QED BY <1>2, <1>6, <2>1, <2>2, <2>4, <3>1, <3>2 DEF MayWrite
  <2>5. CASE ~MayWrite(r, "op", Open)
    <3>1. Promote(Leave(q)) = Settle(e)
      BY <2>1, <2>5 DEF Promote
    <3>2. /\ Queued(Settle(e)) /\ SameButtons(e, Settle(e))
          /\ Settle(e).pc \in {"idle", "starting"}
      BY <2>3, SettleEffect
    <3>3. q.queue = <<>> => Settle(e).active = NoOp /\ Settle(e).queue = <<>>
      BY <2>3, SettleEffect
    <3>4. Wired(Settle(e), NoMove, o)
      BY <1>3, <1>4, <2>3, <3>2, ChainSteps DEF Wired, SameButtons
    <3> QED BY <2>3, <3>1, <3>2, <3>3, <3>4 DEF SameButtons
  <2> QED BY <2>4, <2>5
<1> QED BY <1>1, <1>5, <1>6

(* The buttons that s holds once its write, of an operation, has been made *)
(* are those of the board that has performed it, and more.                 *)
LEMMA AfterWriteEffect ==
  ASSUME NEW s \in OpStates, s.active \in Kinds,
         s.pc = "second" => s.active.kind = "click"
  PROVE  /\ Queued(AfterWrite(s)) /\ AfterWrite(s).wire = s.wire
         /\ AfterWrite(s).pc \in {"idle", "starting", "hold"}
         /\ s.queue = <<>> /\ s.cancel =>
              AfterWrite(s).active = NoOp /\ AfterWrite(s).queue = <<>>
         /\ s.view.held \subseteq s.down =>
              AfterWrite(s).view.held \subseteq AfterWrite(s).down
         /\ Command(s).kind \in {"CLICK", "RELEASE", "WHEEL"}
         /\ Command(s).kind = "CLICK" =>
              /\ Command(s).button \in Buttons
              /\ AfterWrite(s).down = s.down \cup {Command(s).button}
         /\ Command(s).kind = "RELEASE" =>
              /\ Command(s).button \in Buttons
              /\ s.down \ {Command(s).button} \subseteq AfterWrite(s).down
         /\ Command(s).kind = "WHEEL" => AfterWrite(s).down = s.down
<1> DEFINE b == s.active.button
           pressed == [s EXCEPT !.down = s.down \cup {b}]
           released == [s EXCEPT !.down = s.down \ {b}]
           shownDown == [pressed EXCEPT !.view = OnButton(s.view, b, "down")]
           shownUp == [released EXCEPT !.view = OnButton(s.view, b, "up")]
<1>1. s.active.kind \in {"down", "up", "click"} => b \in Buttons
  BY DEF Kinds, Actions
<1>2. s.active # NoOp
  BY NoOpAssumption
<1>3. CASE s.active.kind \notin {"down", "up", "click"}
  <2>1. AfterWrite(s) = Settle(s) /\ Command(s) = [kind |-> "WHEEL"]
    BY <1>3 DEF AfterWrite, Command
  <2> QED BY <2>1, SettleEffect DEF SameButtons
<1>4. CASE s.active.kind \in {"down", "up", "click"}
  <2>0. /\ b \in Buttons /\ s.view \in Views
        /\ Pressed(s, b) = pressed /\ Released(s, b) = released
    BY <1>1, <1>4 DEF Pressed, Released, OpStates
  <2>1. /\ pressed \in OpStates /\ pressed.wire = s.wire /\ pressed.queue = s.queue
        /\ pressed.down = s.down \cup {b} /\ pressed.view = s.view
        /\ pressed.active = s.active /\ pressed.cancel = s.cancel
    BY <2>0 DEF OpStates
  <2>2. /\ shownDown \in OpStates /\ shownDown.wire = s.wire /\ shownDown.queue = s.queue
        /\ shownDown.down = s.down \cup {b} /\ shownDown.view.held = s.view.held \cup {b}
        /\ Publish(Pressed(s, b), OnButton(s.view, b, "down")) = shownDown
    <3>1. /\ OnButton(s.view, b, "down") \in Views
          /\ OnButton(s.view, b, "down").held = s.view.held \cup {b}
      BY <2>0, EventViews
    <3> QED BY <2>0, <3>1 DEF OpStates, Publish
  <2>3. /\ shownUp \in OpStates /\ shownUp.wire = s.wire /\ shownUp.queue = s.queue
        /\ shownUp.down = s.down \ {b} /\ shownUp.view.held = s.view.held \ {b}
        /\ Publish(Released(s, b), OnButton(s.view, b, "up")) = shownUp
    <3>1. /\ OnButton(s.view, b, "up") \in Views
          /\ OnButton(s.view, b, "up").held = s.view.held \ {b}
      BY <2>0 DEF OnButton, Views
    <3> QED BY <2>0, <3>1 DEF OpStates, Publish
  <2> HIDE DEF pressed, released, shownDown, shownUp
  <2>4. CASE s.active.kind = "down"
    <3>1. AfterWrite(s) = Settle(shownDown)
      BY <2>0, <2>2, <2>4 DEF AfterWrite
    <3>2. Command(s).button = b /\ Command(s).kind \in {"CLICK", "RELEASE"}
      BY <2>4 DEF Command
    <3> QED BY <2>0, <2>2, <3>1, <3>2, SettleEffect DEF SameButtons
  <2>5. CASE s.active.kind = "up" \/ (s.active.kind = "click" /\ s.pc = "second")
    <3>1. AfterWrite(s) = Settle(shownUp)
      BY <2>0, <2>3, <2>5 DEF AfterWrite
    <3>2. Command(s).button = b /\ Command(s).kind = "RELEASE"
      BY <2>5 DEF Command
    <3> QED BY <2>0, <2>3, <3>1, <3>2, SettleEffect DEF SameButtons
  <2>6. CASE s.active.kind = "click" /\ s.pc # "second"
    <3>1. Command(s).button = b /\ Command(s).kind = "CLICK"
      BY <2>6 DEF Command
    <3>2. CASE s.cancel
      <4>1. AfterWrite(s) = Settle(pressed)
        BY <2>0, <2>6, <3>2 DEF AfterWrite
      <4> QED BY <2>0, <2>1, <3>1, <4>1, SettleEffect DEF SameButtons
    <3>3. CASE ~s.cancel
      <4>1. AfterWrite(s) = [pressed EXCEPT !.pc = "hold"]
        BY <2>0, <2>6, <3>3 DEF AfterWrite
      <4> DEFINE held == [pressed EXCEPT !.pc = "hold"]
      <4>2. /\ held \in OpStates /\ held.pc = "hold" /\ held.active = s.active
            /\ held.wire = s.wire /\ held.view = s.view /\ held.down = s.down \cup {b}
        BY <2>1 DEF OpStates
      <4> HIDE DEF held
      <4>3. AfterWrite(s) = held
        BY <4>1 DEF held
      <4> QED BY <1>2, <2>0, <2>6, <3>1, <3>3, <4>2, <4>3 DEF Queued
    <3> QED BY <3>2, <3>3
  <2> QED BY <1>4, <2>4, <2>5, <2>6
<1> QED BY <1>3, <1>4

-----------------------------------------------------------------------------
(* What the connection makes of the queue *)

(* The operations and their writes stay where they are.                    *)
Stays(s, r) ==
  /\ Queued(r) /\ r.wire = s.wire /\ r.pc = s.pc /\ r.active = s.active
  /\ s.queue = <<>> => r.queue = <<>>
  /\ s.active # NoOp /\ s.cancel => r.cancel

LEMMA StaysTransitive ==
  ASSUME NEW r, NEW s, NEW t, Stays(r, s), Stays(s, t)
  PROVE  Stays(r, t)
BY DEF Stays

LEMMA ClosingStays ==
  ASSUME NEW s, Queued(s)
  PROVE  /\ Stays(s, CancelAll(s))
         /\ Stays(s, Closed(s)) /\ Closed(s).view = s.view
         /\ Stays(s, Disconnected(s)) /\ Disconnected(s).view.held = {}
         /\ Disconnected(s).down = s.down
         /\ Stays(s, NothingToClose(s)) /\ NothingToClose(s).down = s.down
         /\ NothingToClose(s).view.held \in {{}, s.view.held}
         /\ known => NothingToClose(s).view.held = {}
         /\ Stays(s, Publish(s, OnLost(s.view)))
         /\ Publish(s, OnLost(s.view)).view.held = {}
         /\ \A w \in {"start", "success", "failed"} :
              /\ Stays(s, Publish(s, OnIdentify(s.view, w)))
              /\ Publish(s, OnIdentify(s.view, w)).view.held = s.view.held
              /\ Publish(s, OnIdentify(s.view, w)).down = s.down
<1>1. s.view \in Views /\ Stays(s, s)
  BY DEF Queued, OpStates, Stays
<1>2. Stays(s, CancelAll(s)) /\ Stays(s, Closed(s)) /\ Closed(s).view = s.view
  <2>1. Stays(s, CancelAll(s))
    BY CancelAllEffect DEF Stays, SameButtons
  <2>2. Stays(s, Closed(s)) /\ Closed(s).view = s.view
    BY ClosedEffect DEF Stays
  <2> QED BY <2>1, <2>2
<1>3. ASSUME NEW v \in Views
      PROVE  /\ Stays(s, Publish(s, v)) /\ Publish(s, v).view = v
             /\ Publish(s, v).down = s.down
  BY <1>3, PublishEffect DEF Stays
<1>4. /\ OnDisconnected(s.view) \in Views /\ OnDisconnected(s.view).held = {}
      /\ OnLost(s.view) \in Views /\ OnLost(s.view).held = {}
      /\ \A w \in {"start", "success", "failed"} :
           OnIdentify(s.view, w) \in Views /\ OnIdentify(s.view, w).held = s.view.held
  BY <1>1, EventViews
<1>5. /\ Stays(s, Disconnected(s)) /\ Disconnected(s).view.held = {}
      /\ Disconnected(s).down = s.down
  BY <1>3, <1>4 DEF Disconnected
<1>6. NothingToClose(s) = IF known THEN Disconnected(s) ELSE s
  BY DEF NothingToClose
<1>7. /\ Stays(s, NothingToClose(s)) /\ NothingToClose(s).down = s.down
      /\ NothingToClose(s).view.held \in {{}, s.view.held}
      /\ known => NothingToClose(s).view.held = {}
  BY <1>1, <1>5, <1>6
<1> QED BY <1>2, <1>3, <1>4, <1>5, <1>7

(* scheduleReconnect sets its timer, or finds that there is to be no other *)
(* attempt and shows that.                                                 *)
LEMMA ReconnectTypes ==
  ASSUME NEW s, TypeOK, ScheduleReconnect(s)
  PROVE  /\ timer' \in BOOLEAN /\ attempts' \in 0..MaxAttempts
         /\ ~Stopping /\ known => timer' \/ Exhausted'
<1>1. attempts \in 0..MaxAttempts /\ MaxAttempts \in Nat
  BY MouseAssumption DEF TypeOK
<1>2. attempts' \in 0..MaxAttempts
  BY <1>1 DEF ScheduleReconnect, Exhausted
<1>3. timer' \in BOOLEAN
  <2>1. timer \in BOOLEAN /\ Exhausted \in BOOLEAN
    BY DEF TypeOK, Exhausted
  <2>2. timer' = IF ~Stopping /\ known THEN ~Exhausted ELSE timer
    BY DEF ScheduleReconnect
  <2>3. timer' = ~Exhausted \/ timer' = timer
    BY <2>2
  <2> QED BY <2>1, <2>3
<1>4. ASSUME ~Stopping, known PROVE timer' \/ Exhausted'
  BY <1>1, <1>4 DEF ScheduleReconnect, Exhausted
<1> QED BY <1>2, <1>3, <1>4

LEMMA ScheduleReconnectEffect ==
  ASSUME NEW s, Queued(s), ScheduleReconnect(s)
  PROVE  Stays(s, q') /\ q'.down = s.down /\ q'.view.held = s.view.held
<1>1. s.view \in Views
  BY DEF Queued, OpStates
<1>2. q' = s \/ q' = Publish(s, OnFatal(s.view))
  BY DEF ScheduleReconnect
<1>6. /\ Stays(s, Publish(s, OnFatal(s.view)))
      /\ Publish(s, OnFatal(s.view)).down = s.down
      /\ Publish(s, OnFatal(s.view)).view.held = s.view.held
  <2>1. OnFatal(s.view) \in Views /\ OnFatal(s.view).held = s.view.held
    BY <1>1, EventViews
  <2> QED BY <2>1, PublishEffect DEF Stays
<1>7. Stays(s, s)
  BY DEF Stays
<1> QED BY <1>2, <1>6, <1>7

-----------------------------------------------------------------------------
(* The chain is wired until stop() has ended, and is short even then.      *)
Chained ==
  /\ Queued(q) /\ q.wire \in Chains
  /\ identified => opener = "idle"
  /\ opener \in {"preClose", "opening"} => port # "open"
  /\ stop # "done" => Wired(q, tick, opener)

(* Steps that leave the operations where they are and identify no board.   *)
LEMMA StaysChained ==
  ASSUME Chained, stop # "done", Stays(q, q'), UNCHANGED tick,
         \/ opener' = opener
         \/ {opener', opener} \cap {"request", "awaitToken", "completion"} = {}
         \/ opener = "awaitToken" /\ opener' = "failing",
         identified' => opener' = "idle",
         opener' \in {"preClose", "opening"} => port' # "open"
  PROVE  Chained'
<1>1. Wired(q, tick, opener)
  BY DEF Chained
<1>2. Wired(q', tick, opener')
  BY <1>1 DEF Stays, Wired
<1> QED BY <1>2 DEF Chained, Stays, Wired

LEMMA ConnectionChained == ASSUME TypeOK, Chained, stop # "done", Connection PROVE Chained'
<1>0. /\ Queued(q) /\ q \in OpStates /\ Wired(q, tick, opener)
      /\ identified => opener = "idle"
      /\ opener \in {"preClose", "opening"} => port # "open"
  BY DEF Chained, Queued
<1>1. /\ Queued(Closed(q)) /\ Stays(q, q)
      /\ Stays(q, Disconnected(q)) /\ Stays(q, Closed(q))
      /\ Stays(q, NothingToClose(Closed(q))) /\ Stays(q, Publish(q, OnLost(q.view)))
  <2>1. Stays(q, Closed(q)) /\ Queued(Closed(q))
    BY <1>0, ClosingStays DEF Stays
  <2>2. Stays(q, NothingToClose(Closed(q)))
    BY <2>1, ClosingStays, StaysTransitive
  <2>3. Stays(q, q)
    BY <1>0 DEF Stays
  <2> QED BY <1>0, <2>1, <2>2, <2>3, ClosingStays
<1>2. ASSUME NEW s, Queued(s), Stays(q, s), ScheduleReconnect(s) PROVE Stays(q, q')
  <2>1. Stays(s, q')
    BY <1>2, ScheduleReconnectEffect
  <2> QED BY <1>2, <2>1, StaysTransitive
<1>3. CASE PreCloseDone
  BY <1>0, <1>1, <1>3, StaysChained DEF PreCloseDone, BeginOpening, motion
<1>4. CASE OpenFails
  BY <1>0, <1>1, <1>2, <1>4, StaysChained DEF OpenFails, motion
<1>5. CASE OpenSucceeds
  <2> DEFINE fresh == [CancelAll(q) EXCEPT !.down = {}]
             told == Publish(fresh, OnIdentify(OnConnected(q.view), "start"))
  <2>1. q.wire = <<>> /\ q.pc \notin {"first", "second"} /\ tick = NoMove
    BY <1>0, <1>5, ChainSteps DEF OpenSucceeds, WritesOver, Open, Wired
  <2>2. Queued(fresh) /\ fresh.wire = q.wire /\ fresh.pc = q.pc /\ fresh.active = q.active
        /\ (q.active # NoOp => fresh.cancel)
    <3>1. fresh = Closed(q)
      BY DEF Closed
    <3> HIDE DEF fresh
    <3> QED BY <1>0, <3>1, ClosedEffect
  <2>3. OnIdentify(OnConnected(q.view), "start") \in Views
    <3>1. q.view \in Views
      BY <1>0 DEF OpStates
    <3>2. OnConnected(q.view) \in Views
      BY <3>1, EventViews
    <3> QED BY <3>2, EventViews
  <2> HIDE DEF fresh
  <2>4. Queued(told) /\ told.wire = <<>> /\ told.pc = q.pc /\ told.active = q.active
    BY <2>1, <2>2, <2>3, PublishEffect
  <2> HIDE DEF told
  <2>5. /\ tick' = NoMove /\ identified' = FALSE /\ stop' = stop
        /\ IF Cancelled(fresh) THEN opener' = "failing" /\ q' = told
           ELSE opener' = "request" /\ q' = Join(told, "identify")
    BY <1>0, <1>5, <2>1 DEF OpenSucceeds, ClearMovement, fresh, told
  <2>6. CASE Cancelled(fresh)
    <3>1. Wired(q', tick', opener')
      BY <2>1, <2>4, <2>5, <2>6, ChainSteps DEF Wired, Chains
    <3> QED BY <2>5, <2>6, <3>1 DEF Chained, Wired
  <2>7. CASE ~Cancelled(fresh)
    <3>1. q.pc = "idle" /\ told.active = NoOp
      BY <1>0, <2>2, <2>4, <2>7 DEF Cancelled, Queued
    <3>2. /\ Queued(Join(told, "identify")) /\ Join(told, "identify").wire = <<"identify">>
          /\ Join(told, "identify").pc = "idle"
      <4>1. Append(<<>>, "identify") = <<"identify">> /\ <<"identify">> \in Seq(Writers)
        BY ChainSteps, ChainTypes DEF Writers, Chains
      <4>2. Join(told, "identify") = [told EXCEPT !.wire = <<"identify">>]
        BY <2>4, <4>1 DEF Join, Queued, OpStates
      <4> QED BY <2>4, <3>1, <4>1, <4>2 DEF Queued, OpStates
    <3>3. Wired(q', tick', opener')
      BY <2>5, <2>7, <3>2, ChainSteps DEF Wired, Chains
    <3> QED BY <2>5, <2>7, <3>3 DEF Chained, Wired
  <2> QED BY <2>6, <2>7
<1>6. CASE OpenedWhileStopping \/ StopCloseDone \/ TokenTimeout
  BY <1>0, <1>1, <1>6, StaysChained
  DEF OpenedWhileStopping, StopCloseDone, TokenTimeout, motion
<1>7. CASE RequestWritten \/ Identified \/ IdentifyWriteFails
  <2>1. q.wire = <<"identify">> /\ opener \in {"request", "completion"}
    BY <1>0, <1>7, ChainHeads
    DEF RequestWritten, Identified, IdentifyWriteFails, IdentifyWriting, Wired
  <2>2. q.pc \in {"idle", "starting"} /\ tick = NoMove
    BY <1>0, <2>1 DEF Wired
  <2>3. Queued(Leave(q)) /\ Leave(q).wire = <<>> /\ Leave(q).pc = q.pc
    <3>1. Leave(q) = [q EXCEPT !.wire = <<>>] /\ <<>> \in Seq(Writers)
      BY <1>0, <2>1, ChainSteps DEF Leave, OpStates, Writers
    <3> QED BY <1>0, <3>1 DEF Queued, OpStates
  <2>4. Queued(q') /\ q'.wire = <<>> /\ q'.pc = q.pc
    <3>1. q' = Leave(q) \/ q' = Publish(Leave(q), OnIdentify(Leave(q).view, "success"))
      BY <1>7 DEF RequestWritten, Identified, IdentifyWriteFails
    <3>2. Stays(Leave(q), Publish(Leave(q), OnIdentify(Leave(q).view, "success")))
      BY <2>3, ClosingStays
    <3> QED BY <2>3, <3>1, <3>2 DEF Stays
  <2>5. /\ tick' = NoMove /\ stop' = stop /\ opener' \in {"awaitToken", "idle", "failing"}
        /\ identified' => opener' = "idle"
    BY <1>0, <1>7, <2>1, <2>2
    DEF RequestWritten, Identified, IdentifyWriteFails, motion
  <2>6. Wired(q', tick', opener')
    BY <2>2, <2>4, <2>5, ChainSteps DEF Wired, Chains
  <2> QED BY <2>5, <2>6 DEF Chained, Wired
<1>8. CASE TokenRead
  <2>1. /\ q.wire = <<>> /\ opener = "awaitToken" /\ q.pc \in {"idle", "starting"}
        /\ tick = NoMove /\ tick' = tick /\ stop' = stop /\ identified' = FALSE
    BY <1>0, <1>8 DEF TokenRead, Wired, motion
  <2>2. CASE opener' = "failing" /\ q' = q
    <3>1. Wired(q', tick', opener')
      BY <1>0, <2>1, <2>2, ChainSteps DEF Wired
    <3> QED BY <2>1, <2>2, <3>1 DEF Chained, Wired
  <2>3. CASE opener' = "completion" /\ q' = Join(q, "identify")
    <3>1. Append(<<>>, "identify") = <<"identify">> /\ <<"identify">> \in Seq(Writers)
      BY ChainSteps, ChainTypes DEF Writers, Chains
    <3>2. q' = [q EXCEPT !.wire = <<"identify">>]
      BY <2>1, <2>3, <3>1 DEF Join
    <3>3. Queued(q') /\ q'.wire = <<"identify">> /\ q'.pc = q.pc
      BY <1>0, <3>1, <3>2 DEF Queued, OpStates
    <3>4. Wired(q', tick', opener')
      BY <2>1, <2>3, <3>3, ChainSteps DEF Wired, Chains
    <3> QED BY <2>1, <2>3, <3>4 DEF Chained, Wired
  <2> QED BY <1>8, <2>2, <2>3 DEF TokenRead
<1>9. CASE IdentifyFails
  <2> DEFINE f == Publish(q, OnIdentify(q.view, "failed"))
             s == Closed(f)
  <2>1. Stays(q, f) /\ Queued(f)
    BY <1>0, ClosingStays DEF Stays
  <2>2. Stays(f, s) /\ Queued(s)
    <3> HIDE DEF f
    <3> QED BY <2>1, ClosingStays DEF Stays
  <2>3. /\ identified' = FALSE /\ tick' = tick /\ opener = "failing"
        /\ \/ opener' = "failClose" /\ q' = s
           \/ opener' = "idle" /\ ScheduleReconnect(NothingToClose(s))
    BY <1>9 DEF IdentifyFails, ClosePort
  <2> HIDE DEF f, s
  <2>4. Stays(q, s) /\ Stays(q, NothingToClose(s)) /\ Queued(NothingToClose(s))
    <3>1. Stays(q, s)
      BY <2>1, <2>2, StaysTransitive
    <3>2. Stays(s, NothingToClose(s))
      BY <2>2, ClosingStays
    <3>3. Stays(q, NothingToClose(s))
      BY <3>1, <3>2, StaysTransitive
    <3> QED BY <3>1, <3>3 DEF Stays
  <2>5. Stays(q, q')
    BY <1>2, <2>3, <2>4
  <2> QED BY <2>3, <2>5, StaysChained
<1>10. CASE FailCloseDone \/ IoCloseDone
  BY <1>0, <1>1, <1>2, <1>10, StaysChained
  DEF FailCloseDone, IoCloseDone, Stays, link, motion
<1>11. CASE TokenArrives \/ Unplug
  BY <1>0, <1>1, <1>11, StaysChained DEF TokenArrives, Unplug, Open, motion
<1>12. CASE PortError
  BY <1>0, <1>1, <1>12, StaysChained DEF PortError, ClosePort, FailWaiters
<1>13. CASE PortCloseEvent
  <2>1. Stays(q, q')
    BY <1>1, <1>2, <1>13 DEF PortCloseEvent, Stays
  <2> QED BY <1>0, <1>13, <2>1, StaysChained DEF PortCloseEvent, ClosePort, FailWaiters
<1>14. CASE TimerFires
  <2>1. CASE UNCHANGED <<link, q, motion>>
    BY <1>0, <1>1, <2>1, StaysChained DEF link, motion
  <2>2. CASE OpenPort /\ opener = "idle"
    BY <1>0, <1>1, <2>2, StaysChained
    DEF OpenPort, ClosePort, BeginOpening, Open, motion
  <2> QED BY <1>14, <2>1, <2>2 DEF TimerFires, OpenPort
<1>15. CASE LostCloseDone
  BY <1>0, <1>1, <1>15, StaysChained DEF LostCloseDone, link, motion
<1> QED
  BY <1>3, <1>4, <1>5, <1>6, <1>7, <1>8, <1>9, <1>10, <1>11, <1>12, <1>13, <1>14, <1>15
  DEF Connection, Opener

LEMMA RunnerChained == ASSUME TypeOK, Chained, stop # "done", Runner PROVE Chained'
<1>0. /\ Queued(q) /\ q \in OpStates /\ Wired(q, tick, opener)
      /\ identified => opener = "idle"
      /\ opener \in {"preClose", "opening"} => port # "open"
  BY DEF Chained, Queued
<1>1. ASSUME UNCHANGED <<link, stop>>, Wired(q', tick', opener) PROVE Chained'
  BY <1>0, <1>1 DEF Chained, Wired, link
<1>2. /\ Queued(Settle(q)) /\ Settle(q).wire = q.wire
      /\ Settle(q).pc \in {"idle", "starting"}
  BY <1>0, SettleEffect DEF SameButtons
<1>3. CASE Execute
  <2>1. CASE q' = Settle(q) /\ tick' = tick
    <3>1. Wired(q', tick', opener)
      BY <1>0, <1>2, <1>3, <2>1 DEF Execute, Wired
    <3> QED BY <1>1, <1>3, <3>1 DEF Execute
  <2>2. CASE Ready /\ q' = Join([q EXCEPT !.pc = "first"], "op") /\ UNCHANGED motion
    <3>1. opener = "idle" /\ q.pc = "starting" /\ q.wire \in {<<>>, <<"move">>}
      BY <1>0, <1>3, <2>2 DEF Execute, Ready, Wired, Chains, OpChains, MoveChains
    <3>2. /\ Append(q.wire, "op") \in OpChains /\ Append(q.wire, "op") # <<"identify">>
          /\ Append(q.wire, "op") \in MoveChains <=> q.wire \in MoveChains
      BY <3>1, ChainSteps DEF OpChains, MoveChains, Writers
    <3>3. q' = [q EXCEPT !.pc = "first", !.wire = Append(q.wire, "op")]
      BY <1>0, <2>2 DEF Join, OpStates
    <3>4. Append(q.wire, "op") \in Seq(Writers) /\ Append(q.wire, "op") \in Chains
      BY <3>2, ChainTypes DEF Chains
    <3>5. /\ Queued(q') /\ q'.pc = "first" /\ q'.wire = Append(q.wire, "op")
      BY <1>0, <3>1, <3>3, <3>4 DEF Queued, OpStates
    <3>6. Wired(q', tick', opener)
      BY <1>0, <2>2, <3>1, <3>2, <3>4, <3>5 DEF Wired, motion
    <3> QED BY <1>1, <1>3, <3>6 DEF Execute
  <2> QED BY <1>3, <2>1, <2>2 DEF Execute, motion
<1>4. CASE OpWritten \/ OpWriteFails
  <2>1. q.wire # <<>> /\ Head(q.wire) = "op" /\ UNCHANGED <<link, stop>>
    BY <1>4 DEF OpWritten, OpWriteFails
  <2>2. PICK w \in {<<>>, <<"move">>} :
          /\ Promote(Leave(q)) = [q EXCEPT !.wire = w]
          /\ w = <<"move">> <=> tick # NoMove /\ ~MoveRefused(Leave(q))
    BY <1>0, <2>1, AfterOp
  <2> DEFINE n == [q EXCEPT !.wire = w]
  <2>3. /\ q.pc \in {"first", "second"} /\ q.active \in Kinds
        /\ opener \notin {"request", "awaitToken", "completion"}
    BY <1>0, <2>1, ChainHeads DEF Wired, Queued, OpStates, OpChains
  <2>4. w \in Seq(Writers) /\ w \in Chains /\ w \notin OpChains /\ w # <<"identify">>
    BY <2>2, ChainTypes, ChainSteps DEF Chains, MoveChains
  <2>5. n \in OpStates /\ n.wire = w /\ n.pc = q.pc /\ n.active = q.active
    BY <1>0, <2>4 DEF OpStates
  <2>6. q' = AfterWrite(n) \/ q' = Settle(n)
    BY <1>4, <2>2 DEF OpWritten, OpWriteFails
  <2> HIDE DEF n
  <2>7. Queued(q') /\ q'.wire = w /\ q'.pc \in {"idle", "starting", "hold"}
    <3>1. n.pc = "second" => n.active.kind = "click"
      BY <1>0, <2>5 DEF Queued
    <3> QED BY <2>3, <2>5, <2>6, <3>1, AfterWriteEffect, SettleEffect DEF SameButtons
  <2>8. tick' # NoMove <=> w = <<"move">>
    BY <1>4, <2>2 DEF OpWritten, OpWriteFails, NotMoved, motion
  <2>9. w \in MoveChains <=> w = <<"move">>
    BY <2>2, ChainSteps DEF MoveChains
  <2>10. Wired(q', tick', opener)
    BY <2>3, <2>4, <2>7, <2>8, <2>9 DEF Wired
  <2> QED BY <1>1, <2>1, <2>10
<1>5. CASE DrainOfNull
  BY <1>0, <1>1, <1>5 DEF DrainOfNull, motion
<1>6. CASE HoldOver
  <2>1. /\ q.pc = "hold" /\ UNCHANGED <<link, stop, motion>>
        /\ q' = Settle(q) \/ q' = Join([q EXCEPT !.pc = "second"], "op")
    BY <1>6 DEF HoldOver
  <2>2. CASE q' = Settle(q)
    <3>1. Wired(q', tick', opener)
      BY <1>0, <1>2, <2>1, <2>2 DEF Wired, motion
    <3> QED BY <1>1, <2>1, <3>1
  <2>3. CASE q' = Join([q EXCEPT !.pc = "second"], "op")
    <3>1. /\ opener \notin {"request", "awaitToken", "completion"}
          /\ q.wire \in {<<>>, <<"move">>}
      BY <1>0, <2>1 DEF Wired, Chains, OpChains, MoveChains
    <3>2. /\ Append(q.wire, "op") \in OpChains /\ Append(q.wire, "op") # <<"identify">>
          /\ Append(q.wire, "op") \in MoveChains <=> q.wire \in MoveChains
      BY <3>1, ChainSteps DEF OpChains, MoveChains, Writers
    <3>3. q' = [q EXCEPT !.pc = "second", !.wire = Append(q.wire, "op")]
      BY <1>0, <2>3 DEF Join, OpStates
    <3>4. Append(q.wire, "op") \in Seq(Writers) /\ Append(q.wire, "op") \in Chains
      BY <3>2, ChainTypes DEF Chains
    <3>5. /\ Queued(q') /\ q'.pc = "second" /\ q'.wire = Append(q.wire, "op")
      BY <1>0, <2>1, <3>3, <3>4 DEF Queued, OpStates
    <3>6. Wired(q', tick', opener)
      BY <1>0, <2>1, <3>1, <3>2, <3>4, <3>5 DEF Wired, motion
    <3> QED BY <1>1, <2>1, <3>6
  <2> QED BY <2>1, <2>2, <2>3
<1> QED BY <1>3, <1>4, <1>5, <1>6 DEF Runner

LEMMA MoveLoopChained == ASSUME TypeOK, Chained, stop # "done", MoveLoop PROVE Chained'
<1>0. /\ Queued(q) /\ q \in OpStates /\ Wired(q, tick, opener)
      /\ identified => opener = "idle"
      /\ opener \in {"preClose", "opening"} => port # "open"
  BY DEF Chained, Queued
<1>1. ASSUME UNCHANGED <<link, stop>>, Wired(q', tick', opener) PROVE Chained'
  BY <1>0, <1>1 DEF Chained, Wired, link
<1>2. CASE TickAtEdge
  BY <1>0, <1>1, <1>2 DEF TickAtEdge
<1>3. CASE Tick
  <2>1. /\ tick = NoMove /\ opener = "idle" /\ q.wire \in {<<>>, <<"op">>}
    BY <1>0, <1>3 DEF Tick, TickMay, Ready, Wired, Chains, OpChains, MoveChains
  <2>2. /\ Append(q.wire, "move") \in MoveChains /\ Append(q.wire, "move") # <<"identify">>
        /\ Append(q.wire, "move") \in OpChains <=> q.wire \in OpChains
    BY <2>1, ChainSteps DEF OpChains, MoveChains, Writers
  <2>3. Append(q.wire, "move") \in Seq(Writers) /\ Append(q.wire, "move") \in Chains
    BY <2>2, ChainTypes DEF Chains
  <2>4. Queued(q') /\ q'.wire = Append(q.wire, "move") /\ q'.pc = q.pc
    BY <1>0, <1>3, <2>3 DEF Tick, Join, Queued, OpStates
  <2>5. tick' # NoMove
    <3>1. StepWanted \in Int
      BY MouseAssumption DEF StepWanted, Clamp, TypeOK, Cells
    <3>2. NextCell \in Cells
      BY <3>1, MouseAssumption DEF NextCell, Clamp, TypeOK, Cells
    <3>3. tick' \in MoveLines
      BY <1>3, <3>1, <3>2 DEF Tick, MoveLines, TypeOK
    <3> QED BY <3>3, NoMoveAssumption
  <2>6. Wired(q', tick', opener)
    BY <1>0, <2>1, <2>2, <2>3, <2>4, <2>5 DEF Wired
  <2> QED BY <1>1, <1>3, <2>6 DEF Tick
<1>4. CASE MoveWritten \/ MoveFails
  <2>1. /\ q.wire # <<>> /\ Head(q.wire) = "move" /\ q' = Promote(Leave(q))
        /\ tick' = NoMove /\ UNCHANGED <<link, stop>>
    BY <1>4 DEF MoveWritten, MoveFails, Moved, NotMoved
  <2>2. Wired(q', tick', opener)
    BY <1>0, <2>1, AfterMove
  <2> QED BY <1>1, <2>1, <2>2
<1> QED BY <1>2, <1>3, <1>4 DEF MoveLoop

LEMMA OthersChained ==
  ASSUME TypeOK, Chained, stop # "done", Requests \/ Environment \/ Stop
  PROVE  Chained'
<1>0. /\ Queued(q) /\ q \in OpStates /\ Wired(q, tick, opener)
      /\ identified => opener = "idle"
      /\ opener \in {"preClose", "opening"} => port # "open"
      /\ Stays(q, q)
  BY DEF Chained, Queued, Stays
<1>1. /\ Stays(q, CancelAll(q)) /\ Stays(q, Closed(q)) /\ Queued(Closed(q))
      /\ Stays(q, Disconnected(q))
      /\ Stays(q, NothingToClose(Closed(q))) /\ Stays(q, Publish(q, OnLost(q.view)))
      /\ Stays(q, Publish(Closed(q), OnLost(Closed(q).view)))
  <2>1. Stays(q, Closed(q)) /\ Queued(Closed(q))
    BY <1>0, ClosingStays DEF Stays
  <2>2. /\ Stays(q, NothingToClose(Closed(q)))
        /\ Stays(q, Publish(Closed(q), OnLost(Closed(q).view)))
    BY <2>1, ClosingStays, StaysTransitive
  <2> QED BY <1>0, <2>1, <2>2, ClosingStays
<1>2. CASE ClientMoves
  BY <1>0, <1>2, StaysChained
  DEF ClientMoves, handleMoveAbsolute, handleMoveRelative, link
<1>3. CASE \E op \in Kinds : enqueueOp(op)
  <2>1. PICK op \in Kinds : enqueueOp(op)
    BY <1>3
  <2>2. Wired(q', tick, opener)
    <3>1. Wired(Enqueue(q, op), tick, opener)
      BY <1>0, EnqueueEffect DEF Wired, SameButtons, Queued
    <3> QED BY <1>0, <2>1, <3>1 DEF enqueueOp
  <2> QED BY <1>0, <2>1, <2>2 DEF enqueueOp, Chained, Wired, link, motion
<1>4. CASE cancelAll
  BY <1>0, <1>1, <1>4, StaysChained DEF cancelAll, ClearMovement, link
<1>5. CASE \E p \in Powers : setHostPower(p)
  BY <1>0, <1>1, <1>5, StaysChained DEF setHostPower, ClearMovement, link, motion
<1>6. CASE onDeviceIdentified
  <2>1. CASE UNCHANGED <<link, q, motion>>
    BY <1>0, <2>1, StaysChained DEF link, motion
  <2>2. CASE OpenPort /\ opener = "idle"
    BY <1>0, <1>1, <2>2, StaysChained
    DEF OpenPort, ClosePort, BeginOpening, Open, motion
  <2> QED BY <1>6, <2>1, <2>2 DEF onDeviceIdentified, OpenPort
<1>7. CASE onDeviceLost
  BY <1>0, <1>1, <1>7, StaysChained DEF onDeviceLost, ClosePort, FailWaiters
<1>8. CASE BoardResets
  BY <1>0, <1>8, StaysChained DEF BoardResets, link, motion
<1>9. CASE StopBegin
  BY <1>0, <1>1, <1>9, StaysChained DEF StopBegin, ClearMovement, link
<1>10. CASE StopClose
  BY <1>0, <1>1, <1>10, StaysChained DEF StopClose, ClosePort
<1>11. CASE StopFinish
  <2> DEFINE s == IF stop = "closing" THEN Disconnected(q) ELSE q
  <2>1. s \in OpStates /\ s.wire = q.wire
    BY <1>0, <1>1 DEF Stays, Queued
  <2>2. /\ q' = [s EXCEPT !.queue = <<>>, !.active = NoOp, !.cancel = FALSE,
                         !.pc = "idle", !.down = {}]
        /\ stop' = "done" /\ identified' = FALSE /\ UNCHANGED <<port, opener>>
    BY <1>11 DEF StopFinish
  <2> HIDE DEF s
  <2>3. /\ q'.queue = <<>> /\ q'.active = NoOp /\ q'.cancel = FALSE /\ q'.pc = "idle"
        /\ q'.wire = s.wire /\ q'.down = {} /\ q'.view = s.view
    BY <2>1, <2>2 DEF OpStates
  <2>4. q' \in OpStates
    <3> DEFINE e == [s EXCEPT !.queue = <<>>, !.down = {}]
    <3>1. <<>> \in Seq(Kinds) /\ {} \in SUBSET Buttons
      OBVIOUS
    <3>2. e \in OpStates
      BY <2>1, <3>1 DEF OpStates
    <3>3. q' = [e EXCEPT !.active = NoOp, !.cancel = FALSE, !.pc = "idle"]
      BY <2>1, <2>2 DEF OpStates
    <3> HIDE DEF e
    <3> QED BY <3>2, <3>3 DEF OpStates
  <2>5. Queued(q')
    BY <2>3, <2>4 DEF Queued
  <2> QED BY <1>0, <2>1, <2>2, <2>3, <2>5 DEF Chained, Wired
<1> QED
  BY <1>2, <1>3, <1>4, <1>5, <1>6, <1>7, <1>8, <1>9, <1>10, <1>11
  DEF Requests, Environment, Stop
-----------------------------------------------------------------------------
(* Types *)

LinkType ==
  /\ known \in BOOLEAN /\ port \in {"none", "open", "dead"}
  /\ phase \in ViewPhases /\ identified \in BOOLEAN
  /\ opener \in Openers /\ token \in BOOLEAN

RetryType ==
  /\ timer \in BOOLEAN /\ attempts \in 0..MaxAttempts
  /\ ioClosers \in 0..MaxClosers /\ lostClosers \in 0..MaxClosers

MotionType ==
  /\ mode \in Modes /\ target \in Cells \cup {NoTarget} /\ acc \in Int
  /\ cursor \in Cells /\ tick \in MoveLines \cup {NoMove}

BoardType ==
  /\ firmware \in [down : SUBSET Buttons, last : Cells] /\ crashed \in BOOLEAN
  /\ host \in Powers /\ stop \in {"no", "waiting", "closing", "closed", "done"}

CountType == asked \in 0..MaxOps /\ moved \in 0..MaxMoves /\ faults \in 0..MaxFaults

LEMMA TypeParts ==
  /\ TypeOK <=> /\ q \in OpStates /\ Len(q.wire) <= 2
                /\ LinkType /\ RetryType /\ MotionType /\ BoardType /\ CountType
  /\ TypeOK' <=> /\ q' \in OpStates /\ Len(q'.wire) <= 2
                 /\ LinkType' /\ RetryType' /\ MotionType' /\ BoardType' /\ CountType'
BY DEF TypeOK, LinkType, RetryType, MotionType, BoardType, CountType

LEMMA CountTypeKept == ASSUME TypeOK, Next PROVE CountType'
<1>1. /\ asked \in 0..MaxOps /\ moved \in 0..MaxMoves /\ faults \in 0..MaxFaults
      /\ MaxOps \in Nat /\ MaxMoves \in Nat /\ MaxFaults \in Nat
  BY MouseAssumption DEF TypeOK
<1>2. CASE Fault
  BY <1>1, <1>2 DEF Fault, CountType
<1>3. CASE UNCHANGED counts
  BY <1>1, <1>3 DEF counts, CountType
<1>4. CASE Requests
  <2>1. CASE ClientMoves \/ \E op \in Kinds : enqueueOp(op)
    BY <1>1, <2>1
    DEF ClientMoves, handleMoveAbsolute, handleMoveRelative, enqueueOp, CountType
  <2>2. CASE cancelAll \/ \E p \in Powers : setHostPower(p)
    BY <1>3, <2>2 DEF cancelAll, setHostPower
  <2> QED BY <1>4, <2>1, <2>2 DEF Requests
<1>5. CASE Connection
  BY <1>2, <1>3, <1>5
  DEF Connection, Opener, PreCloseDone, OpenFails, OpenSucceeds, OpenedWhileStopping,
      StopCloseDone, RequestWritten, TokenRead, TokenTimeout, Identified,
      IdentifyWriteFails, IdentifyFails, FailCloseDone, TokenArrives, PortError,
      IoCloseDone, Unplug, PortCloseEvent, TimerFires, LostCloseDone, FaultIfOpen
<1>6. CASE Runner \/ MoveLoop
  BY <1>2, <1>3, <1>6
  DEF Runner, Execute, OpWritten, OpWriteFails, DrainOfNull, HoldOver, FaultIfOpen,
      MoveLoop, TickAtEdge, Tick, MoveWritten, MoveFails
<1>7. CASE Environment \/ Stop \/ Halted
  BY <1>3, <1>7
  DEF Environment, onDeviceIdentified, onDeviceLost, BoardResets, Stop, StopBegin,
      StopClose, StopFinish, Halted, vars
<1> QED BY <1>4, <1>5, <1>6, <1>7 DEF Next

LEMMA LinkTypeKept == ASSUME TypeOK, Next PROVE LinkType'
<1>0. LinkType
  BY TypeParts
<1>1. CASE UNCHANGED <<known, link>>
  BY <1>0, <1>1 DEF LinkType, link
<1>2. CASE Opener
  <2>1. CASE PreCloseDone \/ OpenFails \/ OpenSucceeds \/ OpenedWhileStopping \/ StopCloseDone
    BY <1>0, <2>1
    DEF PreCloseDone, OpenFails, OpenSucceeds, OpenedWhileStopping, StopCloseDone,
        BeginOpening, LinkType, Openers, ViewPhases
  <2>2. CASE RequestWritten \/ TokenRead \/ TokenTimeout \/ Identified \/ IdentifyWriteFails
    BY <1>0, <2>2
    DEF RequestWritten, TokenRead, TokenTimeout, Identified, IdentifyWriteFails,
        LinkType, Openers, ViewPhases
  <2>3. CASE IdentifyFails \/ FailCloseDone
    BY <1>0, <2>3
    DEF IdentifyFails, FailCloseDone, ClosePort, LinkType, Openers, ViewPhases
  <2> QED BY <1>2, <2>1, <2>2, <2>3 DEF Opener
<1>3. ASSUME OpenPort, known' \in BOOLEAN PROVE LinkType'
  BY <1>0, <1>3
  DEF OpenPort, ClosePort, BeginOpening, LinkType, Openers, ViewPhases, link
<1>4. CASE PortError \/ Unplug \/ PortCloseEvent \/ TokenArrives
  BY <1>0, <1>4
  DEF PortError, Unplug, PortCloseEvent, TokenArrives, ClosePort, FailWaiters,
      LinkType, Openers, ViewPhases
<1>5. CASE IoCloseDone \/ LostCloseDone \/ TimerFires
  <2>1. CASE IoCloseDone
    BY <1>1, <2>1 DEF IoCloseDone
  <2>2. CASE LostCloseDone
    BY <1>0, <2>2 DEF LostCloseDone, LinkType, link
  <2>3. CASE TimerFires
    BY <1>0, <1>1, <1>3, <2>3 DEF TimerFires, LinkType
  <2> QED BY <1>5, <2>1, <2>2, <2>3
<1>6. CASE Runner \/ MoveLoop \/ Requests \/ Halted
  BY <1>1, <1>6
  DEF Runner, Execute, OpWritten, OpWriteFails, DrainOfNull, HoldOver,
      MoveLoop, TickAtEdge, Tick, MoveWritten, MoveFails, Requests, ClientMoves,
      handleMoveAbsolute, handleMoveRelative, enqueueOp, cancelAll, setHostPower,
      Halted, vars
<1>7. CASE Environment
  <2>1. CASE onDeviceIdentified
    BY <1>0, <1>3, <2>1 DEF onDeviceIdentified, LinkType, link
  <2>2. CASE onDeviceLost
    BY <1>0, <2>2
    DEF onDeviceLost, ClosePort, FailWaiters, LinkType, Openers, ViewPhases
  <2>3. CASE BoardResets
    BY <1>1, <2>3 DEF BoardResets
  <2> QED BY <1>7, <2>1, <2>2, <2>3 DEF Environment
<1>8. CASE Stop
  BY <1>0, <1>8
  DEF Stop, StopBegin, StopClose, StopFinish, ClosePort, link, LinkType, ViewPhases
<1> QED BY <1>2, <1>4, <1>5, <1>6, <1>7, <1>8 DEF Next, Connection

LEMMA RetryTypeKept == ASSUME TypeOK, Next PROVE RetryType'
<1>0. /\ timer \in BOOLEAN /\ attempts \in 0..MaxAttempts
      /\ ioClosers \in 0..MaxClosers /\ lostClosers \in 0..MaxClosers
      /\ MaxAttempts \in Nat /\ MaxClosers \in Nat
  BY MouseAssumption DEF TypeOK
<1>1. ASSUME timer' = timer \/ timer' = FALSE, UNCHANGED attempts \/ attempts' = 0,
             UNCHANGED closers
      PROVE  RetryType'
  <2>1. timer' \in BOOLEAN
    BY <1>0, <1>1
  <2> QED BY <1>0, <1>1, <2>1 DEF RetryType, closers
<1>2. ASSUME NEW s, ScheduleReconnect(s)
      PROVE  timer' \in BOOLEAN /\ attempts' \in 0..MaxAttempts
  BY <1>2, ReconnectTypes
<1>3. CASE Opener
  <2>1. CASE OpenFails \/ FailCloseDone
    BY <1>0, <1>2, <2>1 DEF OpenFails, FailCloseDone, closers, RetryType
  <2>2. CASE IdentifyFails
    <3>1. UNCHANGED retry \/ \E s : ScheduleReconnect(s)
      BY <2>2 DEF IdentifyFails
    <3> QED BY <1>0, <1>2, <2>2, <3>1 DEF IdentifyFails, closers, retry, RetryType
  <2>3. CASE PreCloseDone \/ OpenSucceeds \/ OpenedWhileStopping \/ StopCloseDone
    BY <1>1, <2>3
    DEF PreCloseDone, OpenSucceeds, OpenedWhileStopping, StopCloseDone, retry
  <2>4. CASE RequestWritten \/ TokenRead \/ TokenTimeout \/ Identified \/ IdentifyWriteFails
    BY <1>1, <2>4
    DEF RequestWritten, TokenRead, TokenTimeout, Identified, IdentifyWriteFails, retry
  <2> QED BY <1>3, <2>1, <2>2, <2>3, <2>4 DEF Opener
<1>4. CASE PortError \/ IoCloseDone \/ PortCloseEvent \/ LostCloseDone
  <2>1. CASE PortError
    <3>1. timer' = timer /\ attempts' = attempts /\ lostClosers' = lostClosers
      BY <2>1 DEF PortError, retry
    <3>2. ioClosers' \in 0..MaxClosers
      BY <1>0, <2>1 DEF PortError
    <3> QED BY <1>0, <3>1, <3>2 DEF RetryType
  <2>2. CASE IoCloseDone
    <3>1. ioClosers' \in 0..MaxClosers /\ lostClosers' = lostClosers
      BY <1>0, <2>2 DEF IoCloseDone
    <3> QED BY <1>0, <1>2, <2>2, <3>1 DEF IoCloseDone, RetryType
  <2>3. CASE PortCloseEvent
    BY <1>0, <1>2, <2>3 DEF PortCloseEvent, closers, RetryType
  <2>4. CASE LostCloseDone
    <3>1. timer' = timer /\ attempts' = attempts /\ ioClosers' = ioClosers
      BY <2>4 DEF LostCloseDone, retry
    <3>2. lostClosers' \in 0..MaxClosers
      BY <1>0, <2>4 DEF LostCloseDone
    <3> QED BY <1>0, <3>1, <3>2 DEF RetryType
  <2> QED BY <1>4, <2>1, <2>2, <2>3, <2>4
<1>5. CASE Unplug \/ TokenArrives \/ TimerFires
  BY <1>1, <1>5 DEF Unplug, TokenArrives, TimerFires, OpenPort, retry
<1>6. CASE Runner \/ MoveLoop \/ Requests \/ Halted
  BY <1>1, <1>6
  DEF Runner, Execute, OpWritten, OpWriteFails, DrainOfNull, HoldOver,
      MoveLoop, TickAtEdge, Tick, MoveWritten, MoveFails, Requests, ClientMoves,
      handleMoveAbsolute, handleMoveRelative, enqueueOp, cancelAll, setHostPower,
      Halted, vars, retry
<1>7. CASE Environment
  <2>1. CASE onDeviceIdentified \/ BoardResets
    BY <1>1, <2>1 DEF onDeviceIdentified, BoardResets, OpenPort, retry
  <2>2. CASE onDeviceLost
    <3>1. timer' = FALSE /\ attempts' = attempts /\ ioClosers' = ioClosers
      BY <2>2 DEF onDeviceLost
    <3>2. \/ lostClosers' = lostClosers
          \/ ioClosers + lostClosers < MaxClosers /\ lostClosers' = lostClosers + 1
      BY <2>2 DEF onDeviceLost
    <3>3. lostClosers' \in 0..MaxClosers
      BY <1>0, <3>2
    <3> QED BY <1>0, <3>1, <3>3 DEF RetryType
  <2> QED BY <1>7, <2>1, <2>2 DEF Environment
<1>8. CASE Stop
  BY <1>1, <1>8 DEF Stop, StopBegin, StopClose, StopFinish, retry
<1> QED BY <1>3, <1>4, <1>5, <1>6, <1>7, <1>8 DEF Next, Connection
(* The grid and the limit of a tick keep what flushMovementTick wants.     *)
LEMMA TickTypes ==
  ASSUME TypeOK
  PROVE  StepWanted \in Int /\ NextCell \in Cells /\ 0 \in Cells
<1>1. cursor \in Int /\ acc \in Int /\ -MaxStep \in Int /\ MaxStep \in Int
  BY MouseAssumption DEF TypeOK, Cells
<1>2. Edge \in Nat
  BY MouseAssumption
<1>3. \A n, lo, hi \in Int : Clamp(n, lo, hi) \in Int
  BY DEF Clamp
<1>4. \A n \in Int : Clamp(n, -Edge, Edge) \in -Edge..Edge
  BY <1>2 DEF Clamp
<1>5. target # NoTarget => target - cursor \in Int
  <2> SUFFICES ASSUME target # NoTarget PROVE target - cursor \in Int
    OBVIOUS
  <2>1. target \in Int
    BY MouseAssumption DEF TypeOK, Cells
  <2> QED BY <1>1, <2>1
<1>6. StepWanted \in Int
  <2>1. Clamp(acc, -MaxStep, MaxStep) \in Int
    BY <1>1, <1>3
  <2>2. target # NoTarget => Clamp(target - cursor, -MaxStep, MaxStep) \in Int
    BY <1>1, <1>3, <1>5
  <2> QED BY <2>1, <2>2 DEF StepWanted
<1>7. NextCell \in Cells
  <2>1. cursor + StepWanted \in Int
    BY <1>1, <1>6
  <2> QED BY <1>4, <2>1 DEF NextCell, Cells
<1> QED BY <1>2, <1>6, <1>7 DEF Cells

LEMMA MotionTypeKept == ASSUME TypeOK, Chained, Live, Next PROVE MotionType'
<1>0. /\ mode \in Modes /\ target \in Cells \cup {NoTarget} /\ acc \in Int
      /\ cursor \in Cells /\ tick \in MoveLines \cup {NoMove} /\ Gain \in Int
  BY MouseAssumption DEF TypeOK
<1>1. CASE UNCHANGED motion
  BY <1>0, <1>1 DEF motion, MotionType
<1>2. CASE ClearMovement
  BY <1>0, <1>2 DEF ClearMovement, MotionType
<1>3. CASE ClosePort
  BY <1>0, <1>3 DEF ClosePort, MotionType
<1>4. CASE NotMoved
  BY <1>0, <1>4 DEF NotMoved, MotionType
<1>5. CASE MoveLoop
  <2>1. CASE TickAtEdge
    BY <1>0, <2>1, TickTypes DEF TickAtEdge, MotionType
  <2>2. CASE Tick
    BY <1>0, <2>2, TickTypes DEF Tick, MotionType, MoveLines
  <2>3. CASE MoveWritten
    <3>1. tick \in MoveLines
      <4>1. tick # NoMove
        BY <2>3, ChainHeads DEF MoveWritten, Chained, Wired, MoveChains, Live
      <4> QED BY <1>0, <4>1
    <3> QED BY <1>0, <2>3, <3>1 DEF MoveWritten, Moved, MotionType, MoveLines
  <2>4. CASE MoveFails
    BY <1>4, <2>4 DEF MoveFails
  <2> QED BY <1>5, <2>1, <2>2, <2>3, <2>4 DEF MoveLoop
<1>6. CASE Runner
  <2>1. CASE Execute
    BY <1>0, <1>1, <2>1 DEF Execute, MotionType
  <2>2. CASE OpWritten \/ OpWriteFails \/ DrainOfNull \/ HoldOver
    BY <1>1, <1>4, <2>2 DEF OpWritten, OpWriteFails, DrainOfNull, HoldOver
  <2> QED BY <1>6, <2>1, <2>2 DEF Runner
<1>7. CASE Requests
  <2>1. CASE ClientMoves
    <3>1. CASE \E x \in Cells : handleMoveAbsolute(x)
      BY <1>0, <3>1 DEF handleMoveAbsolute, MotionType, Modes
    <3>2. CASE \E dx \in {-1, 1} : handleMoveRelative(dx)
      BY <1>0, <3>2 DEF handleMoveRelative, MotionType, Modes
    <3> QED BY <2>1, <3>1, <3>2 DEF ClientMoves
  <2>2. CASE cancelAll \/ (\E p \in Powers : setHostPower(p)) \/ \E op \in Kinds : enqueueOp(op)
    BY <1>1, <1>2, <2>2 DEF cancelAll, setHostPower, enqueueOp
  <2> QED BY <1>7, <2>1, <2>2 DEF Requests
<1>8. CASE Opener
  BY <1>1, <1>2, <1>3, <1>8
  DEF Opener, PreCloseDone, OpenFails, OpenSucceeds, OpenedWhileStopping,
      StopCloseDone, RequestWritten, TokenRead, TokenTimeout, Identified,
      IdentifyWriteFails, IdentifyFails, FailCloseDone
<1>9. CASE TokenArrives \/ PortError \/ IoCloseDone \/ Unplug \/ PortCloseEvent
           \/ TimerFires \/ LostCloseDone
  BY <1>1, <1>3, <1>9
  DEF TokenArrives, PortError, IoCloseDone, Unplug, PortCloseEvent, TimerFires,
      LostCloseDone, OpenPort
<1>10. CASE Environment \/ Stop \/ Halted
  BY <1>1, <1>2, <1>3, <1>10
  DEF Environment, onDeviceIdentified, onDeviceLost, BoardResets, OpenPort, Stop,
      StopBegin, StopClose, StopFinish, Halted, vars
<1> QED BY <1>5, <1>6, <1>7, <1>8, <1>9, <1>10 DEF Next, Connection

LEMMA BoardTypeKept == ASSUME TypeOK, Chained, Live, Next PROVE BoardType'
<1>0. /\ firmware \in [down : SUBSET Buttons, last : Cells] /\ crashed \in BOOLEAN
      /\ host \in Powers /\ stop \in {"no", "waiting", "closing", "closed", "done"}
  BY DEF TypeOK
<1>1. Board \in [down : SUBSET Buttons, last : Cells]
  BY TickTypes DEF Board
<1>2. CASE Requests \/ Environment \/ Stop \/ Halted
  <2>1. CASE Requests
    BY <1>0, <2>1
    DEF Requests, ClientMoves, handleMoveAbsolute, handleMoveRelative, enqueueOp,
        cancelAll, setHostPower, BoardType
  <2>2. CASE Environment \/ Halted
    BY <1>0, <1>1, <2>2
    DEF Environment, onDeviceIdentified, onDeviceLost, BoardResets, Halted, vars,
        BoardType
  <2>3. CASE Stop
    BY <1>0, <2>3 DEF Stop, StopBegin, StopClose, StopFinish, Powers, BoardType
  <2> QED BY <1>2, <2>1, <2>2, <2>3
<1>3. CASE Opener
  BY <1>0, <1>1, <1>3
  DEF Opener, PreCloseDone, OpenFails, OpenSucceeds, OpenedWhileStopping,
      StopCloseDone, RequestWritten, TokenRead, TokenTimeout, Identified,
      IdentifyWriteFails, IdentifyFails, FailCloseDone, BoardType
<1>4. CASE TokenArrives \/ PortError \/ IoCloseDone \/ Unplug \/ PortCloseEvent
           \/ TimerFires \/ LostCloseDone
  BY <1>0, <1>4
  DEF TokenArrives, PortError, IoCloseDone, Unplug, PortCloseEvent, TimerFires,
      LostCloseDone, BoardType
<1>5. CASE Runner
  <2>1. CASE Execute \/ DrainOfNull \/ HoldOver
    BY <1>0, <2>1 DEF Execute, DrainOfNull, HoldOver, BoardType
  <2>2. CASE OpWritten \/ OpWriteFails
    <3>1. UNCHANGED firmware \/ Perform(Command(q))
      BY <2>2 DEF OpWritten, OpWriteFails
    <3>2. Perform(Command(q)) => firmware' \in [down : SUBSET Buttons, last : Cells]
      <4>1. /\ Command(q).kind \in {"CLICK", "RELEASE", "WHEEL"}
            /\ Command(q).kind # "WHEEL" => Command(q).button \in Buttons
        <5>1. q.active \in Kinds
          <6>1. q.pc \in {"first", "second"} /\ Queued(q)
            BY <2>2, ChainHeads DEF OpWritten, OpWriteFails, Chained, Wired,
               OpChains, Live
          <6> QED BY <6>1 DEF Queued, OpStates
        <5>2. q.active.kind \in {"down", "up", "click"} => q.active.button \in Buttons
          BY <5>1 DEF Kinds, Actions
        <5>3. CASE q.active.kind \in {"down", "up", "click"}
          <6>1. /\ Command(q).kind \in {"RELEASE", "CLICK"}
                /\ Command(q).button = q.active.button
            BY <5>3 DEF Command
          <6> QED BY <5>2, <5>3, <6>1
        <5>4. CASE q.active.kind \notin {"down", "up", "click"}
          BY <5>4 DEF Command
        <5> QED BY <5>3, <5>4
      <4>2. ASSUME Press(Command(q).button) \/ Release(Command(q).button),
                   Command(q).button \in Buttons
            PROVE  firmware' \in [down : SUBSET Buttons, last : Cells]
        BY <1>0, <4>2 DEF Press, Release
      <4> QED BY <1>0, <4>1, <4>2 DEF Perform
    <3> QED BY <1>0, <2>2, <3>1, <3>2 DEF OpWritten, OpWriteFails, BoardType
  <2> QED BY <1>5, <2>1, <2>2 DEF Runner
<1>6. CASE MoveLoop
  <2>1. CASE TickAtEdge \/ Tick \/ MoveFails
    BY <1>0, <2>1 DEF TickAtEdge, Tick, MoveFails, BoardType
  <2>2. CASE MoveWritten
    <3>1. tick # NoMove
      BY <2>2, ChainHeads DEF MoveWritten, Chained, Wired, MoveChains, Live
    <3>2. tick \in MoveLines
      BY <3>1 DEF TypeOK
    <3> QED BY <1>0, <2>2, <3>2 DEF MoveWritten, BoardType, MoveLines
  <2> QED BY <1>6, <2>1, <2>2 DEF MoveLoop
<1> QED BY <1>2, <1>3, <1>4, <1>5, <1>6 DEF Next, Connection

-----------------------------------------------------------------------------
(* The types hold together with the chain of writes. *)

LEMMA ChainedInitially == Init => TypeOK /\ Chained
<1> SUFFICES ASSUME Init PROVE TypeOK /\ Chained
  OBVIOUS
<1>1. <<>> \in Seq(Kinds) /\ <<>> \in Seq(Writers) /\ Len(<<>>) = 0
  OBVIOUS
<1>2. InitialOps \in OpStates /\ InitialOps.wire = <<>>
  BY <1>1 DEF InitialOps, OpStates, InitialView, Views, ViewPhases
<1>3. q \in OpStates /\ Len(q.wire) <= 2 /\ Chained
  <2>1. /\ q.wire = <<>> /\ q.active = NoOp /\ q.pc = "idle"
        /\ tick = NoMove /\ opener = "idle"
    BY DEF Init, InitialOps
  <2> QED BY <1>1, <1>2, <2>1, ChainSteps
     DEF Init, Chained, Wired, Queued, Chains
<1>4. RetryType /\ CountType
  <2>1. timer \in BOOLEAN
    BY DEF Init
  <2>2. /\ attempts = 0 /\ ioClosers = 0 /\ lostClosers = 0
        /\ asked = 0 /\ moved = 0 /\ faults = 0
    BY DEF Init
  <2> QED BY <2>1, <2>2, MouseAssumption DEF RetryType, CountType
<1>5. LinkType /\ BoardType /\ MotionType
  <2>1. 0 \in Cells
    BY MouseAssumption DEF Cells
  <2>2. firmware \in [down : SUBSET Buttons, last : Cells]
    BY <2>1 DEF Init, Board
  <2>3. MotionType
    BY <2>1 DEF Init, MotionType
  <2> QED BY <2>2, <2>3 DEF Init, LinkType, BoardType, ViewPhases, Openers, Powers
<1> QED BY <1>3, <1>4, <1>5, TypeParts

LEMMA ChainedKept == ASSUME TypeOK, Chained, Next PROVE TypeOK' /\ Chained'
<1>1. CASE Live
  <2>1. Connection \/ Runner \/ MoveLoop \/ Requests \/ Environment \/ Stop
    BY <1>1 DEF Next, Halted
  <2>2. Chained'
    BY <1>1, <2>1, ConnectionChained, RunnerChained, MoveLoopChained, OthersChained
    DEF Live
  <2>3. q' \in OpStates /\ Len(q'.wire) <= 2
    BY <2>2, ChainTypes DEF Chained, Queued
  <2> QED
    BY <1>1, <2>2, <2>3, TypeParts, LinkTypeKept, RetryTypeKept, MotionTypeKept,
       BoardTypeKept, CountTypeKept
<1>2. CASE ~Live
  <2>1. UNCHANGED vars
    BY <1>2 DEF Next, Halted
  <2> QED BY <2>1
    DEF vars, link, retry, closers, motion, counts, TypeOK, Chained, Wired
<1> QED BY <1>1, <1>2

(* The types and the chain hold in every state.                            *)
LEMMA AlwaysChained == Spec => [](TypeOK /\ Chained)
<1>1. TypeOK /\ Chained /\ UNCHANGED vars => TypeOK' /\ Chained'
  BY DEF vars, link, retry, closers, motion, counts, TypeOK, Chained, Wired
<1> QED BY ChainedInitially, ChainedKept, <1>1, PTL DEF Spec

(* Every variable of PS2MouseService keeps to its values, and no more than *)
(* an operation's and a movement's write ever share the line.              *)
THEOREM TypeCorrect == Spec => []TypeOK
BY AlwaysChained, PTL

-----------------------------------------------------------------------------
(* A host that is off *)

(* No operation waits, and the one that is active, if any, is cancelled.   *)
Drained(s) == s.queue = <<>> /\ (s.active = NoOp \/ s.cancel)

(* Nothing of an operation or a movement goes to the port.                 *)
Quiet == Drained(q') /\ q'.wire \in {q.wire, <<>>, <<"identify">>}

LEMMA StaysQuiet == ASSUME Drained(q), Stays(q, q') PROVE Quiet
BY DEF Drained, Quiet, Stays

(* Once the queue is drained the service keeps it so while the host is off.*)
LEMMA OffKept ==
  ASSUME TypeOK, Chained, Live, Next, host = "off", Drained(q)
  PROVE  Quiet
<1>0. /\ Queued(q) /\ q \in OpStates /\ Wired(q, tick, opener)
      /\ Stays(q, q) /\ stop # "done"
  BY DEF Chained, Queued, Stays, Live
<1>1. /\ Stays(q, CancelAll(q)) /\ Stays(q, Closed(q)) /\ Queued(Closed(q))
      /\ Stays(q, Disconnected(q))
      /\ Stays(q, NothingToClose(Closed(q))) /\ Stays(q, Publish(q, OnLost(q.view)))
      /\ Stays(q, Publish(Closed(q), OnLost(Closed(q).view)))
  <2>1. Stays(q, Closed(q)) /\ Queued(Closed(q))
    BY <1>0, ClosingStays DEF Stays
  <2>2. /\ Stays(q, NothingToClose(Closed(q)))
        /\ Stays(q, Publish(Closed(q), OnLost(Closed(q).view)))
    BY <2>1, ClosingStays, StaysTransitive
  <2> QED BY <1>0, <2>1, <2>2, ClosingStays
<1>2. ASSUME NEW s, Queued(s), Stays(q, s), ScheduleReconnect(s) PROVE Quiet
  <2>1. Stays(s, q')
    BY <1>2, ScheduleReconnectEffect
  <2> QED BY <1>2, <2>1, StaysTransitive, StaysQuiet
<1>3. Drained(Settle(q)) /\ Settle(q).wire = q.wire
  BY <1>0, SettleEffect DEF Drained, SameButtons
<1>4. CASE UNCHANGED q
  BY <1>0, <1>4, StaysQuiet
<1>5. CASE Opener
  <2>1. CASE PreCloseDone
    BY <1>1, <2>1, StaysQuiet DEF PreCloseDone
  <2>2. CASE OpenFails \/ FailCloseDone
    BY <1>0, <1>1, <1>2, <2>2 DEF OpenFails, FailCloseDone, Stays
  <2>3. CASE OpenSucceeds
    <3> DEFINE told == Publish(Closed(q), OnIdentify(OnConnected(q.view), "start"))
    <3>1. q.wire = <<>> /\ (q' = told \/ q' = Join(told, "identify"))
      BY <2>3 DEF OpenSucceeds, WritesOver, Open, Closed, Chained
    <3>2. OnIdentify(OnConnected(q.view), "start") \in Views
      <4>1. OnConnected(q.view) \in Views
        BY <1>0, EventViews DEF OpStates
      <4> QED BY <4>1, EventViews
    <3>3. Stays(q, told)
      <4>1. Stays(Closed(q), told)
        BY <1>1, <3>2, PublishEffect DEF Stays
      <4> QED BY <1>1, <4>1, StaysTransitive
    <3> HIDE DEF told
    <3>4. CASE q' = told
      BY <3>3, <3>4, StaysQuiet
    <3>5. CASE q' = Join(told, "identify")
      <4>1. Append(<<>>, "identify") = <<"identify">>
        BY ChainSteps DEF Writers
      <4>2. /\ told \in OpStates /\ told.wire = <<>> /\ told.active = q.active
            /\ told.queue = <<>> /\ (q.active # NoOp => told.cancel)
        BY <3>1, <3>3 DEF Stays, Queued, Drained
      <4>3. q' = [told EXCEPT !.wire = <<"identify">>]
        BY <3>5, <4>1, <4>2 DEF Join
      <4> QED BY <4>2, <4>3 DEF Drained, Quiet, OpStates
    <3> QED BY <3>1, <3>4, <3>5
  <2>4. CASE OpenedWhileStopping \/ StopCloseDone \/ TokenTimeout
    BY <1>4, <2>4 DEF OpenedWhileStopping, StopCloseDone, TokenTimeout
  <2>5. CASE RequestWritten \/ Identified \/ IdentifyWriteFails
    <3>1. q.wire = <<"identify">>
      BY <1>0, <2>5, ChainHeads
      DEF RequestWritten, Identified, IdentifyWriteFails, IdentifyWriting, Wired
    <3> DEFINE l == [q EXCEPT !.wire = <<>>]
    <3>2. Leave(q) = l
      BY <3>1, ChainSteps DEF Leave, Writers
    <3>3. l \in OpStates /\ l.wire = <<>> /\ Queued(l) /\ Drained(l)
      BY <1>0, ChainTypes DEF Queued, Drained, OpStates, Chains
    <3> HIDE DEF l
    <3>4. q' = l \/ q' = Publish(l, OnIdentify(l.view, "success"))
      BY <2>5, <3>2 DEF RequestWritten, Identified, IdentifyWriteFails
    <3>5. Stays(l, Publish(l, OnIdentify(l.view, "success")))
      BY <3>3, ClosingStays
    <3> QED BY <3>3, <3>4, <3>5 DEF Drained, Quiet, Stays
  <2>6. CASE TokenRead
    <3>1. CASE q' = q
      BY <1>4, <3>1
    <3>2. CASE q' = Join(q, "identify") /\ q.wire = <<>>
      <4>1. q' = [q EXCEPT !.wire = <<"identify">>]
        BY <3>2, ChainSteps DEF Join, Writers
      <4> QED BY <1>0, <4>1 DEF Drained, Quiet, OpStates
    <3> QED BY <2>6, <3>1, <3>2 DEF TokenRead
  <2>7. CASE IdentifyFails
    <3> DEFINE f == Publish(q, OnIdentify(q.view, "failed"))
               s == Closed(f)
    <3>1. Stays(q, f) /\ Queued(f)
      BY <1>0, ClosingStays DEF Stays
    <3>2. q' = s \/ ScheduleReconnect(NothingToClose(s))
      BY <2>7 DEF IdentifyFails
    <3> HIDE DEF f
    <3>3. Stays(f, s) /\ Queued(s) /\ Stays(s, NothingToClose(s))
      BY <3>1, ClosingStays DEF Stays
    <3> HIDE DEF s
    <3>4. Stays(q, s) /\ Stays(q, NothingToClose(s)) /\ Queued(NothingToClose(s))
      <4>1. Stays(q, s)
        BY <3>1, <3>3, StaysTransitive
      <4>2. Stays(q, NothingToClose(s))
        BY <3>3, <4>1, StaysTransitive
      <4> QED BY <4>1, <4>2 DEF Stays
    <3> QED BY <1>2, <3>2, <3>4, StaysQuiet
  <2> QED BY <1>5, <2>1, <2>2, <2>3, <2>4, <2>5, <2>6, <2>7 DEF Opener
<1>6. CASE TokenArrives \/ Unplug \/ IoCloseDone \/ LostCloseDone \/ PortError
  BY <1>0, <1>1, <1>2, <1>4, <1>6, StaysQuiet
  DEF TokenArrives, Unplug, IoCloseDone, LostCloseDone, PortError, Stays
<1>7. CASE PortCloseEvent \/ TimerFires
  BY <1>0, <1>1, <1>2, <1>4, <1>7, StaysQuiet
  DEF PortCloseEvent, TimerFires, OpenPort, link, Stays
<1>8. CASE Runner
  <2>1. CASE Execute
    BY <1>3, <2>1 DEF Execute, Quiet
  <2>2. CASE OpWritten \/ OpWriteFails
    <3>1. q.wire # <<>> /\ Head(q.wire) = "op"
      BY <2>2 DEF OpWritten, OpWriteFails
    <3>2. q.pc \in {"first", "second"} /\ q.active \in Kinds
      BY <1>0, <3>1, ChainHeads DEF Wired, Queued, OpStates, OpChains
    <3>3. Cancelled(q)
      BY <3>2, NoOpAssumption DEF Cancelled, Drained
    <3> DEFINE n == [q EXCEPT !.wire = <<>>]
    <3>4. Promote(Leave(q)) = n
      <4>1. PICK w \in {<<>>, <<"move">>} :
              /\ Promote(Leave(q)) = [q EXCEPT !.wire = w]
              /\ w = <<"move">> => MayWrite(q, "move", Open)
        BY <1>0, <3>1, AfterOp
      <4> QED BY <3>3, <4>1 DEF MayWrite
    <3>5. /\ n \in OpStates /\ n.wire = <<>> /\ n.active = q.active /\ n.pc = q.pc
          /\ n.queue = <<>> /\ n.cancel
      BY <1>0, <3>2, NoOpAssumption, ChainTypes DEF OpStates, Drained, Chains
    <3> HIDE DEF n
    <3>6. q' = AfterWrite(n) \/ q' = Settle(n)
      BY <2>2, <3>4 DEF OpWritten, OpWriteFails
    <3>7. n.pc = "second" => n.active.kind = "click"
      BY <1>0, <3>5 DEF Queued
    <3>8. Drained(AfterWrite(n)) /\ AfterWrite(n).wire = <<>>
      BY <3>2, <3>5, <3>7, AfterWriteEffect DEF Drained
    <3>9. Drained(Settle(n)) /\ Settle(n).wire = <<>>
      BY <3>5, SettleEffect DEF Drained, SameButtons
    <3> QED BY <3>6, <3>8, <3>9 DEF Quiet
  <2>3. CASE DrainOfNull
    BY <1>4, <2>3 DEF DrainOfNull
  <2>4. CASE HoldOver
    <3>1. q.cancel
      BY <1>0, <2>4 DEF HoldOver, Queued, Drained
    <3> QED BY <1>3, <2>4, <3>1 DEF HoldOver, Quiet
  <2> QED BY <1>8, <2>1, <2>2, <2>3, <2>4 DEF Runner
<1>9. CASE MoveLoop
  <2>1. CASE TickAtEdge \/ Tick
    BY <2>1 DEF TickAtEdge, Tick, TickMay
  <2>2. CASE MoveWritten \/ MoveFails
    <3>1. q.wire # <<>> /\ Head(q.wire) = "move" /\ q' = Promote(Leave(q))
      BY <2>2 DEF MoveWritten, MoveFails
    <3>2. Drained(q')
      BY <1>0, <3>1, AfterMove DEF Drained
    <3>3. q'.wire = <<>>
      <4> SUFFICES ASSUME q'.wire # <<>> PROVE FALSE
        OBVIOUS
      <4>1. ~Cancelled(q) /\ q.wire = <<"move", "op">>
        BY <1>0, <3>1, AfterMove DEF MayWrite
      <4>2. q.active # NoOp
        BY <1>0, <4>1 DEF Wired, OpChains, Queued
      <4> QED BY <4>1, <4>2 DEF Cancelled, Drained
    <3> QED BY <3>2, <3>3 DEF Quiet
  <2> QED BY <1>9, <2>1, <2>2 DEF MoveLoop
<1>10. CASE Requests
  BY <1>1, <1>4, <1>10, StaysQuiet
  DEF Requests, ClientMoves, handleMoveAbsolute, handleMoveRelative, enqueueOp,
      cancelAll, setHostPower
<1>11. CASE Environment
  BY <1>1, <1>4, <1>11, StaysQuiet
  DEF Environment, onDeviceIdentified, onDeviceLost, BoardResets, OpenPort
<1>12. CASE Stop
  <2>1. CASE StopBegin \/ StopClose
    BY <1>1, <2>1, StaysQuiet DEF StopBegin, StopClose
  <2>2. CASE StopFinish
    <3> DEFINE s == IF stop = "closing" THEN Disconnected(q) ELSE q
    <3>1. s \in OpStates /\ s.wire = q.wire
      BY <1>0, <1>1 DEF Stays, Queued
    <3>2. q' = [s EXCEPT !.queue = <<>>, !.active = NoOp, !.cancel = FALSE,
                         !.pc = "idle", !.down = {}]
      BY <2>2 DEF StopFinish
    <3> HIDE DEF s
    <3>3. q'.queue = <<>> /\ q'.active = NoOp /\ q'.wire = s.wire
      BY <3>1, <3>2 DEF OpStates
    <3> QED BY <3>1, <3>3 DEF Drained, Quiet
  <2> QED BY <1>12, <2>1, <2>2 DEF Stop
<1> QED
  BY <1>5, <1>6, <1>7, <1>8, <1>9, <1>10, <1>11, <1>12 DEF Next, Connection, Halted, Live

(* Turning the host off drains the queue and begins no write.              *)
LEMMA TurnedOff ==
  ASSUME TypeOK, Chained, Live, Next, host # "off", host' = "off"
  PROVE  Quiet
<1>1. Queued(q)
  BY DEF Chained
<1>2. UNCHANGED host \/ host' = "on" \/ q' = CancelAll(q)
  BY DEF Next, Connection, Opener, PreCloseDone, OpenFails, OpenSucceeds,
     OpenedWhileStopping, StopCloseDone, RequestWritten, TokenRead, TokenTimeout,
     Identified, IdentifyWriteFails, IdentifyFails, FailCloseDone, TokenArrives,
     PortError, IoCloseDone, Unplug, PortCloseEvent, TimerFires, LostCloseDone,
     Runner, Execute, OpWritten, OpWriteFails, DrainOfNull, HoldOver,
     MoveLoop, TickAtEdge, Tick, MoveWritten, MoveFails, Requests, ClientMoves,
     handleMoveAbsolute, handleMoveRelative, enqueueOp, cancelAll, setHostPower,
     Environment, onDeviceIdentified, onDeviceLost, BoardResets, Stop, StopBegin,
     StopClose, StopFinish, Halted, vars
<1>3. q' = CancelAll(q)
  BY <1>2
<1> QED BY <1>1, <1>3, CancelAllEffect DEF Quiet, Drained, SameButtons

OffDrained == host = "off" => Drained(q)

(* No movement and no operation is sent to a host that is known to be off: *)
(* whatever waited for its turn when the power went is cancelled, and the  *)
(* write that waits behind it asks again.                                  *)
THEOREM HostOffIsQuiet == Spec => NothingSentWhileOff
<1>1. ASSUME TypeOK, Chained, OffDrained, Next, host' = "off"
      PROVE  \/ UNCHANGED vars
             \/ Quiet
  <2>1. CASE ~Live
    BY <1>1, <2>1 DEF Next, Halted
  <2>2. CASE Live
    BY <1>1, <2>2, OffKept, TurnedOff DEF OffDrained
  <2> QED BY <2>1, <2>2
<1>2. TypeOK /\ Chained /\ OffDrained /\ [Next]_vars => OffDrained'
  BY <1>1 DEF OffDrained, Quiet, Drained, vars
<1>3. TypeOK /\ Chained /\ OffDrained /\ [Next]_vars =>
        [Begins("op") \/ Begins("move") => host' # "off"]_vars
  <2> SUFFICES ASSUME TypeOK, Chained, OffDrained, Next, host' = "off", ~UNCHANGED vars,
                      NEW w \in {"op", "move"}, Begins(w)
               PROVE  FALSE
    OBVIOUS
  <2>1. q'.wire \in {q.wire, <<>>, <<"identify">>}
    BY <1>1 DEF Quiet
  <2>2. q.wire \in Seq(Writers) /\ Head(<<"identify">>) = "identify"
    BY ChainSteps, ChainTypes DEF Chained, Writers
  <2>3. Len(q.wire) \in Nat
    BY <2>2
  <2> QED BY <2>1, <2>2, <2>3 DEF Begins
<1>4. Init => OffDrained
  BY DEF Init, OffDrained
<1> QED BY <1>2, <1>3, <1>4, AlwaysChained, PTL DEF Spec, NothingSentWhileOff

-----------------------------------------------------------------------------
(* Reconnecting *)

ClosesUnderWay == ioClosers > 0 \/ lostClosers > 0

(* While there is no port to a mouse that is known, something is under way *)
(* that ends in a timer or in the last attempt.                            *)
Link ==
  /\ opener = "stopClose" => Stopping
  /\ port = "none" /\ known /\ ~Stopping =>
       timer \/ Exhausted \/ opener # "idle" \/ ClosesUnderWay

LEMMA LinkKept == ASSUME TypeOK, Link, Live, Next PROVE Link'
<1>1. CASE UNCHANGED <<known, port, opener, retry, closers, stop>>
  BY <1>1 DEF Link, ClosesUnderWay, Stopping, Exhausted, retry, closers
<1>2. ASSUME NEW s, ScheduleReconnect(s), known' = known, stop' = stop,
             opener' = opener \/ opener' = "idle"
      PROVE  Link'
  <2>1. ~Stopping /\ known => timer' \/ Exhausted'
    BY <1>2, ReconnectTypes
  <2> QED BY <1>2, <2>1 DEF Link, Stopping
<1>3. CASE Opener
  <2>1. CASE OpenFails \/ FailCloseDone
    BY <1>2, <2>1 DEF OpenFails, FailCloseDone
  <2>2. CASE IdentifyFails
    <3>1. CASE opener' = "failClose"
      BY <3>1 DEF Link
    <3>2. CASE opener' = "idle" /\ \E s : ScheduleReconnect(s)
      BY <1>2, <2>2, <3>2 DEF IdentifyFails
    <3> QED BY <2>2, <3>1, <3>2 DEF IdentifyFails
  <2>3. CASE OpenSucceeds
    BY <2>3 DEF OpenSucceeds, Link
  <2>4. CASE PreCloseDone \/ OpenedWhileStopping \/ StopCloseDone \/ RequestWritten
             \/ TokenRead \/ TokenTimeout \/ Identified \/ IdentifyWriteFails
    BY <2>4
    DEF PreCloseDone, OpenedWhileStopping, StopCloseDone, RequestWritten, TokenRead,
        TokenTimeout, Identified, IdentifyWriteFails, BeginOpening, Link, Stopping, Open
  <2> QED BY <1>3, <2>1, <2>2, <2>3, <2>4 DEF Opener
<1>4. ASSUME OpenPort, UNCHANGED stop PROVE Link'
  <2>1. CASE opener # "idle"
    BY <1>4, <2>1 DEF OpenPort, Link, link, Stopping
  <2>2. CASE opener = "idle"
    BY <1>4, <2>2 DEF OpenPort, BeginOpening, Link
  <2> QED BY <2>1, <2>2
<1>5. CASE PortError \/ PortCloseEvent \/ IoCloseDone \/ Unplug \/ LostCloseDone
           \/ TokenArrives \/ TimerFires
  <2>1. CASE PortError
    <3>1. ioClosers' > 0 /\ stop' = stop /\ opener' \in {opener, "failing"}
      BY <2>1 DEF PortError, FailWaiters, TypeOK
    <3> QED BY <3>1 DEF Link, ClosesUnderWay, Stopping
  <2>2. CASE PortCloseEvent
    <3>1. stop' = stop /\ known' = known /\ opener' \in {opener, "failing"}
      BY <2>2 DEF PortCloseEvent, FailWaiters
    <3>2. ~Stopping /\ known => timer' \/ Exhausted'
      BY <2>2, ReconnectTypes DEF PortCloseEvent
    <3> QED BY <3>1, <3>2 DEF Link, Stopping
  <2>3. CASE IoCloseDone
    BY <1>2, <2>3 DEF IoCloseDone, link
  <2>4. CASE Unplug \/ LostCloseDone
    BY <2>4 DEF Unplug, LostCloseDone, Link, Stopping, link
  <2>5. CASE TokenArrives
    BY <1>1, <2>5 DEF TokenArrives
  <2>6. CASE TimerFires
    <3>1. CASE OpenPort
      BY <1>4, <2>6, <3>1 DEF TimerFires
    <3>2. CASE (Stopping \/ ~known \/ opener # "idle") /\ UNCHANGED link
      BY <2>6, <3>2 DEF TimerFires, Link, Stopping, link
    <3> QED BY <2>6, <3>1, <3>2 DEF TimerFires
  <2> QED BY <1>5, <2>1, <2>2, <2>3, <2>4, <2>5, <2>6
<1>6. CASE Runner \/ MoveLoop \/ Requests \/ BoardResets
  BY <1>1, <1>6
  DEF Runner, Execute, OpWritten, OpWriteFails, DrainOfNull, HoldOver,
      MoveLoop, TickAtEdge, Tick, MoveWritten, MoveFails, Requests, ClientMoves,
      handleMoveAbsolute, handleMoveRelative, enqueueOp, cancelAll, setHostPower,
      BoardResets, link
<1>7. CASE onDeviceIdentified
  <2>1. CASE OpenPort
    BY <1>4, <1>7, <2>1 DEF onDeviceIdentified
  <2>2. CASE (Stopping \/ Ready) /\ UNCHANGED link
    BY <1>7, <2>2 DEF onDeviceIdentified, Link, Stopping, Ready, Open, link
  <2> QED BY <1>7, <2>1, <2>2 DEF onDeviceIdentified
<1>8. CASE onDeviceLost
  <2>1. stop' = stop /\ opener' \in {opener, "failing"}
    BY <1>8 DEF onDeviceLost, FailWaiters
  <2>2. lostClosers' > 0 \/ known' = FALSE
    <3>1. lostClosers' = lostClosers + 1 \/ known' = FALSE
      BY <1>8 DEF onDeviceLost
    <3>2. lostClosers \in Nat
      BY DEF TypeOK
    <3> QED BY <3>1, <3>2
  <2> QED BY <2>1, <2>2 DEF Link, ClosesUnderWay, Stopping
<1>9. CASE Stop
  BY <1>9 DEF Stop, StopBegin, StopClose, StopFinish, Link, Stopping
<1> QED
  BY <1>3, <1>5, <1>6, <1>7, <1>8, <1>9 DEF Next, Halted, Live, Connection, Environment

(* A mouse that discovery reports is never given up silently: with no port *)
(* and nothing under way there is a timer, or the attempts are used up.    *)
THEOREM NoMouseStranded == Spec => []NeverStranded
<1>1. Init => Link
  BY DEF Init, Link
<1>2. TypeOK /\ Link /\ [Next]_vars => Link'
  <2>1. ASSUME TypeOK, Link, UNCHANGED vars PROVE Link'
    BY <2>1 DEF Link, ClosesUnderWay, Stopping, Exhausted, vars, link, retry, closers
  <2> QED BY <2>1, LinkKept DEF Next, Halted
<1>3. TypeOK /\ Link => NeverStranded
  <2>1. TypeOK => (ioClosers + lostClosers = 0 => ~ClosesUnderWay)
    BY DEF TypeOK, ClosesUnderWay
  <2> QED BY <2>1 DEF Link, NeverStranded, Settled
<1> QED BY <1>1, <1>2, <1>3, AlwaysChained, PTL DEF Spec

-----------------------------------------------------------------------------
(* Buttons *)

(* A port belongs to a mouse that is known, and none is left or opened     *)
(* once stop() has closed it.                                              *)
Attached ==
  /\ port # "none" => known /\ lostClosers = 0
  /\ stop \in {"closing", "closed", "done"} => port = "none" /\ opener = "idle"

LEMMA AttachedKept == ASSUME TypeOK, Attached, Live, Next PROVE Attached'
<1>1. CASE UNCHANGED <<known, port, opener, lostClosers, stop>>
  BY <1>1 DEF Attached
<1>2. ASSUME ClosePort, UNCHANGED stop, opener' = opener \/ (opener # "idle")
      PROVE  Attached'
  BY <1>2 DEF ClosePort, Attached
<1>3. ASSUME OpenPort, ~Stopping, UNCHANGED <<stop, lostClosers>>, known' = TRUE \/ known' = known
      PROVE  Attached'
  BY <1>3
  DEF OpenPort, ClosePort, BeginOpening, Attached, Stopping, link
<1>4. CASE Opener
  <2>1. CASE OpenSucceeds
    BY <2>1 DEF OpenSucceeds, Present, Attached, Stopping, closers
  <2>2. CASE IdentifyFails
    BY <1>2, <2>2 DEF IdentifyFails
  <2>3. CASE PreCloseDone \/ OpenFails \/ OpenedWhileStopping \/ StopCloseDone
    BY <2>3
    DEF PreCloseDone, OpenFails, OpenedWhileStopping, StopCloseDone, BeginOpening,
        Attached, closers
  <2>4. CASE RequestWritten \/ TokenRead \/ TokenTimeout \/ Identified
             \/ IdentifyWriteFails \/ FailCloseDone
    BY <2>4
    DEF RequestWritten, TokenRead, TokenTimeout, Identified, IdentifyWriteFails,
        FailCloseDone, Attached, closers
  <2> QED BY <1>4, <2>1, <2>2, <2>3, <2>4 DEF Opener
<1>5. CASE PortError \/ PortCloseEvent
  BY <1>2, <1>5 DEF PortError, PortCloseEvent, FailWaiters
<1>6. CASE IoCloseDone \/ TokenArrives \/ Unplug \/ LostCloseDone
  <2>1. CASE IoCloseDone \/ TokenArrives
    BY <1>1, <2>1 DEF IoCloseDone, TokenArrives, link, closers
  <2>2. CASE Unplug
    BY <2>2 DEF Unplug, Open, Attached, closers
  <2>3. CASE LostCloseDone
    <3>1. lostClosers # 0
      BY <2>3 DEF LostCloseDone, TypeOK
    <3> QED BY <2>3, <3>1 DEF LostCloseDone, Attached, link
  <2> QED BY <1>6, <2>1, <2>2, <2>3
<1>7. CASE TimerFires
  BY <1>1, <1>3, <1>7 DEF TimerFires, link, closers
<1>8. CASE onDeviceIdentified
  <2>1. CASE UNCHANGED link
    BY <1>8, <2>1 DEF onDeviceIdentified, Attached, link, closers
  <2>2. CASE OpenPort /\ ~Stopping
    BY <1>3, <1>8, <2>2 DEF onDeviceIdentified, closers
  <2> QED BY <1>8, <2>1, <2>2 DEF onDeviceIdentified
<1>9. CASE onDeviceLost
  BY <1>2, <1>9 DEF onDeviceLost, FailWaiters
<1>10. CASE Runner \/ MoveLoop \/ Requests \/ BoardResets
  BY <1>1, <1>10
  DEF Runner, Execute, OpWritten, OpWriteFails, DrainOfNull, HoldOver,
      MoveLoop, TickAtEdge, Tick, MoveWritten, MoveFails, Requests, ClientMoves,
      handleMoveAbsolute, handleMoveRelative, enqueueOp, cancelAll, setHostPower,
      BoardResets, link, closers
<1>11. CASE Stop
  BY <1>11 DEF Stop, StopBegin, StopClose, StopFinish, ClosePort, Attached, link, closers
<1> QED
  BY <1>4, <1>5, <1>6, <1>7, <1>8, <1>9, <1>10, <1>11
  DEF Next, Halted, Live, Connection, Environment

(* What the browser shows as held belongs to a mouse that is known, and is *)
(* held by the service unless the port is being closed; and the service    *)
(* holds what the board behind an open port does.                          *)
Closing == ClosesUnderWay \/ opener \in {"preClose", "failClose"}

Held ==
  /\ ~known => q.view.held = {}
  /\ ~Stopping => q.view.held \subseteq q.down \/ Closing
  /\ ResetsOnOpen /\ Open => firmware.down \subseteq q.down

LEMMA HeldKept == ASSUME TypeOK, Chained, Attached, Held, Live, Next PROVE Held'
<1>0. /\ Queued(q) /\ q \in OpStates /\ Wired(q, tick, opener) /\ stop # "done"
      /\ opener \in {"preClose", "opening"} => port # "open"
  BY DEF Chained, Queued, Live
<1>1. ASSUME q'.down = q.down, q'.view.held = q.view.held, UNCHANGED firmware,
             known' = known, closers' = closers, stop' = stop \/ Stopping',
             port' = port \/ port' # "open",
             opener' = opener \/ opener \notin {"preClose", "failClose"}
      PROVE  Held'
  BY <1>1 DEF Held, Closing, ClosesUnderWay, Stopping, Open, closers
<1>2. ASSUME q'.view.held = {}, port' # "open" PROVE Held'
  BY <1>2 DEF Held, Open
<1>3. ASSUME q'.view.held = q.view.held, port' # "open", known' = known,
             Closing' \/ Stopping'
      PROVE  Held'
  BY <1>3 DEF Held, Open
<1>4. /\ Queued(Closed(q)) /\ Closed(q).view = q.view /\ Closed(q).down = {}
      /\ CancelAll(q).down = q.down /\ CancelAll(q).view = q.view
  BY <1>0, ClosedEffect, CancelAllEffect DEF SameButtons
<1>5. ASSUME NEW s, Queued(s), s.view.held = q.view.held
      PROVE  /\ Disconnected(s).view.held = {} /\ Queued(Disconnected(s))
             /\ NothingToClose(s).view.held = {} /\ Queued(NothingToClose(s))
             /\ Publish(s, OnLost(s.view)).view.held = {}
  <2>1. ~known => NothingToClose(s).view.held = s.view.held
    BY DEF NothingToClose
  <2>2. ~known => s.view.held = {}
    BY <1>5 DEF Held
  <2> QED BY <1>5, <2>1, <2>2, ClosingStays DEF Stays
<1>6. ASSUME NEW s, Queued(s), ScheduleReconnect(s)
      PROVE  q'.down = s.down /\ q'.view.held = s.view.held
  BY <1>6, ScheduleReconnectEffect
<1>7. ASSUME OpenPort, UNCHANGED closers, opener = "idle",
             known' = known \/ known' = TRUE, stop' = stop, UNCHANGED firmware
      PROVE  Held'
  <2>1. CASE Open
    <3>1. q'.view.held = q.view.held /\ port' = "none" /\ opener' = "preClose"
      BY <1>4, <1>7, <2>1 DEF OpenPort, ClosePort
    <3>2. known /\ known' = TRUE
      BY <1>7, <2>1 DEF Attached, Open, TypeOK
    <3> QED BY <3>1, <3>2 DEF Held, Closing, Open
  <2>2. CASE ~Open
    BY <1>7, <2>2
    DEF OpenPort, BeginOpening, Held, Closing, ClosesUnderWay, Stopping, Open, closers
  <2> QED BY <2>1, <2>2
<1>8. CASE Opener
  <2>1. CASE PreCloseDone
    BY <1>0, <1>2, <1>5, <2>1 DEF PreCloseDone, BeginOpening
  <2>2. CASE OpenFails
    <3>1. q'.down = q.down /\ q'.view.held = q.view.held
      BY <1>0, <1>6, <2>2 DEF OpenFails
    <3> QED BY <1>1, <2>2, <3>1 DEF OpenFails
  <2>3. CASE OpenSucceeds
    <3> DEFINE told == Publish(Closed(q), OnIdentify(OnConnected(q.view), "start"))
    <3>1. q' = told \/ q' = Join(told, "identify")
      BY <2>3 DEF OpenSucceeds, Closed
    <3>2. /\ OnIdentify(OnConnected(q.view), "start") \in Views
          /\ OnIdentify(OnConnected(q.view), "start").held = {}
      <4>1. OnConnected(q.view) \in Views /\ OnConnected(q.view).held = {}
        BY <1>0, EventViews DEF OpStates
      <4> QED BY <4>1, EventViews
    <3>3. told.view.held = {} /\ told \in OpStates
      BY <1>4, <3>2, PublishEffect DEF Queued
    <3> HIDE DEF told
    <3>4. q'.view.held = {}
      BY <3>1, <3>3 DEF Join, OpStates
    <3>5. ResetsOnOpen => firmware'.down = {}
      BY <2>3 DEF OpenSucceeds, Board
    <3> QED BY <3>4, <3>5 DEF Held
  <2>4. CASE OpenedWhileStopping \/ StopCloseDone \/ TokenTimeout
    BY <1>1, <2>4 DEF OpenedWhileStopping, StopCloseDone, TokenTimeout
  <2>5. CASE RequestWritten \/ Identified \/ IdentifyWriteFails \/ TokenRead
    <3>1. q'.down = q.down /\ q'.view.held = q.view.held
      <4>1. CASE TokenRead
        BY <1>0, <4>1 DEF TokenRead, Join, OpStates
      <4>2. CASE RequestWritten \/ Identified \/ IdentifyWriteFails
        <5> DEFINE l == [q EXCEPT !.wire = <<>>]
        <5>1. Leave(q) = l
          <6>1. q.wire = <<"identify">>
            BY <1>0, <4>2, ChainHeads
            DEF RequestWritten, Identified, IdentifyWriteFails, IdentifyWriting, Wired
          <6> QED BY <6>1, ChainSteps DEF Leave, Writers
        <5>2. Queued(l) /\ l.down = q.down /\ l.view = q.view
          BY <1>0, ChainTypes DEF Queued, OpStates, Chains
        <5> HIDE DEF l
        <5>3. q' = l \/ q' = Publish(l, OnIdentify(l.view, "success"))
          BY <4>2, <5>1 DEF RequestWritten, Identified, IdentifyWriteFails
        <5> QED BY <5>2, <5>3, ClosingStays
      <4> QED BY <2>5, <4>1, <4>2
    <3>2. /\ opener' = opener \/ opener \notin {"preClose", "failClose"}
          /\ UNCHANGED <<known, port, closers, stop, firmware>>
      BY <2>5 DEF RequestWritten, Identified, IdentifyWriteFails, TokenRead
    <3> QED BY <1>1, <3>1, <3>2
  <2>6. CASE IdentifyFails
    <3> DEFINE f == Publish(q, OnIdentify(q.view, "failed"))
               s == Closed(f)
    <3>1. Queued(f) /\ f.view.held = q.view.held
      BY <1>0, ClosingStays DEF Stays
    <3>2. \/ opener' = "failClose" /\ q' = s
          \/ ScheduleReconnect(NothingToClose(s))
      BY <2>6 DEF IdentifyFails
    <3> HIDE DEF f
    <3>3. Queued(s) /\ s.view.held = q.view.held
      BY <3>1, ClosedEffect
    <3> HIDE DEF s
    <3>4. CASE opener' = "failClose" /\ q' = s
      BY <1>3, <2>6, <3>3, <3>4 DEF IdentifyFails, ClosePort, Closing
    <3>5. CASE ScheduleReconnect(NothingToClose(s))
      <4>1. q'.view.held = {}
        BY <1>5, <1>6, <3>3, <3>5
      <4> QED BY <1>2, <2>6, <4>1 DEF IdentifyFails, ClosePort
    <3> QED BY <3>2, <3>4, <3>5
  <2>7. CASE FailCloseDone
    <3>1. q'.view.held = {} /\ q'.down = q.down
      BY <1>0, <1>5, <1>6, <2>7, ClosingStays DEF FailCloseDone
    <3> QED BY <2>7, <3>1 DEF FailCloseDone, Held, Open
  <2> QED BY <1>8, <2>1, <2>2, <2>3, <2>4, <2>5, <2>6, <2>7 DEF Opener
<1>9. CASE TokenArrives \/ Unplug
  BY <1>1, <1>9 DEF TokenArrives, Unplug
<1>10. CASE IoCloseDone
  <2>1. q'.view.held = {} /\ q'.down = q.down
    BY <1>0, <1>5, <1>6, <1>10, ClosingStays DEF IoCloseDone
  <2> QED BY <1>10, <2>1 DEF IoCloseDone, Held, Open, link
<1>11. CASE LostCloseDone
  <2>1. q'.view.held = {} /\ port' # "open"
    <3>1. lostClosers # 0
      BY <1>11 DEF LostCloseDone, TypeOK
    <3> QED BY <1>0, <1>5, <1>11, <3>1 DEF LostCloseDone, Attached, link
  <2> QED BY <1>2, <2>1
<1>12. CASE PortError
  <2>1. ClosesUnderWay' /\ Closing'
    <3>1. ioClosers' > 0
      BY <1>12 DEF PortError, TypeOK
    <3> QED BY <3>1 DEF ClosesUnderWay, Closing
  <2> QED BY <1>3, <1>4, <1>12, <2>1 DEF PortError, ClosePort
<1>13. CASE PortCloseEvent
  <2>1. q'.view.held = {}
    BY <1>4, <1>5, <1>6, <1>13 DEF PortCloseEvent
  <2> QED BY <1>2, <1>13, <2>1 DEF PortCloseEvent, ClosePort
<1>14. CASE TimerFires
  <2>1. CASE UNCHANGED <<link, q>>
    BY <1>1, <1>14, <2>1 DEF TimerFires, link
  <2>2. CASE OpenPort /\ opener = "idle"
    BY <1>7, <1>14, <2>2 DEF TimerFires
  <2> QED BY <1>14, <2>1, <2>2 DEF TimerFires
<1>15. CASE Runner
  <2>1. CASE Execute \/ HoldOver \/ DrainOfNull
    <3>1. Settle(q).down = q.down /\ Settle(q).view.held = q.view.held
      BY <1>0, SettleEffect DEF SameButtons
    <3>2. \A pc : /\ Join([q EXCEPT !.pc = pc], "op").down = q.down
                  /\ Join([q EXCEPT !.pc = pc], "op").view = q.view
      BY <1>0 DEF Join, OpStates
    <3>3. q'.down = q.down /\ q'.view.held = q.view.held
      BY <2>1, <3>1, <3>2 DEF Execute, HoldOver, DrainOfNull
    <3> QED BY <1>1, <2>1, <3>3 DEF Execute, HoldOver, DrainOfNull, link
  <2>2. CASE OpWritten \/ OpWriteFails
    <3>1. q.wire # <<>> /\ Head(q.wire) = "op"
      BY <2>2 DEF OpWritten, OpWriteFails
    <3>2. q.pc \in {"first", "second"} /\ q.active \in Kinds
      BY <1>0, <3>1, ChainHeads DEF Wired, Queued, OpStates, OpChains
    <3>3. PICK w \in {<<>>, <<"move">>} : Promote(Leave(q)) = [q EXCEPT !.wire = w]
      BY <1>0, <3>1, AfterOp
    <3> DEFINE n == [q EXCEPT !.wire = w]
    <3>4. w \in Seq(Writers)
      BY ChainTypes DEF Chains, MoveChains
    <3>5. /\ n \in OpStates /\ n.active = q.active /\ n.pc = q.pc
          /\ n.down = q.down /\ n.view = q.view
      BY <1>0, <3>4 DEF OpStates
    <3>6. Command(n) = Command(q)
      BY <3>5 DEF Command
    <3>7. Promote(Leave(q)) = n
      BY <3>3
    <3> HIDE DEF n
    <3>8. n.pc = "second" => n.active.kind = "click"
      BY <1>0, <3>5 DEF Queued
    <3>9. CASE OpWritten
      <4>1. q' = AfterWrite(n) /\ Open /\ Perform(Command(n))
        BY <3>6, <3>7, <3>9 DEF OpWritten
      <4>2. q.view.held \subseteq q.down => q'.view.held \subseteq q'.down
        BY <3>2, <3>5, <3>8, <4>1, AfterWriteEffect
      <4>3. firmware.down \subseteq q.down => firmware'.down \subseteq q'.down
        <5>1. /\ Command(n).kind \in {"CLICK", "RELEASE", "WHEEL"}
              /\ Command(n).kind = "CLICK" =>
                   q'.down = q.down \cup {Command(n).button}
              /\ Command(n).kind = "RELEASE" =>
                   q.down \ {Command(n).button} \subseteq q'.down
              /\ Command(n).kind = "WHEEL" => q'.down = q.down
          BY <3>2, <3>5, <3>8, <4>1, AfterWriteEffect
        <5>2. firmware \in [down : SUBSET Buttons, last : Cells]
          BY DEF TypeOK
        <5>3. CASE Command(n).kind = "CLICK"
          BY <4>1, <5>1, <5>2, <5>3 DEF Perform, Press
        <5>4. CASE Command(n).kind = "RELEASE"
          BY <4>1, <5>1, <5>2, <5>4 DEF Perform, Release
        <5>5. CASE Command(n).kind = "WHEEL"
          BY <4>1, <5>1, <5>2, <5>5 DEF Perform
        <5> QED BY <5>1, <5>3, <5>4, <5>5
      <4>4. known /\ UNCHANGED <<known, port, opener, closers, stop>>
        BY <3>9 DEF OpWritten, Attached, Open, link
      <4> QED BY <4>1, <4>2, <4>3, <4>4
         DEF Held, Closing, ClosesUnderWay, Stopping, Open, closers
    <3>10. CASE OpWriteFails
      <4>1. q' = Settle(n)
        BY <3>7, <3>10 DEF OpWriteFails
      <4>2. q'.down = q.down /\ q'.view.held = q.view.held
        BY <3>5, <4>1, SettleEffect DEF SameButtons
      <4>3. UNCHANGED firmware \/ port' # "open"
        BY <3>10 DEF OpWriteFails, Open, link
      <4>4. UNCHANGED <<known, port, opener, closers, stop>>
        BY <3>10 DEF OpWriteFails, link
      <4> QED BY <4>2, <4>3, <4>4
         DEF Held, Closing, ClosesUnderWay, Stopping, Open, closers
    <3> QED BY <2>2, <3>9, <3>10
  <2> QED BY <1>15, <2>1, <2>2 DEF Runner
<1>16. CASE MoveLoop
  <2>1. CASE TickAtEdge \/ Tick
    <3>1. q'.down = q.down /\ q'.view.held = q.view.held
      BY <1>0, <2>1 DEF TickAtEdge, Tick, Join, OpStates
    <3> QED BY <1>1, <2>1, <3>1 DEF TickAtEdge, Tick, link
  <2>2. CASE MoveWritten \/ MoveFails
    <3>1. q.wire # <<>> /\ Head(q.wire) = "move" /\ q' = Promote(Leave(q))
      BY <2>2 DEF MoveWritten, MoveFails
    <3>2. q'.down = q.down /\ q'.view.held = q.view.held
      BY <1>0, <3>1, AfterMove
    <3>3. firmware'.down = firmware.down
      BY <2>2 DEF MoveWritten, MoveFails, TypeOK
    <3>4. UNCHANGED <<known, port, opener, closers, stop>>
      BY <2>2 DEF MoveWritten, MoveFails, link
    <3> QED BY <3>2, <3>3, <3>4
       DEF Held, Closing, ClosesUnderWay, Stopping, Open, closers
  <2> QED BY <1>16, <2>1, <2>2 DEF MoveLoop
<1>17. CASE Requests
  <2>1. CASE \E op \in Kinds : enqueueOp(op)
    <3>1. PICK op \in Kinds : enqueueOp(op)
      BY <2>1
    <3>2. q'.down = q.down /\ q'.view.held = q.view.held
      BY <1>0, <3>1, EnqueueEffect DEF enqueueOp, SameButtons
    <3> QED BY <1>1, <3>1, <3>2 DEF enqueueOp, link
  <2>2. CASE ClientMoves \/ cancelAll \/ \E p \in Powers : setHostPower(p)
    BY <1>1, <1>4, <2>2
    DEF ClientMoves, handleMoveAbsolute, handleMoveRelative, cancelAll, setHostPower,
        link
  <2> QED BY <1>17, <2>1, <2>2 DEF Requests
<1>18. CASE Environment
  <2>1. CASE onDeviceIdentified
    <3>1. CASE OpenPort /\ opener = "idle"
      BY <1>7, <2>1, <3>1 DEF onDeviceIdentified
    <3>2. CASE UNCHANGED <<link, q>>
      BY <2>1, <3>2
      DEF onDeviceIdentified, Held, Closing, ClosesUnderWay, Stopping, Open, closers, link
    <3> QED BY <2>1, <3>1, <3>2 DEF onDeviceIdentified, OpenPort
  <2>2. CASE onDeviceLost
    <3>1. CASE Open
      <4>1. lostClosers' > 0
        BY <2>2, <3>1 DEF onDeviceLost, TypeOK
      <4>2. Closing'
        BY <4>1 DEF Closing, ClosesUnderWay
      <4> QED BY <1>3, <1>4, <2>2, <3>1, <4>2 DEF onDeviceLost, ClosePort
    <3>2. CASE ~Open
      <4>1. q'.view.held = {}
        BY <1>4, <1>5, <2>2, <3>2 DEF onDeviceLost
      <4> QED BY <1>2, <2>2, <4>1 DEF onDeviceLost, ClosePort
    <3> QED BY <3>1, <3>2
  <2>3. CASE BoardResets
    BY <2>3
    DEF BoardResets, Board, Held, Closing, ClosesUnderWay, Stopping, Open, closers, link
  <2> QED BY <1>18, <2>1, <2>2, <2>3 DEF Environment
<1>19. CASE Stop
  <2>1. CASE StopBegin
    BY <1>1, <1>4, <2>1 DEF StopBegin, Stopping, link
  <2>2. CASE StopClose
    <3>1. Stopping' /\ port' = "none" /\ known' = known
      BY <2>2 DEF StopClose, ClosePort, Stopping
    <3>2. q'.view.held \in {{}, q.view.held}
      BY <1>4, <1>5, <2>2 DEF StopClose
    <3> QED BY <1>2, <1>3, <3>1, <3>2
  <2>3. CASE StopFinish
    <3> DEFINE s == IF stop = "closing" THEN Disconnected(q) ELSE q
    <3>1. s \in OpStates /\ s.view.held \in {{}, q.view.held}
      BY <1>0, <1>5 DEF Queued
    <3>2. q' = [s EXCEPT !.queue = <<>>, !.active = NoOp, !.cancel = FALSE,
                         !.pc = "idle", !.down = {}]
      BY <2>3 DEF StopFinish
    <3> HIDE DEF s
    <3>3. q'.view.held \in {{}, q.view.held}
      BY <3>1, <3>2 DEF OpStates
    <3>4. Stopping' /\ port' = "none" /\ known' = known
      BY <2>3 DEF StopFinish, Stopping, Attached
    <3> QED BY <1>2, <1>3, <3>3, <3>4
  <2> QED BY <1>19, <2>1, <2>2, <2>3 DEF Stop
<1> QED
  BY <1>8, <1>9, <1>10, <1>11, <1>12, <1>13, <1>14, <1>15, <1>16, <1>17, <1>18, <1>19
  DEF Next, Halted, Live, Connection

(* Service and browser agree on the buttons: once the events of a          *)
(* connection are in, none is shown as held that the service does not      *)
(* hold.  Where opening the port resets the board, as DTR does, the board  *)
(* agrees too: it holds no button that the service does not know of.       *)
THEOREM ButtonsAgree == Spec => [](ViewShowsHeld /\ (ResetsOnOpen => ButtonsKnown))
<1>1. Init => Attached /\ Held
  BY DEF Init, InitialOps, InitialView, Attached, Held, Open
<1>2. TypeOK /\ Chained /\ Attached /\ Held /\ [Next]_vars => Attached' /\ Held'
  <2>1. ASSUME Attached, Held, UNCHANGED vars PROVE Attached' /\ Held'
    BY <2>1
    DEF Attached, Held, Closing, ClosesUnderWay, Stopping, Open, vars, link, closers
  <2> QED BY <2>1, AttachedKept, HeldKept DEF Next, Halted
<1>3. TypeOK /\ Held => ViewShowsHeld /\ (ResetsOnOpen => ButtonsKnown)
  <2>1. TypeOK => (ioClosers + lostClosers = 0 => ~ClosesUnderWay)
    BY DEF TypeOK, ClosesUnderWay
  <2> QED BY <2>1
     DEF Held, Closing, ViewShowsHeld, ButtonsKnown, HeldButtonsAreKnown, Settled
<1> QED BY <1>1, <1>2, <1>3, AlwaysChained, PTL DEF Spec
=============================================================================
