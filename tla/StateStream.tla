----------------------------- MODULE StateStream -----------------------------
(***************************************************************************)
(* The application state and its copies: the versioned store (core/        *)
(* state.ts), the /ws plugin that streams it (plugins/ws.ts), and the      *)
(* browser's mirror of it (bootstrap.ts, stores/mirror.ts).                *)
(*                                                                         *)
(* set() is synchronous, but it calls listeners: those of 'patch' first,   *)
(* then those of 'snapshot'.  The keyboard and mouse plugins listen to the *)
(* front panel's patches and react to a change of the host power with      *)
(* set() calls of their own, which end before the outer call goes on to    *)
(* emit its snapshot.  The variable call is the outer call's frame.        *)
(***************************************************************************)
EXTENDS Naturals, Sequences, Functions

CONSTANTS Clients,      \* browser tabs
          Values,       \* contents of a slice
          InitialValue,
          NoCall,       \* no set() is in progress
          MaxVersion,   \* bound: versions of one run of the server
          MaxRestarts,  \* bound: restarts of the server
          MaxWire       \* bound: frames in flight when one more is asked for

ASSUME InitialValueAssumption == InitialValue \in Values
ASSUME BoundsAssumption ==
  MaxVersion \in Nat \ {0} /\ MaxRestarts \in Nat /\ MaxWire \in Nat

(* Slices the host power matters to, and one for all the others.           *)
Listeners == {"ps2Keyboard", "ps2Mouse"}
Slices == {"frontPanel", "other"} \cup Listeners

VARIABLES
  version, data,  \* the store
  call,           \* NoCall, or what the outer set() still has to do
  past,           \* history: the data of each version of this server run
  restarts,
  open,           \* clients with an open socket
  wire,           \* frames the server has sent to each client
  mirror,         \* each client's mirror store
  current         \* history: clients whose mirror has changed in this run

store == <<version, data, call, past, restarts>>
vars == <<store, open, wire, mirror, current>>

Versions == 1..MaxVersion
Datas == [Slices -> Values]
InitialData == [s \in Slices |-> InitialValue]

Snapshot(v, d) == [type |-> "snapshot", version |-> v, data |-> d]
(* Mutant: the patch is labelled with a version further on.                *)
PatchSkipsAhead(v, old, new) ==
  [type |-> "patch", from |-> v, to |-> v + 2,
   ops |-> Restrict(new, {s \in Slices : new[s] # old[s]})]

Patch(v, old, new) ==
  [type |-> "patch", from |-> v, to |-> v + 1,
   ops |-> Restrict(new, {s \in Slices : new[s] # old[s]})]

Init ==
  /\ version = 1 /\ data = InitialData
  /\ call = NoCall
  /\ past = <<InitialData>>
  /\ restarts = 0
  /\ open = {}
  /\ wire = [c \in Clients |-> <<>>]
  /\ mirror = [c \in Clients |-> [version |-> 0, data |-> InitialData]]
  /\ current = {}

-----------------------------------------------------------------------------
(* The server *)

(* onPatch and onSnapshot: the frames go to every open socket.             *)
Broadcast(frames) ==
  wire' = [c \in Clients |-> IF c \in open THEN wire[c] \o frames ELSE wire[c]]

Commit(new) ==
  /\ version < MaxVersion
  /\ version' = version + 1
  /\ data' = new
  /\ past' = Append(past, new)

(* set(), up to and including the plugin's own patch listener.             *)
set(key, value) ==
  /\ call = NoCall
  /\ LET new == [data EXCEPT ![key] = value]
     IN  /\ Commit(new)
         /\ Broadcast(<<Patch(version, data, new)>>)
         /\ call' = [version |-> version + 1, data |-> new,
                     listeners |-> IF key = "frontPanel" /\ value # data[key]
                                   THEN Listeners ELSE {}]
  /\ UNCHANGED <<restarts, open, mirror, current>>

(* A listener's service publishes an event: set() within set().  The       *)
(* keyboard's listener is called before the mouse's.                       *)
setWithin(key, value) ==
  /\ call # NoCall /\ key \in call.listeners
  /\ LET new == [data EXCEPT ![key] = value]
     IN  /\ Commit(new)
         /\ Broadcast(<<Patch(version, data, new), Snapshot(version + 1, new)>>)
  /\ call' = [call EXCEPT !.listeners =
                IF key = "ps2Mouse" THEN {"ps2Mouse"} ELSE @]
  /\ UNCHANGED <<restarts, open, mirror, current>>

(* The outer set() emits the snapshot it holds in its own variable.        *)
SetReturns ==
  /\ call # NoCall
  /\ Broadcast(<<Snapshot(call.version, call.data)>>)
  /\ call' = NoCall
  /\ UNCHANGED <<version, data, past, restarts, open, mirror, current>>

SendState(c) == wire' = [wire EXCEPT ![c] = Append(@, Snapshot(version, data))]

(* A socket opens: the state is sent before anything is broadcast to it.   *)
Connect(c) ==
  /\ call = NoCall /\ c \notin open
  /\ open' = open \cup {c}
  /\ SendState(c)
  /\ UNCHANGED <<store, mirror, current>>

(* Mutant: no snapshot timer, only the answer to the first subscribe.      *)
SnapshotOnce(c) ==
  /\ call = NoCall /\ c \in open \ current /\ Len(wire[c]) < MaxWire
  /\ SendState(c)
  /\ UNCHANGED <<store, open, mirror, current>>

(* The client's subscribe arrives, or the socket's snapshot timer ticks.   *)
SnapshotDue(c) ==
  /\ call = NoCall /\ c \in open /\ Len(wire[c]) < MaxWire
  /\ SendState(c)
  /\ UNCHANGED <<store, open, mirror, current>>

Disconnect(c) ==
  /\ call = NoCall /\ c \in open
  /\ open' = open \ {c}
  /\ wire' = [wire EXCEPT ![c] = <<>>]
  /\ UNCHANGED <<store, mirror, current>>

(* The state lives in memory only; the clients keep their mirrors.         *)
Restart ==
  /\ call = NoCall /\ restarts < MaxRestarts
  /\ restarts' = restarts + 1
  /\ version' = 1 /\ data' = InitialData /\ past' = <<InitialData>>
  /\ open' = {} /\ wire' = [c \in Clients |-> <<>>]
  /\ current' = {}
  /\ UNCHANGED <<call, mirror>>

-----------------------------------------------------------------------------
(* The browser *)

(* Mutant: a patch is applied to whatever the mirror holds.                *)
patchedUnchecked(m, frame) ==
  [version |-> frame.to,
   data |-> [s \in Slices |-> IF s \in DOMAIN frame.ops THEN frame.ops[s]
                              ELSE m.data[s]]]

replaced(m, frame) == [version |-> frame.version, data |-> frame.data]

(* mirror.applyPatch; nobody looks at its result.                          *)
patched(m, frame) ==
  IF frame.from = m.version
  THEN [version |-> frame.to,
        data |-> [s \in Slices |-> IF s \in DOMAIN frame.ops THEN frame.ops[s]
                                   ELSE m.data[s]]]
  ELSE m

Deliver(c) ==
  /\ wire[c] # <<>>
  /\ wire' = [wire EXCEPT ![c] = Tail(@)]
  /\ LET frame == Head(wire[c])
         m == IF frame.type = "snapshot" THEN replaced(mirror[c], frame)
              ELSE patched(mirror[c], frame)
     IN  /\ mirror' = [mirror EXCEPT ![c] = m]
         /\ current' = IF m # mirror[c] \/ frame.type = "snapshot"
                       THEN current \cup {c} ELSE current
  /\ UNCHANGED <<store, open>>

-----------------------------------------------------------------------------
Store ==
  \/ \E s \in Slices, v \in Values : set(s, v) \/ setWithin(s, v)
  \/ SetReturns
  \/ Restart

Client(c) == Connect(c) \/ SnapshotDue(c) \/ Disconnect(c) \/ Deliver(c)

Next == Store \/ \E c \in Clients : Client(c)

Spec == Init /\ [][Next]_vars

(* set() returns, frames arrive on an open socket, and each socket has its *)
(* own one-second snapshot timer.                                          *)
Fairness ==
  /\ WF_vars(SetReturns)
  /\ \A c \in Clients : WF_vars(Deliver(c)) /\ WF_vars(SnapshotDue(c))

FairSpec == Spec /\ Fairness

-----------------------------------------------------------------------------
(* Properties *)

SnapshotFrames == [type : {"snapshot"}, version : Versions, data : Datas]
PatchFrames ==
  [type : {"patch"}, from : Versions, to : Versions,
   ops : UNION {[S -> Values] : S \in SUBSET Slices}]

(* The store, the frames and the mirrors have the shapes the code gives.   *)
TypeOK ==
  /\ version \in Versions /\ data \in Datas
  /\ call = NoCall \/
     call \in [version : Versions, data : Datas, listeners : SUBSET Listeners]
  /\ past \in Seq(Datas) /\ Len(past) = version
  /\ restarts \in 0..MaxRestarts
  /\ open \subseteq Clients /\ current \subseteq Clients
  /\ wire \in [Clients -> Seq(SnapshotFrames \cup PatchFrames)]
  /\ mirror \in [Clients -> [version : 0..MaxVersion, data : Datas]]

(* What a browser shows is never a mixture: its mirror is exactly a state  *)
(* the server of this run has had, at the version it is labelled with,     *)
(* whatever patches were skipped, however late and stale the snapshots in  *)
(* between, and whatever the mirror held before a server restart.          *)
MirrorIsAPastState ==
  \A c \in current :
    /\ mirror[c].version \in 1..version
    /\ mirror[c].data = past[mirror[c].version]

(* A mirror that is behind is not left behind: once the state stops        *)
(* changing, the mirror of a browser that stays connected becomes equal to *)
(* it, although no client asks for the patches it missed.                  *)
MirrorConverges ==
  \A c \in Clients :
    <>[](c \in open) => <>[](mirror[c] = [version |-> version, data |-> data])

(* docs/frontend_integration_plan.md: "Server maintains monotonic          *)
(* stateVersion", on each connection's stream of frames.                   *)
StampOf(frame) == IF frame.type = "snapshot" THEN frame.version ELSE frame.to

MonotonicStream ==
  \A c \in Clients : \A i, j \in DOMAIN wire[c] :
    i < j => StampOf(wire[c][i]) <= StampOf(wire[c][j])
=============================================================================
