---------------------------- MODULE Server_proofs ----------------------------
(***************************************************************************)
(* Proofs about what the server keeps for its browsers: that a browser's   *)
(* mirror is always a state the server has had, for any number of clients, *)
(* values, versions, restarts and frames in flight, and that its file of   *)
(* layout profiles stays sound, for any number of requests and crashes.    *)
(***************************************************************************)
EXTENDS MCServer, SequenceTheorems, TLAPS

Frames == SnapshotFrames \cup PatchFrames

(* Frames whose words are true of the states p the server has had.         *)
TruthfulSnapshot(f, p) ==
  /\ f.type = "snapshot"
  /\ f.version \in 1..Len(p) /\ f.data = p[f.version]

TruthfulPatch(f, p) ==
  /\ f.type = "patch"
  /\ f.from \in 1..Len(p) /\ f.to \in 1..Len(p)
  /\ p[f.to] = [s \in Slices |-> IF s \in DOMAIN f.ops THEN f.ops[s] ELSE p[f.from][s]]

Truthful(f, p) == TruthfulSnapshot(f, p) \/ TruthfulPatch(f, p)

TruthfulWire(w, p) == \A i \in 1..Len(w) : Truthful(w[i], p)

(* The store, its history, and the call that is in progress.               *)
StoreInv ==
  /\ past[version] = data
  /\ call # NoCall => call.version \in 1..version /\ call.data = past[call.version]

(* What is on its way to a client.  A client that has not seen a state of  *)
(* this run has nothing in its mirror a patch could be applied to: the     *)
(* first frame it will get is a snapshot.                                  *)
WireInv ==
  \A c \in Clients :
    /\ TruthfulWire(wire[c], past)
    /\ c \notin open => wire[c] = <<>>
    /\ c \in open \ current =>
         wire[c] # <<>> /\ TruthfulSnapshot(wire[c][1], past)

IInv == TypeOK /\ StoreInv /\ WireInv /\ MirrorIsAPastState

-----------------------------------------------------------------------------
(* Frames *)

LEMMA InitialDataType == InitialData \in Datas
  BY InitialValueAssumption DEF InitialValueAssumption, InitialData, Datas

LEMMA PatchType ==
  ASSUME NEW v \in 1..MaxVersion, v < MaxVersion, NEW old \in Datas, NEW new \in Datas
  PROVE  Patch(v, old, new) \in Frames
<1> DEFINE changed == {s \in Slices : new[s] # old[s]}
<1>1. Restrict(new, changed) \in [changed -> Values]
  BY DEF Restrict, Datas
<1>2. [changed -> Values] \in {[S -> Values] : S \in SUBSET Slices}
  OBVIOUS
<1>3. Restrict(new, changed) \in UNION {[S -> Values] : S \in SUBSET Slices}
  BY <1>1, <1>2
<1>4. v \in Versions /\ v + 1 \in Versions
  BY BoundsAssumption DEF Versions, BoundsAssumption
<1> QED
  BY <1>3, <1>4 DEF Patch, Frames, PatchFrames

LEMMA SnapshotType ==
  ASSUME NEW v \in Versions, NEW d \in Datas
  PROVE  Snapshot(v, d) \in Frames
  BY DEF Snapshot, Frames, SnapshotFrames

(* What was true of the server's past stays true of it.                    *)
LEMMA TruthfulLater ==
  ASSUME NEW p \in Seq(Datas), NEW new \in Datas, NEW f
  PROVE  /\ TruthfulSnapshot(f, p) => TruthfulSnapshot(f, Append(p, new))
         /\ Truthful(f, p) => Truthful(f, Append(p, new))
<1>1. Len(Append(p, new)) = Len(p) + 1 /\ Len(p) \in Nat
  OBVIOUS
<1>2. \A i \in 1..Len(p) : Append(p, new)[i] = p[i] /\ i \in 1..Len(Append(p, new))
  BY <1>1
<1>3. TruthfulSnapshot(f, p) => TruthfulSnapshot(f, Append(p, new))
  BY <1>2 DEF TruthfulSnapshot
<1>4. TruthfulPatch(f, p) => TruthfulPatch(f, Append(p, new))
  BY <1>2 DEF TruthfulPatch
<1> QED
  BY <1>3, <1>4 DEF Truthful

(* The frames of a commit tell the truth.                                  *)
LEMMA PatchTruthful ==
  ASSUME NEW p \in Seq(Datas), NEW v \in Nat \ {0}, Len(p) = v, NEW new \in Datas
  PROVE  Truthful(Patch(v, p[v], new), Append(p, new))
<1> DEFINE f == Patch(v, p[v], new)
           q == Append(p, new)
<1>1. q[v] = p[v] /\ q[v + 1] = new /\ Len(q) = v + 1 /\ p[v] \in Datas
  OBVIOUS
<1>2. f.type = "patch" /\ f.from = v /\ f.to = v + 1
      /\ f.ops = Restrict(new, {s \in Slices : new[s] # p[v][s]})
  BY DEF Patch
<1>3. DOMAIN f.ops = {s \in Slices : new[s] # p[v][s]}
      /\ \A s \in DOMAIN f.ops : f.ops[s] = new[s]
  BY <1>2 DEF Restrict
<1>4. new = [s \in Slices |-> IF s \in DOMAIN f.ops THEN f.ops[s] ELSE p[v][s]]
  BY <1>3 DEF Datas
<1>5. v \in 1..Len(q) /\ v + 1 \in 1..Len(q)
  BY <1>1
<1> QED
  BY <1>1, <1>2, <1>4, <1>5 DEF Truthful, TruthfulPatch

LEMMA SnapshotTruthful ==
  ASSUME NEW p \in Seq(Datas), NEW v \in 1..Len(p)
  PROVE  TruthfulSnapshot(Snapshot(v, p[v]), p)
  BY DEF TruthfulSnapshot, Snapshot

LEMMA ConcatTruthful ==
  ASSUME NEW w \in Seq(Frames), NEW g \in Seq(Frames), NEW p,
         TruthfulWire(w, p), TruthfulWire(g, p)
  PROVE  /\ w \o g \in Seq(Frames)
         /\ TruthfulWire(w \o g, p)
         /\ w # <<>> => w \o g # <<>> /\ (w \o g)[1] = w[1]
<1>1. w \o g \in Seq(Frames) /\ Len(w \o g) = Len(w) + Len(g)
      /\ \A i \in 1..Len(w) + Len(g) :
           (w \o g)[i] = IF i <= Len(w) THEN w[i] ELSE g[i - Len(w)]
  BY ConcatProperties
<1>2. Len(w) \in Nat /\ Len(g) \in Nat
  OBVIOUS
<1>3. TruthfulWire(w \o g, p)
  BY <1>1, <1>2 DEF TruthfulWire
<1>4. ASSUME w # <<>> PROVE w \o g # <<>> /\ (w \o g)[1] = w[1]
  <2>1. Len(w) >= 1
    BY <1>4, EmptySeq
  <2>2. Len(w \o g) # 0 /\ (w \o g)[1] = w[1]
    BY <2>1, <1>1, <1>2
  <2> QED
    BY <2>2
<1> QED
  BY <1>1, <1>3, <1>4

LEMMA TailTruthful ==
  ASSUME NEW w \in Seq(Frames), NEW p, w # <<>>, TruthfulWire(w, p)
  PROVE  Tail(w) \in Seq(Frames) /\ TruthfulWire(Tail(w), p) /\ Truthful(Head(w), p)
         /\ Head(w) \in Frames /\ Head(w) = w[1]
<1>1. Len(w) \in Nat \ {0} /\ Head(w) = w[1]
  BY EmptySeq
<1>2. Tail(w) \in Seq(Frames) /\ Len(Tail(w)) = Len(w) - 1
      /\ \A i \in 1..Len(w) - 1 : Tail(w)[i] = w[i + 1]
  BY <1>1, HeadTailProperties
<1> QED
  BY <1>1, <1>2 DEF TruthfulWire


-----------------------------------------------------------------------------
(* Steps of the server *)

(* One version more: what holds of the store and of every mirror so far.   *)
LEMMA CommitKeeps ==
  ASSUME IInv, NEW new \in Datas, Commit(new)
  PROVE  /\ version \in 1..MaxVersion /\ version < MaxVersion
         /\ version' \in Versions /\ version' = version + 1 /\ data' \in Datas
         /\ past' \in Seq(Datas) /\ Len(past') = version' /\ past'[version'] = data'
         /\ \A v \in 1..version : v \in 1..version' /\ past'[v] = past[v]
         /\ Truthful(Patch(version, data, new), past')
         /\ TruthfulSnapshot(Snapshot(version', new), past')
<1>1. /\ version \in 1..MaxVersion /\ past \in Seq(Datas) /\ Len(past) = version
      /\ version < MaxVersion /\ version' = version + 1 /\ MaxVersion \in Nat
      /\ data' = new /\ past' = Append(past, new) /\ past[version] = data
  BY BoundsAssumption DEF BoundsAssumption, IInv, TypeOK, Versions, StoreInv, Commit
<1>2. /\ past' \in Seq(Datas) /\ Len(past') = version' /\ past'[version'] = data'
      /\ \A v \in 1..version : v \in 1..version' /\ past'[v] = past[v]
  BY <1>1
<1>3. Truthful(Patch(version, data, new), past')
  BY <1>1, PatchTruthful
<1>4. TruthfulSnapshot(Snapshot(version', new), past')
  BY <1>1, <1>2 DEF TruthfulSnapshot, Snapshot
<1> QED
  BY <1>1, <1>2, <1>3, <1>4 DEF Versions

(* Frames that are true, sent to every open socket.                        *)
LEMMA BroadcastKeeps ==
  ASSUME IInv, NEW g \in Seq(Frames), Broadcast(g), TruthfulWire(g, past'),
         past' = past \/ \E new \in Datas : past' = Append(past, new),
         UNCHANGED <<open, current>>
  PROVE  wire' \in [Clients -> Seq(Frames)] /\ WireInv'
<1>1. wire \in [Clients -> Seq(Frames)] /\ past \in Seq(Datas) /\ WireInv
  BY DEF IInv, TypeOK, Frames
<1>2. \A f : /\ TruthfulSnapshot(f, past) => TruthfulSnapshot(f, past')
             /\ Truthful(f, past) => Truthful(f, past')
  BY <1>1, TruthfulLater
<1>3. ASSUME NEW c \in Clients
      PROVE  /\ wire'[c] \in Seq(Frames)
             /\ TruthfulWire(wire'[c], past')
             /\ c \notin open => wire'[c] = <<>>
             /\ c \in open \ current =>
                  wire'[c] # <<>> /\ TruthfulSnapshot(wire'[c][1], past')
  <2>1. wire[c] \in Seq(Frames) /\ TruthfulWire(wire[c], past')
        /\ (c \notin open => wire[c] = <<>>)
        /\ (c \in open \ current =>
              wire[c] # <<>> /\ TruthfulSnapshot(wire[c][1], past'))
    BY <1>1, <1>2 DEF WireInv, TruthfulWire
  <2>2. CASE c \in open
    <3>1. wire'[c] = wire[c] \o g
      BY <2>2 DEF Broadcast
    <3> QED
      BY <3>1, <2>1, <2>2, ConcatTruthful
  <2>3. CASE c \notin open
    <3>1. wire'[c] = wire[c]
      BY <2>3 DEF Broadcast
    <3> QED
      BY <3>1, <2>1, <2>3
  <2> QED
    BY <2>2, <2>3
<1>4. wire' \in [Clients -> Seq(Frames)]
  BY <1>3 DEF Broadcast
<1> QED
  BY <1>3, <1>4 DEF WireInv

(* A snapshot of the store as it is, sent to one socket.                   *)
LEMMA SendStateKeeps ==
  ASSUME IInv, NEW c \in Clients, c \in open', SendState(c),
         UNCHANGED <<store, current>>,
         open' = open \/ (c \notin open /\ open' = open \cup {c})
  PROVE  wire' \in [Clients -> Seq(Frames)] /\ WireInv'
<1> DEFINE f == Snapshot(version, data)
<1>1. /\ wire \in [Clients -> Seq(Frames)] /\ WireInv
      /\ version \in Versions /\ data \in Datas /\ Versions \subseteq Nat
      /\ past \in Seq(Datas) /\ Len(past) = version /\ past[version] = data
  BY DEF IInv, TypeOK, Frames, StoreInv, Versions
<1>2. TruthfulSnapshot(f, past) /\ f \in Frames
  <2>1. version \in 1..Len(past)
    BY <1>1 DEF Versions
  <2> QED
    BY <1>1, <2>1, SnapshotTruthful, SnapshotType
<1>3. wire' = [wire EXCEPT ![c] = Append(@, f)] /\ past' = past
  BY DEF SendState, store
<1>4. /\ Append(wire[c], f) \in Seq(Frames) /\ Append(wire[c], f) # <<>>
      /\ TruthfulWire(Append(wire[c], f), past)
      /\ wire[c] # <<>> => Append(wire[c], f)[1] = wire[c][1]
      /\ wire[c] = <<>> => Append(wire[c], f)[1] = f
  <2>1. /\ Len(Append(wire[c], f)) = Len(wire[c]) + 1 /\ Len(wire[c]) \in Nat
        /\ \A i \in 1..Len(wire[c]) : Append(wire[c], f)[i] = wire[c][i]
        /\ Append(wire[c], f)[Len(wire[c]) + 1] = f
        /\ Append(wire[c], f) \in Seq(Frames)
    BY <1>1, <1>2
  <2>2. wire[c] # <<>> => Len(wire[c]) >= 1
    BY <1>1, EmptySeq
  <2>3. TruthfulWire(Append(wire[c], f), past)
    BY <1>1, <1>2, <2>1 DEF WireInv, TruthfulWire, Truthful
  <2>4. Append(wire[c], f) # <<>>
    BY <1>1, <1>2, AppendProperties
  <2>5. wire[c] # <<>> => Append(wire[c], f)[1] = wire[c][1]
    BY <2>1, <2>2
  <2>6. wire[c] = <<>> => Append(wire[c], f)[1] = f
    BY <2>1
  <2> QED
    BY <2>1, <2>3, <2>4, <2>5, <2>6
<1>5. ASSUME NEW d \in Clients
      PROVE  /\ TruthfulWire(wire'[d], past)
             /\ d \notin open' => wire'[d] = <<>>
             /\ d \in open' \ current =>
                  wire'[d] # <<>> /\ TruthfulSnapshot(wire'[d][1], past)
  <2>1. CASE d = c
    BY <1>1, <1>2, <1>3, <1>4, <2>1 DEF WireInv
  <2>2. CASE d # c
    BY <1>1, <1>3, <2>2 DEF WireInv
  <2> QED
    BY <2>1, <2>2
<1>6. wire' \in [Clients -> Seq(Frames)]
  BY <1>1, <1>3, <1>4
<1> QED
  BY <1>3, <1>5, <1>6 DEF WireInv

(* Every mirror keeps its place in a past that only grows.                 *)
LEMMA MirrorsKept ==
  ASSUME IInv, UNCHANGED <<mirror, current>>,
         \A v \in 1..version : v \in 1..version' /\ past'[v] = past[v]
  PROVE  MirrorIsAPastState'
  BY DEF IInv, MirrorIsAPastState

LEMMA SetPreserves ==
  ASSUME IInv, NEW key \in Slices, NEW value \in Values, set(key, value)
  PROVE  IInv'
<1> DEFINE new == [data EXCEPT ![key] = value]
           f == Patch(version, data, new)
           g == <<f>>
<1>1. TypeOK /\ new \in Datas /\ Commit(new) /\ Broadcast(g) /\ UNCHANGED <<restarts, open, mirror, current>>
      /\ call'.version = version + 1 /\ call'.data = new
      /\ call' \in [version : {version + 1}, data : {new}, listeners : SUBSET Listeners]
  BY DEF set, IInv, TypeOK, Datas
<1>2. data \in Datas /\ data' = new /\ past' = Append(past, new)
  BY <1>1 DEF TypeOK, Commit
<1>3. /\ version \in 1..MaxVersion /\ version < MaxVersion
      /\ version' \in Versions /\ version' = version + 1
      /\ past' \in Seq(Datas) /\ Len(past') = version' /\ past'[version'] = data'
      /\ \A v \in 1..version : v \in 1..version' /\ past'[v] = past[v]
      /\ Truthful(Patch(version, data, new), past')
  BY <1>1, CommitKeeps
<1>4. g \in Seq(Frames) /\ TruthfulWire(g, past')
  <2>1. Patch(version, data, new) \in Frames
    BY <1>1, <1>2, <1>3, PatchType
  <2>2. f \in Frames /\ Truthful(f, past')
    BY <2>1, <1>3
  <2> HIDE DEF f
  <2> QED
    BY <2>2 DEF TruthfulWire
<1>5. wire' \in [Clients -> Seq(Frames)] /\ WireInv'
  BY <1>1, <1>2, <1>4, BroadcastKeeps
<1>6. MirrorIsAPastState'
  BY <1>1, <1>3, MirrorsKept
<1>7. TypeOK'
  BY <1>1, <1>2, <1>3, <1>5 DEF TypeOK, Frames
<1>8. StoreInv'
  BY <1>1, <1>2, <1>3 DEF StoreInv, Versions
<1> QED
  BY <1>5, <1>6, <1>7, <1>8 DEF IInv

LEMMA SetWithinPreserves ==
  ASSUME IInv, NEW key \in Slices, NEW value \in Values, setWithin(key, value)
  PROVE  IInv'
<1> DEFINE new == [data EXCEPT ![key] = value]
           f1 == Patch(version, data, new)
           f2 == Snapshot(version + 1, new)
           g == <<f1, f2>>
<1>1. TypeOK /\ new \in Datas /\ Commit(new) /\ Broadcast(g) /\ UNCHANGED <<restarts, open, mirror, current>>
      /\ call # NoCall
  BY DEF setWithin, IInv, TypeOK, Datas
<1>2. data \in Datas /\ data' = new /\ past' = Append(past, new)
  BY <1>1 DEF TypeOK, Commit
<1>3. /\ version \in 1..MaxVersion /\ version < MaxVersion
      /\ version' \in Versions /\ version' = version + 1
      /\ past' \in Seq(Datas) /\ Len(past') = version' /\ past'[version'] = data'
      /\ \A v \in 1..version : v \in 1..version' /\ past'[v] = past[v]
      /\ Truthful(f1, past') /\ TruthfulSnapshot(f2, past')
  BY <1>1, CommitKeeps
<1>4. g \in Seq(Frames) /\ TruthfulWire(g, past')
  <2>1. f1 \in Frames /\ f2 \in Frames
    BY <1>1, <1>2, <1>3, PatchType, SnapshotType
  <2>2. Truthful(f2, past')
    BY <1>3 DEF Truthful
  <2> HIDE DEF f1, f2
  <2> QED
    BY <2>1, <2>2, <1>3 DEF TruthfulWire
<1>5. wire' \in [Clients -> Seq(Frames)] /\ WireInv'
  BY <1>1, <1>2, <1>4, BroadcastKeeps
<1>6. MirrorIsAPastState'
  BY <1>1, <1>3, MirrorsKept
<1>7. /\ call' \in [version : Versions, data : Datas, listeners : SUBSET Listeners]
      /\ call'.version = call.version /\ call'.data = call.data
  <2>1. call \in [version : Versions, data : Datas, listeners : SUBSET Listeners]
    BY <1>1 DEF TypeOK
  <2> QED
    BY <2>1 DEF setWithin, Listeners
<1>8. TypeOK'
  BY <1>1, <1>2, <1>3, <1>5, <1>7 DEF TypeOK, Frames
<1>9. StoreInv'
  BY <1>1, <1>2, <1>3, <1>7 DEF StoreInv, IInv
<1> QED
  BY <1>5, <1>6, <1>8, <1>9 DEF IInv

LEMMA SetReturnsPreserves ==
  ASSUME IInv, SetReturns
  PROVE  IInv'
<1> DEFINE f == Snapshot(call.version, call.data)
<1>1. /\ call # NoCall /\ Broadcast(<<f>>) /\ call' = NoCall
      /\ UNCHANGED <<version, data, past, restarts, open, mirror, current>>
  BY DEF SetReturns
<1>2. /\ call \in [version : Versions, data : Datas, listeners : SUBSET Listeners]
      /\ past \in Seq(Datas) /\ Len(past) = version
      /\ call.version \in 1..version /\ call.data = past[call.version]
  BY <1>1 DEF IInv, TypeOK, StoreInv
<1>3. f \in Frames /\ Truthful(f, past)
  BY <1>2, SnapshotType DEF Truthful, TruthfulSnapshot, Snapshot
<1>4. <<f>> \in Seq(Frames) /\ TruthfulWire(<<f>>, past)
  <2> HIDE DEF f
  <2> QED
    BY <1>3 DEF TruthfulWire
<1>5. wire' \in [Clients -> Seq(Frames)] /\ WireInv'
  BY <1>1, <1>4, BroadcastKeeps
<1>6. MirrorIsAPastState'
  BY <1>1 DEF IInv, MirrorIsAPastState
<1> QED
  BY <1>1, <1>5, <1>6 DEF IInv, TypeOK, StoreInv, Frames

LEMMA RestartPreserves ==
  ASSUME IInv, Restart
  PROVE  IInv'
<1> USE DEF IInv, TypeOK, Restart
<1>1. /\ past' = <<InitialData>> /\ version' = 1 /\ data' = InitialData /\ call' = NoCall
      /\ open' = {} /\ current' = {} /\ wire' = [c \in Clients |-> <<>>]
  OBVIOUS
<1>2. past' \in Seq(Datas) /\ Len(past') = 1 /\ past'[1] = InitialData
  BY <1>1, InitialDataType
<1>3. version' \in Versions
  BY <1>1, BoundsAssumption DEF BoundsAssumption, Versions
<1>4. restarts' \in 0..MaxRestarts
  BY BoundsAssumption DEF BoundsAssumption
<1>5. TypeOK'
  BY <1>1, <1>2, <1>3, <1>4, InitialDataType
<1>6. WireInv'
  BY <1>1 DEF WireInv, TruthfulWire
<1> QED
  BY <1>1, <1>2, <1>5, <1>6 DEF StoreInv, MirrorIsAPastState

-----------------------------------------------------------------------------
(* Steps of a client's connection *)

LEMMA ConnectPreserves ==
  ASSUME IInv, NEW c \in Clients, Connect(c) \/ SnapshotDue(c)
  PROVE  IInv'
<1>1. /\ SendState(c) /\ UNCHANGED <<store, mirror, current>>
      /\ c \in open' /\ (open' = open \/ (c \notin open /\ open' = open \cup {c}))
  BY DEF Connect, SnapshotDue
<1>2. wire' \in [Clients -> Seq(Frames)] /\ WireInv'
  BY <1>1, SendStateKeeps
<1>3. UNCHANGED <<version, data, call, past, restarts, mirror, current>>
  BY <1>1 DEF store
<1>4. TypeOK'
  BY <1>1, <1>2, <1>3 DEF IInv, TypeOK, Frames
<1>5. StoreInv' /\ MirrorIsAPastState'
  BY <1>3 DEF IInv, StoreInv, MirrorIsAPastState
<1> QED
  BY <1>2, <1>4, <1>5 DEF IInv

LEMMA DisconnectPreserves ==
  ASSUME IInv, NEW c \in Clients, Disconnect(c)
  PROVE  IInv'
<1>1. /\ open' = open \ {c} /\ wire' = [wire EXCEPT ![c] = <<>>]
      /\ UNCHANGED <<version, data, call, past, restarts, mirror, current>>
  BY DEF Disconnect, store
<1>2. TypeOK'
  BY <1>1 DEF IInv, TypeOK
<1>3. StoreInv' /\ MirrorIsAPastState'
  BY <1>1 DEF IInv, StoreInv, MirrorIsAPastState
<1>4. WireInv'
  <2> SUFFICES ASSUME NEW d \in Clients
               PROVE  /\ TruthfulWire(wire'[d], past)
                      /\ d \notin open' => wire'[d] = <<>>
                      /\ d \in open' \ current =>
                           wire'[d] # <<>> /\ TruthfulSnapshot(wire'[d][1], past)
    BY <1>1 DEF WireInv
  <2>1. CASE d = c
    BY <1>1, <2>1 DEF IInv, TypeOK, TruthfulWire
  <2>2. CASE d # c
    BY <1>1, <2>2 DEF IInv, TypeOK, WireInv
  <2> QED
    BY <2>1, <2>2
<1> QED
  BY <1>2, <1>3, <1>4 DEF IInv

LEMMA DeliverPreserves ==
  ASSUME IInv, NEW c \in Clients, Deliver(c)
  PROVE  IInv'
<1> DEFINE f == Head(wire[c])
           m == IF f.type = "snapshot" THEN replaced(mirror[c], f) ELSE patched(mirror[c], f)
<1>1. /\ wire[c] # <<>> /\ wire' = [wire EXCEPT ![c] = Tail(@)]
      /\ mirror' = [mirror EXCEPT ![c] = m]
      /\ current' = IF m # mirror[c] \/ f.type = "snapshot" THEN current \cup {c} ELSE current
      /\ UNCHANGED <<version, data, call, past, restarts, open>>
  BY DEF Deliver, store
<1>2. /\ wire \in [Clients -> Seq(Frames)] /\ version \in Versions /\ Versions = 1..MaxVersion
      /\ past \in Seq(Datas) /\ Len(past) = version /\ MaxVersion \in Nat
      /\ mirror \in [Clients -> [version : 0..MaxVersion, data : Datas]]
      /\ c \in open /\ TruthfulWire(wire[c], past)
      /\ c \notin current => TruthfulSnapshot(wire[c][1], past)
      /\ c \in current => /\ mirror[c].version \in 1..version
                          /\ mirror[c].data = past[mirror[c].version]
  BY <1>1, BoundsAssumption
  DEF IInv, TypeOK, Frames, Versions, WireInv, MirrorIsAPastState, BoundsAssumption
<1>3. /\ Tail(wire[c]) \in Seq(Frames) /\ TruthfulWire(Tail(wire[c]), past)
      /\ Truthful(f, past) /\ f \in Frames /\ f = wire[c][1]
  BY <1>1, <1>2, TailTruthful
<1> HIDE DEF f
<1>4. m \in [version : 0..MaxVersion, data : Datas]
      /\ ((c \in current \/ f.type = "snapshot") =>
            m.version \in 1..version /\ m.data = past[m.version])
  <2>1. CASE f.type = "snapshot"
    <3>1. TruthfulSnapshot(f, past)
      BY <1>3, <2>1 DEF Truthful, TruthfulPatch
    <3>2. m = [version |-> f.version, data |-> f.data]
      BY <2>1 DEF replaced
    <3>3. f.version \in 1..version /\ f.data = past[f.version] /\ f.data \in Datas
      BY <3>1, <1>2 DEF TruthfulSnapshot
    <3> QED
      BY <3>2, <3>3, <1>2
  <2>2. CASE f.type # "snapshot"
    <3>1. TruthfulPatch(f, past) /\ c \in current
      BY <1>2, <1>3, <2>2 DEF Truthful, TruthfulSnapshot
    <3>2. m = patched(mirror[c], f)
      BY <2>2
    <3>3. CASE f.from # mirror[c].version
      BY <3>1, <3>2, <3>3, <1>2 DEF patched
    <3>4. CASE f.from = mirror[c].version
      <4>1. m = [version |-> f.to, data |-> past[f.to]]
        BY <3>1, <3>2, <3>4, <1>2 DEF patched, TruthfulPatch
      <4>2. f.to \in 1..version /\ past[f.to] \in Datas
        BY <3>1, <1>2 DEF TruthfulPatch
      <4> QED
        BY <4>1, <4>2, <1>2
    <3> QED
      BY <3>3, <3>4
  <2> QED
    BY <2>1, <2>2
<1>5. c \in current'
  BY <1>1, <1>2, <1>3 DEF TruthfulSnapshot
<1>6. current' = current \cup {c}
  BY <1>1, <1>5
<1> HIDE DEF m
<1>7. TypeOK'
  BY <1>1, <1>2, <1>3, <1>4, <1>6 DEF IInv, TypeOK, Frames
<1>8. MirrorIsAPastState'
  <2> SUFFICES ASSUME NEW d \in current'
               PROVE  /\ mirror'[d].version \in 1..version
                      /\ mirror'[d].data = past[mirror'[d].version]
    BY <1>1 DEF MirrorIsAPastState
  <2>1. CASE d = c
    <3>1. c \in current \/ f.type = "snapshot"
      BY <1>2, <1>3 DEF TruthfulSnapshot
    <3> QED
      BY <3>1, <2>1, <1>1, <1>2, <1>4
  <2>2. CASE d # c
    BY <2>2, <1>1, <1>2, <1>6 DEF IInv, TypeOK, MirrorIsAPastState
  <2> QED
    BY <2>1, <2>2
<1>9. WireInv'
  <2> SUFFICES ASSUME NEW d \in Clients
               PROVE  /\ TruthfulWire(wire'[d], past)
                      /\ d \notin open => wire'[d] = <<>>
                      /\ d \in open \ current' =>
                           wire'[d] # <<>> /\ TruthfulSnapshot(wire'[d][1], past)
    BY <1>1 DEF WireInv
  <2>1. CASE d = c
    BY <2>1, <1>1, <1>2, <1>3, <1>5
  <2>2. CASE d # c
    BY <2>2, <1>1, <1>2, <1>6 DEF IInv, WireInv
  <2> QED
    BY <2>1, <2>2
<1>10. StoreInv'
  BY <1>1 DEF IInv, StoreInv
<1> QED
  BY <1>7, <1>8, <1>9, <1>10 DEF IInv

-----------------------------------------------------------------------------
LEMMA InitHolds == Init => IInv
<1> SUFFICES ASSUME Init
             PROVE  IInv
  OBVIOUS
<1> USE BoundsAssumption, InitialDataType DEF BoundsAssumption, Init
<1>1. past \in Seq(Datas) /\ Len(past) = 1 /\ past[1] = InitialData
  OBVIOUS
<1>2. TypeOK
  <2>1. wire \in [Clients -> Seq(SnapshotFrames \cup PatchFrames)]
    OBVIOUS
  <2>2. mirror \in [Clients -> [version : 0..MaxVersion, data : Datas]]
    OBVIOUS
  <2>3. 1 \in Versions /\ 0 \in 0..MaxRestarts
    BY DEF Versions
  <2> QED
    BY <1>1, <2>1, <2>2, <2>3 DEF TypeOK
<1>3. StoreInv /\ MirrorIsAPastState
  BY <1>1 DEF StoreInv, MirrorIsAPastState
<1>4. WireInv
  BY DEF WireInv, TruthfulWire
<1> QED
  BY <1>2, <1>3, <1>4 DEF IInv

LEMMA StepPreserves == IInv /\ [Next]_vars => IInv'
<1> SUFFICES ASSUME IInv, [Next]_vars
             PROVE  IInv'
  OBVIOUS
<1>1. CASE Store
  BY <1>1, SetPreserves, SetWithinPreserves, SetReturnsPreserves, RestartPreserves DEF Store
<1>2. ASSUME NEW c \in Clients, Client(c)
      PROVE  IInv'
  BY <1>2, ConnectPreserves, DisconnectPreserves, DeliverPreserves DEF Client
<1>3. CASE UNCHANGED vars
  BY <1>3 DEF vars, store, IInv, TypeOK, StoreInv, WireInv, MirrorIsAPastState
<1> QED
  BY <1>1, <1>2, <1>3 DEF Next

LEMMA StreamInvariance == Spec => []IInv
<1> QED
  BY InitHolds, StepPreserves, PTL DEF Spec

(* The store, the frames and the mirrors keep their types.                 *)
THEOREM StreamTypeCorrect == Spec => []TypeOK
<1>1. IInv => TypeOK
  BY DEF IInv
<1> QED
  BY <1>1, StreamInvariance, PTL

(* The mirror of a browser is always a state the server has had.           *)
THEOREM MirrorsShowPastStates == Spec => []MirrorIsAPastState
<1>1. IInv => MirrorIsAPastState
  BY DEF IInv
<1> QED
  BY <1>1, StreamInvariance, PTL

-----------------------------------------------------------------------------
(* The file of layout profiles *)

Sound(s) == s \in Profiles!Stores /\ Profiles!Sound(s)

(* A change makes a sound store of a sound one, and keeps every profile    *)
(* but the ones it deletes.                                                *)
Makes(s, c, gone) ==
  /\ Sound(c.store) /\ c.made \subseteq Ids
  /\ \A i \in Ids : i \in c.made \/ (Profiles!Has(s, i) /\ i \notin gone) =>
       Profiles!Has(c.store, i)

LEMMA EmptyStoreSound == Sound(Profiles!EmptyStore)
BY DEF Sound, Profiles!Stores, Profiles!Sound, Profiles!EmptyStore

LEMMA PutEffect ==
  ASSUME NEW s, Sound(s), NEW i \in Ids, NEW n \in Names
  PROVE  /\ Sound(Profiles!Put(s, i, n)) /\ Profiles!Has(Profiles!Put(s, i, n), i)
         /\ \A j \in Ids : Profiles!Has(s, j) => Profiles!Has(Profiles!Put(s, i, n), j)
BY ProfilesAssumption
DEF Sound, Profiles!Stores, Profiles!Sound, Profiles!Has, Profiles!Put

LEMMA DefaultEffect ==
  ASSUME NEW s, Sound(s), NEW i, (i \in Ids /\ Profiles!Has(s, i)) \/ i = None
  PROVE  /\ Sound([s EXCEPT !.default = i])
         /\ \A j \in Ids : Profiles!Has(s, j) =>
              Profiles!Has([s EXCEPT !.default = i], j)
BY DEF Sound, Profiles!Stores, Profiles!Sound, Profiles!Has

LEMMA SmallChanges ==
  ASSUME NEW s, Sound(s)
  PROVE  /\ \A c \in Profiles!Posts(s) : Makes(s, c, {})
         /\ \A c \in Profiles!PutsDefault(s) : Makes(s, c, {})
         /\ \A c \in Profiles!Updates(s) : Makes(s, c, {})
         /\ \A i \in Ids :
              Makes(s, [store |-> Profiles!Without(s, i), made |-> {}], {i})
<1>1. \A c \in Profiles!Posts(s) : Makes(s, c, {})
  BY PutEffect DEF Profiles!Posts, Makes
<1>2. \A c \in Profiles!PutsDefault(s) : Makes(s, c, {})
  <2> SUFFICES ASSUME NEW c \in Profiles!PutsDefault(s) PROVE Makes(s, c, {})
    OBVIOUS
  <2>1. CASE \E i \in Ids : /\ Profiles!Has(s, i)
                            /\ c = [store |-> [s EXCEPT !.default = i], made |-> {}]
    BY <2>1, DefaultEffect DEF Makes
  <2>2. CASE \E i \in Ids, n \in Names :
               c = [store |-> [Profiles!Put(s, i, n) EXCEPT !.default = i], made |-> {i}]
    <3>1. PICK i \in Ids, n \in Names :
            c = [store |-> [Profiles!Put(s, i, n) EXCEPT !.default = i], made |-> {i}]
      BY <2>2
    <3> DEFINE p == Profiles!Put(s, i, n)
    <3>2. /\ Sound(p) /\ Profiles!Has(p, i)
          /\ \A j \in Ids : Profiles!Has(s, j) => Profiles!Has(p, j)
      BY PutEffect
    <3> HIDE DEF p
    <3>3. /\ Sound([p EXCEPT !.default = i])
          /\ \A j \in Ids : Profiles!Has(p, j) => Profiles!Has([p EXCEPT !.default = i], j)
      BY <3>2, DefaultEffect
    <3>4. c.store = [p EXCEPT !.default = i] /\ c.made = {i}
      BY <3>1 DEF p
    <3> QED BY <3>2, <3>3, <3>4 DEF Makes
  <2> QED BY <2>1, <2>2 DEF Profiles!PutsDefault
<1>3. \A c \in Profiles!Updates(s) : Makes(s, c, {})
  BY PutEffect DEF Profiles!Updates, Makes
<1>4. ASSUME NEW i \in Ids
      PROVE  Makes(s, [store |-> Profiles!Without(s, i), made |-> {}], {i})
  BY DEF Makes, Sound, Profiles!Stores, Profiles!Sound, Profiles!Has, Profiles!Without
<1> QED BY <1>1, <1>2, <1>3, <1>4

LEMMA ImportedEffect ==
  ASSUME NEW s, Sound(s), NEW new \in SUBSET Ids, NEW name \in [Ids -> Names]
  PROVE  LET t == Profiles!Imported(s, new, name)
         IN  /\ Sound(t) /\ t.default = s.default
             /\ \A i \in Ids : i \in new \/ Profiles!Has(s, i) => Profiles!Has(t, i)
<1> DEFINE items == [i \in Ids |-> IF i \in new THEN name[i] ELSE s.items[i]]
           t == [s EXCEPT !.items = items]
<1>1. /\ s \in Profiles!Stores /\ s.items \in [Ids -> Names \cup {None}]
      /\ Profiles!Sound(s) /\ None \notin Names
  BY ProfilesAssumption DEF Sound, Profiles!Stores
<1>2. /\ items \in [Ids -> Names \cup {None}]
      /\ \A i \in Ids : i \in new \/ Profiles!Has(s, i) => items[i] # None
  BY <1>1 DEF Profiles!Has
<1>3. Profiles!Imported(s, new, name) = t
  BY DEF Profiles!Imported
<1> HIDE DEF items
<1>4. t \in Profiles!Stores /\ t.items = items /\ t.default = s.default
  BY <1>1, <1>2 DEF Profiles!Stores
<1>5. \A i \in Ids : i \in new \/ Profiles!Has(s, i) => Profiles!Has(t, i)
  BY <1>2, <1>4 DEF Profiles!Has
<1>6. Profiles!Sound(t)
  BY <1>1, <1>4, <1>5 DEF Profiles!Sound, Profiles!Stores
<1> QED BY <1>3, <1>4, <1>5, <1>6 DEF Sound

LEMMA ImportsEffect ==
  ASSUME NEW s, Sound(s), NEW c \in Profiles!Imports(s)
  PROVE  Makes(s, c, {}) /\ c.made \subseteq Ids \ used
<1>1. PICK new \in SUBSET (Ids \ used), name \in [Ids -> Names] :
        \E d \in Profiles!Defaults(s, Profiles!Imported(s, new, name), new) :
          c = [store |-> [Profiles!Imported(s, new, name) EXCEPT !.default = d],
               made |-> new]
  BY DEF Profiles!Imports
<1> DEFINE t == Profiles!Imported(s, new, name)
<1>2. /\ Sound(t) /\ t.default = s.default
      /\ \A i \in Ids : i \in new \/ Profiles!Has(s, i) => Profiles!Has(t, i)
  BY ImportedEffect
<1>3. PICK d \in Profiles!Defaults(s, t, new) :
        c = [store |-> [t EXCEPT !.default = d], made |-> new]
  BY <1>1
<1> HIDE DEF t
<1>4. (d \in Ids /\ Profiles!Has(t, d)) \/ d = None
  <2>1. \A n \in Names : \A i \in Profiles!ByName(t, new, n) :
          i \in Ids /\ Profiles!Has(t, i)
    BY <1>2, ProfilesAssumption DEF Profiles!ByName, Profiles!Has
  <2>2. (s.default \in Ids /\ Profiles!Has(t, s.default)) \/ s.default = None
    BY <1>2 DEF Sound, Profiles!Sound, Profiles!Stores
  <2> QED BY <2>1, <2>2 DEF Profiles!Defaults
<1>5. /\ Sound([t EXCEPT !.default = d])
      /\ \A j \in Ids : Profiles!Has(t, j) => Profiles!Has([t EXCEPT !.default = d], j)
  BY <1>2, <1>4, DefaultEffect
<1>6. c.store = [t EXCEPT !.default = d] /\ c.made = new
  BY <1>3
<1> QED BY <1>2, <1>5, <1>6 DEF Makes

Reqs == [store : Profiles!Stores, made : SUBSET Ids, stage : {"open", "write", "rename"},
         fd : {"none", "tmp", "file", "lost"}]

(* While no two changes have overlapped, the one that is in flight holds   *)
(* every profile that was answered, its own included, and the temporary    *)
(* file is its own.                                                        *)
OneChange ==
  \A r \in Requests : ~Profiles!Idle(r) =>
    /\ \A q \in Requests : ~Profiles!Idle(q) => q = r
    /\ \A i \in acked \cup req[r].made : Profiles!Has(req[r].store, i)
    /\ req[r].stage = "write" => req[r].fd = "tmp" /\ tmp.text = "truncated"
    /\ req[r].stage = "rename" => tmp = Profiles!Json(req[r].store)

FilesInv ==
  /\ file \in Profiles!Contents /\ tmp \in Profiles!Contents
  /\ Profiles!Sound(file.store) /\ Profiles!Sound(tmp.store)

RequestsInv ==
  /\ req = [r \in Requests |-> req[r]]
  /\ \A r \in Requests :
       Profiles!Idle(r) \/ (req[r] \in Reqs /\ Profiles!Sound(req[r].store))

IdsInv ==
  used \subseteq Ids /\ acked \subseteq Ids /\ overlapped \in BOOLEAN
  /\ crashes \in 0..MaxCrashes

Kept == ~overlapped => OneChange /\ \A i \in acked : Profiles!Has(file.store, i)

ProfilesInv == FilesInv /\ RequestsInv /\ IdsInv /\ Kept

LEMMA ContentsSound ==
  /\ \A s : Sound(s) => /\ Profiles!Json(s) \in Profiles!Contents
                        /\ Profiles!Json(s).store = s
  /\ \A t \in Profiles!Unreadable :
       /\ Profiles!Bad(t) \in Profiles!Contents /\ Profiles!Bad(t).text = t
       /\ Profiles!Sound(Profiles!Bad(t).store)
  /\ \A f \in Profiles!Contents : f.store \in Profiles!Stores
BY EmptyStoreSound
DEF Sound, Profiles!Json, Profiles!Bad, Profiles!Contents, Profiles!Unreadable,
    Profiles!EmptyStore

LEMMA AnsweringPreserves ==
  ASSUME ProfilesInv, NEW r \in Requests, NEW c, NEW gone,
         Sound(c.store), c.made \subseteq Ids,
         ~overlapped => \A i \in (acked \ gone) \cup c.made : Profiles!Has(c.store, i),
         Profiles!Idle(r), Profiles!Answering(r, c, gone)
  PROVE  ProfilesInv'
<1> DEFINE new == [store |-> c.store, made |-> c.made, stage |-> "open", fd |-> "none"]
<1>1. /\ req' = [req EXCEPT ![r] = new]
      /\ used' = used \cup c.made /\ acked' = acked \ gone
      /\ overlapped' = (overlapped \/ \E q \in Requests : ~Profiles!Idle(q))
      /\ UNCHANGED <<file, tmp, crashes>>
  BY DEF Profiles!Answering
<1>2. FilesInv'
  BY <1>1 DEF ProfilesInv, FilesInv
<1>3. /\ req'[r] = new
      /\ \A q \in Requests : q # r => req'[q] = req[q]
      /\ req' = [q \in Requests |-> req'[q]]
  BY <1>1 DEF ProfilesInv, RequestsInv
<1>4. new \in Reqs /\ Profiles!Sound(new.store)
  BY DEF Reqs, Sound
<1>5. RequestsInv'
  BY <1>3, <1>4 DEF ProfilesInv, RequestsInv, Profiles!Idle
<1>6. IdsInv'
  BY <1>1 DEF ProfilesInv, IdsInv
<1>7. ASSUME ~overlapped'
      PROVE  OneChange' /\ \A i \in acked' : Profiles!Has(file'.store, i)
  <2>1. ~overlapped /\ \A q \in Requests : Profiles!Idle(q)
    BY <1>1, <1>7
  <2>2. \A q \in Requests : q # r => req'[q] = None
    BY <2>1, <1>3 DEF Profiles!Idle
  <2>3. \A i \in acked' \cup req'[r].made : Profiles!Has(req'[r].store, i)
    BY <2>1, <1>1, <1>3
  <2>4. req'[r].stage = "open"
    BY <1>3
  <2>5. OneChange'
    BY <2>2, <2>3, <2>4 DEF OneChange, Profiles!Idle
  <2> QED BY <2>1, <2>5, <1>1 DEF ProfilesInv, Kept
<1> QED BY <1>2, <1>5, <1>6, <1>7 DEF ProfilesInv, Kept

LEMMA ChangePreserves ==
  ASSUME ProfilesInv, NEW r \in Requests, Profiles!Change(r)
  PROVE  ProfilesInv'
<1> DEFINE s == file.store
<1>1. /\ Sound(s) /\ Profiles!readJson = s /\ Profiles!Idle(r) /\ acked \subseteq Ids
      /\ ~overlapped => \A i \in acked : Profiles!Has(s, i)
  BY ContentsSound
  DEF ProfilesInv, FilesInv, IdsInv, Kept, Sound, Profiles!readJson, Profiles!Change
<1> HIDE DEF s
<1>2. ASSUME NEW c, NEW gone, Makes(s, c, gone), Profiles!Answering(r, c, gone)
      PROVE  ProfilesInv'
  <2>1. Sound(c.store) /\ c.made \subseteq Ids
    BY <1>2 DEF Makes
  <2>2. ~overlapped => \A i \in (acked \ gone) \cup c.made : Profiles!Has(c.store, i)
    BY <1>1, <1>2 DEF Makes
  <2> QED BY <2>1, <2>2, <1>1, <1>2, AnsweringPreserves
<1>3. CASE \E c \in Profiles!Posts(s) \cup Profiles!PutsDefault(s)
                   \cup Profiles!Updates(s) \cup Profiles!Imports(s) :
             Profiles!Answering(r, c, {})
  BY <1>1, <1>2, <1>3, SmallChanges, ImportsEffect
<1>4. CASE \E i \in Ids :
             Profiles!Answering(r, [store |-> Profiles!Without(s, i), made |-> {}], {i})
  BY <1>1, <1>2, <1>4, SmallChanges
<1>5. CASE \E c \in Profiles!Imports(Profiles!EmptyStore) : Profiles!Answering(r, c, acked)
  <2>1. PICK c \in Profiles!Imports(Profiles!EmptyStore) : Profiles!Answering(r, c, acked)
    BY <1>5
  <2>2. Makes(Profiles!EmptyStore, c, {})
    BY EmptyStoreSound, ImportsEffect
  <2>3. /\ Sound(c.store) /\ c.made \subseteq Ids
        /\ \A i \in (acked \ acked) \cup c.made : Profiles!Has(c.store, i)
    BY <2>2 DEF Makes
  <2> QED BY <2>1, <2>3, <1>1, AnsweringPreserves
<1> QED BY <1>1, <1>3, <1>4, <1>5 DEF Profiles!Change

LEMMA OpenPreserves ==
  ASSUME ProfilesInv, NEW r \in Requests, Profiles!Open(r)
  PROVE  ProfilesInv'
<1> DEFINE new == [req[r] EXCEPT !.stage = "write", !.fd = "tmp"]
<1>1. /\ ~Profiles!Idle(r) /\ tmp' = Profiles!Bad("truncated")
      /\ req' = [req EXCEPT ![r] = new]
      /\ UNCHANGED <<file, used, acked, overlapped, crashes>>
  BY DEF Profiles!Open
<1>2. FilesInv'
  BY <1>1, ContentsSound DEF ProfilesInv, FilesInv, Profiles!Unreadable
<1>3. /\ req'[r] = new
      /\ \A q \in Requests : q # r => req'[q] = req[q]
      /\ req' = [q \in Requests |-> req'[q]]
  BY <1>1 DEF ProfilesInv, RequestsInv
<1>4. /\ new \in Reqs /\ Profiles!Sound(new.store)
      /\ new.store = req[r].store /\ new.made = req[r].made
      /\ new.stage = "write" /\ new.fd = "tmp"
  BY <1>1 DEF ProfilesInv, RequestsInv, Reqs
<1> HIDE DEF new
<1>5. RequestsInv'
  BY <1>3, <1>4 DEF ProfilesInv, RequestsInv, Profiles!Idle
<1>6. IdsInv'
  BY <1>1 DEF ProfilesInv, IdsInv
<1>7. ASSUME ~overlapped
      PROVE  OneChange'
  <2>1. /\ \A q \in Requests : q # r => Profiles!Idle(q)
        /\ \A i \in acked \cup req[r].made : Profiles!Has(req[r].store, i)
    BY <1>1, <1>7 DEF ProfilesInv, Kept, OneChange
  <2>2. \A q \in Requests : q # r => req'[q] = None
    BY <2>1, <1>3 DEF Profiles!Idle
  <2>3. \A i \in acked' \cup req'[r].made : Profiles!Has(req'[r].store, i)
    BY <2>1, <1>1, <1>3, <1>4
  <2>4. /\ req'[r].stage = "write" /\ req'[r].fd = "tmp" /\ tmp'.text = "truncated"
    BY <1>1, <1>3, <1>4, ContentsSound DEF Profiles!Unreadable
  <2> QED BY <2>2, <2>3, <2>4 DEF OneChange, Profiles!Idle
<1> QED BY <1>1, <1>2, <1>5, <1>6, <1>7 DEF ProfilesInv, Kept

LEMMA WritePreserves ==
  ASSUME ProfilesInv, NEW r \in Requests, Profiles!Write(r)
  PROVE  ProfilesInv'
<1> DEFINE new == [req[r] EXCEPT !.stage = "rename"]
           s == req[r].store
<1>1. /\ ~Profiles!Idle(r) /\ req[r].stage = "write" /\ req' = [req EXCEPT ![r] = new]
      /\ UNCHANGED <<used, acked, overlapped, crashes>>
  BY DEF Profiles!Write
<1>2. Sound(s) /\ req[r] \in Reqs
  BY <1>1 DEF ProfilesInv, RequestsInv, Sound, Reqs
<1>3. /\ tmp' = tmp \/ tmp' \in Profiles!Written(tmp, s)
      /\ file' = file \/ file' \in Profiles!Written(file, s)
      /\ req[r].fd = "tmp" => file' = file /\ tmp' \in Profiles!Written(tmp, s)
  <2>1. CASE req[r].fd = "tmp"
    BY <2>1 DEF Profiles!Write
  <2>2. CASE req[r].fd = "file"
    BY <2>2 DEF Profiles!Write
  <2>3. CASE req[r].fd \notin {"tmp", "file"}
    BY <2>3 DEF Profiles!Write
  <2> QED BY <2>1, <2>2, <2>3
<1>4. \A old : \A f \in Profiles!Written(old, s) :
        f \in Profiles!Contents /\ Profiles!Sound(f.store)
        /\ (old.text = "truncated" => f = Profiles!Json(s))
  BY <1>2, ContentsSound DEF Profiles!Written, Profiles!Unreadable, Sound
<1>5. FilesInv'
  BY <1>3, <1>4 DEF ProfilesInv, FilesInv
<1>6. /\ req'[r] = new
      /\ \A q \in Requests : q # r => req'[q] = req[q]
      /\ req' = [q \in Requests |-> req'[q]]
  BY <1>1 DEF ProfilesInv, RequestsInv
<1>7. /\ new \in Reqs /\ Profiles!Sound(new.store)
      /\ new.store = s /\ new.made = req[r].made /\ new.stage = "rename"
  BY <1>2 DEF Reqs, Sound
<1> HIDE DEF new
<1>8. RequestsInv'
  BY <1>6, <1>7 DEF ProfilesInv, RequestsInv, Profiles!Idle
<1>9. IdsInv'
  BY <1>1 DEF ProfilesInv, IdsInv
<1>10. ASSUME ~overlapped
       PROVE  OneChange' /\ file' = file
  <2>1. /\ \A q \in Requests : q # r => Profiles!Idle(q)
        /\ \A i \in acked \cup req[r].made : Profiles!Has(s, i)
        /\ req[r].fd = "tmp" /\ tmp.text = "truncated"
    BY <1>1, <1>10 DEF ProfilesInv, Kept, OneChange
  <2>2. \A q \in Requests : q # r => req'[q] = None
    BY <2>1, <1>6 DEF Profiles!Idle
  <2>3. \A i \in acked' \cup req'[r].made : Profiles!Has(req'[r].store, i)
    BY <2>1, <1>1, <1>6, <1>7
  <2>4. /\ req'[r].stage = "rename" /\ file' = file
        /\ tmp' = Profiles!Json(req'[r].store)
    BY <2>1, <1>3, <1>4, <1>6, <1>7
  <2>5. OneChange'
    BY <2>2, <2>3, <2>4 DEF OneChange, Profiles!Idle
  <2> QED BY <2>4, <2>5
<1> QED BY <1>1, <1>5, <1>8, <1>9, <1>10 DEF ProfilesInv, Kept

(* What a rename does to the files the other requests have open.           *)
LEMMA RenamePreserves ==
  ASSUME ProfilesInv, NEW r \in Requests, Profiles!Rename(r)
  PROVE  ProfilesInv'
<1>1. /\ ~Profiles!Idle(r) /\ req[r].stage = "rename"
      /\ file' = tmp /\ tmp' = Profiles!Bad("absent")
      /\ acked' = acked \cup req[r].made
      /\ UNCHANGED <<used, overlapped, crashes>>
  BY DEF Profiles!Rename
<1>2. /\ req' = [q \in Requests |-> req'[q]]
      /\ \A q \in Requests :
           \/ (q = r \/ Profiles!Idle(q)) /\ req'[q] = None
           \/ /\ ~Profiles!Idle(q) /\ q # r
              /\ \E fd : /\ fd \in {"tmp", "file", "lost", req[q].fd}
                         /\ req'[q] = [req[q] EXCEPT !.fd = fd]
  BY DEF Profiles!Rename
<1>3. /\ req[r] \in Reqs /\ req[r].made \subseteq Ids
  BY <1>1 DEF ProfilesInv, RequestsInv, Reqs
<1>4. FilesInv'
  BY <1>1, ContentsSound DEF ProfilesInv, FilesInv, Profiles!Unreadable
<1>5. RequestsInv'
  <2> SUFFICES ASSUME NEW q \in Requests, req'[q] # None
               PROVE  req'[q] \in Reqs /\ Profiles!Sound(req'[q].store)
    BY <1>2 DEF RequestsInv, Profiles!Idle
  <2>1. /\ req[q] \in Reqs /\ Profiles!Sound(req[q].store)
        /\ \E fd : /\ fd \in {"tmp", "file", "lost", req[q].fd}
                   /\ req'[q] = [req[q] EXCEPT !.fd = fd]
    BY <1>2 DEF ProfilesInv, RequestsInv
  <2> QED BY <2>1 DEF Reqs
<1>6. IdsInv'
  BY <1>1, <1>3 DEF ProfilesInv, IdsInv
<1>7. ASSUME ~overlapped
      PROVE  OneChange' /\ \A i \in acked' : Profiles!Has(file'.store, i)
  <2>1. /\ \A q \in Requests : q # r => Profiles!Idle(q)
        /\ \A i \in acked \cup req[r].made : Profiles!Has(req[r].store, i)
        /\ tmp = Profiles!Json(req[r].store)
    BY <1>1, <1>7 DEF ProfilesInv, Kept, OneChange
  <2>2. \A q \in Requests : req'[q] = None
    BY <2>1, <1>2
  <2>3. file'.store = req[r].store
    BY <2>1, <1>1 DEF Profiles!Json
  <2> QED BY <2>1, <2>2, <2>3, <1>1 DEF OneChange, Profiles!Idle
<1> QED BY <1>1, <1>4, <1>5, <1>6, <1>7 DEF ProfilesInv, Kept

LEMMA GivingUpPreserves ==
  ASSUME ProfilesInv,
         Profiles!Crash \/ \E r \in Requests : Profiles!RenameFails(r)
  PROVE  ProfilesInv'
<1>1. /\ req' = [q \in Requests |-> req'[q]]
      /\ \A q \in Requests : req'[q] = req[q] \/ req'[q] = None
      /\ UNCHANGED <<file, tmp, used, acked, overlapped>>
      /\ crashes' = crashes \/ (crashes < MaxCrashes /\ crashes' = crashes + 1)
  BY DEF Profiles!Crash, Profiles!RenameFails, ProfilesInv, RequestsInv
<1>2. FilesInv' /\ RequestsInv'
  BY <1>1 DEF ProfilesInv, FilesInv, RequestsInv, Profiles!Idle
<1>3. IdsInv'
  BY <1>1, ProfilesAssumption DEF ProfilesInv, IdsInv
<1>4. OneChange => OneChange'
  BY <1>1 DEF OneChange, Profiles!Idle
<1> QED BY <1>1, <1>2, <1>3, <1>4 DEF ProfilesInv, Kept

LEMMA ProfilesInitHolds == Profiles!Init => ProfilesInv
<1> SUFFICES ASSUME Profiles!Init PROVE ProfilesInv
  OBVIOUS
<1> USE DEF Profiles!Init
<1>1. FilesInv
  BY ContentsSound DEF FilesInv, Profiles!Unreadable
<1>2. RequestsInv
  BY DEF RequestsInv, Profiles!Idle
<1>3. used \subseteq Ids /\ acked \subseteq Ids /\ crashes \in 0..MaxCrashes
  BY ProfilesAssumption
<1>4. overlapped \in BOOLEAN
  OBVIOUS
<1>5. Kept
  BY DEF Kept, OneChange, Profiles!Idle
<1> QED BY <1>1, <1>2, <1>3, <1>4, <1>5 DEF ProfilesInv, IdsInv

LEMMA ProfilesStepPreserves ==
  ProfilesInv /\ [MCNext]_<<part, vars, profileVars>> => ProfilesInv'
<1> SUFFICES ASSUME ProfilesInv, [MCNext]_<<part, vars, profileVars>>
             PROVE  ProfilesInv'
  OBVIOUS
<1>1. CASE Profiles!Next
  BY <1>1, ChangePreserves, OpenPreserves, WritePreserves, RenamePreserves,
     GivingUpPreserves DEF Profiles!Next
<1>2. CASE UNCHANGED profileVars
  <2>1. UNCHANGED <<file, tmp, req, used, acked, overlapped, crashes>>
    BY <1>2 DEF profileVars
  <2>2. FilesInv' /\ RequestsInv'
    BY <2>1 DEF ProfilesInv, FilesInv, RequestsInv, Profiles!Idle
  <2>3. IdsInv'
    BY <2>1 DEF ProfilesInv, IdsInv
  <2>4. OneChange => OneChange'
    BY <2>1 DEF OneChange, Profiles!Idle
  <2> QED BY <2>1, <2>2, <2>3, <2>4 DEF ProfilesInv, Kept
<1> QED BY <1>1, <1>2 DEF MCNext

(* The default layout is always a profile there is, and a profile whose    *)
(* creation was answered stays in the file unless two changes overlap,     *)
(* however requests interleave and whenever the server crashes             *)
(* (routes/layouts.ts).                                                    *)
THEOREM LayoutsStaySound == MCSpec => []LayoutsSound
<1>1. MCInit => ProfilesInv
  BY ProfilesInitHolds DEF MCInit
<1>2. ProfilesInv => LayoutsSound
  BY DEF ProfilesInv, FilesInv, RequestsInv, IdsInv, Kept, LayoutsSound, Reqs,
         Profiles!TypeOK, Profiles!DefaultExists, Profiles!AcknowledgedKept
<1> QED BY <1>1, <1>2, ProfilesStepPreserves, PTL DEF MCSpec
=============================================================================
