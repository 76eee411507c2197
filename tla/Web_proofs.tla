------------------------------ MODULE Web_proofs -----------------------------
(***************************************************************************)
(* The browser's client, its counters and timers; the sidecar's stream and *)
(* its recordings; the stream pane, its capture and its viewer: for any    *)
(* number of failures, viewers, frames, recordings, buttons and keys.      *)
(* The module extends the one that composes them, whose properties these   *)
(* are.                                                                    *)
(***************************************************************************)
EXTENDS MCWeb, SequenceTheorems, FiniteSetTheorems, TLAPS

-----------------------------------------------------------------------------
(* Counters: arithmetic, and nothing else.                                 *)

LEMMA CountersStart == Init => CountersOK
  BY BoundsAssumption, SMT DEF BoundsAssumption, Init, CountersOK

LEMMA CountersKept == CountersOK /\ [Next]_vars => CountersOK'
<1> SUFFICES ASSUME CountersOK, [Next]_vars
             PROVE  CountersOK'
  OBVIOUS
<1> USE BoundsAssumption
     DEF BoundsAssumption, CountersOK, net, client, Failure
<1>1. CASE connect \/ onopen \/ shutdown
  BY <1>1, SMT DEF connect, onopen, shutdown
<1>2. CASE ConnectFails \/ Dropped \/ Closed
  BY <1>2, SMT DEF ConnectFails, Dropped, Closed, onclose
<1>3. CASE GoesSilent \/ doHeartbeat
  BY <1>3, SMT DEF GoesSilent, doHeartbeat, SendPing
<1>4. CASE ServerPong \/ PongArrives
  BY <1>4, SMT DEF ServerPong, PongArrives
<1>5. CASE PongTimeout \/ ReconnectTimer
  BY <1>5, SMT DEF PongTimeout, ReconnectTimer
<1>6. CASE UNCHANGED vars
  BY <1>6, SMT DEF vars
<1> QED
  BY <1>1, <1>2, <1>3, <1>4, <1>5, <1>6 DEF Next

-----------------------------------------------------------------------------
(* Flags: the two safety properties carry each other, since a close event  *)
(* that finds intent "reopen" leaves the timer as it was.                  *)
FlagsInv == FlagsOK /\ RetryOnlyWhenClosed /\ OpenSocketIsProbed

LEMMA FlagsStart == Init => FlagsInv
  BY Zenon DEF Init, FlagsInv, FlagsOK, RetryOnlyWhenClosed, OpenSocketIsProbed

LEMMA FlagsKept == FlagsInv /\ [Next]_vars => FlagsInv'
<1> SUFFICES ASSUME FlagsInv, [Next]_vars
             PROVE  FlagsInv'
  OBVIOUS
<1> USE DEF FlagsInv, FlagsOK, RetryOnlyWhenClosed, OpenSocketIsProbed, options, net, client
<1>1. CASE connect
  BY <1>1 DEF connect, openSocket
<1>2. CASE onopen
  BY <1>2 DEF onopen
<1>3. ASSUME onclose, socket \in {"connecting", "open", "closing"}, UNCHANGED options
      PROVE  FlagsInv'
  <2>1. ~timer
    BY <1>3, Zenon
  <2>2. CASE intent = "reopen"
    BY <1>3, <2>1, <2>2 DEF onclose
  <2>3. CASE intent # "reopen"
    BY <1>3, <2>1, <2>3 DEF onclose, maybeScheduleReconnect
  <2> QED
    BY <2>2, <2>3
<1>4. CASE ConnectFails \/ Dropped \/ Closed
  BY <1>3, <1>4 DEF ConnectFails, Dropped, Closed, onclose
<1>5. CASE GoesSilent \/ ServerPong
  <2>1. UNCHANGED client
    BY <1>5, Zenon DEF GoesSilent, ServerPong
  <2>2. alive' \in BOOLEAN
    BY <1>5, Zenon DEF GoesSilent, ServerPong
  <2> QED
    BY <2>1, <2>2
<1>6. CASE doHeartbeat
  BY <1>6 DEF doHeartbeat
<1>7. CASE PongArrives
  BY <1>7 DEF PongArrives
<1>8. CASE PongTimeout
  BY <1>8 DEF PongTimeout
<1>9. CASE ReconnectTimer
  BY <1>9 DEF ReconnectTimer, openSocket
<1>10. CASE shutdown
  BY <1>10 DEF shutdown
<1>11. CASE UNCHANGED vars
  BY <1>11 DEF vars
<1> QED
  BY <1>1, <1>2, <1>4, <1>5, <1>6, <1>7, <1>8, <1>9, <1>10, <1>11 DEF Next

-----------------------------------------------------------------------------
LEMMA FlagsInvariance == Spec => []FlagsInv
<1> QED
  BY FlagsStart, FlagsKept, PTL DEF Spec

(* Type correctness.                                                       *)
THEOREM ClientTypeCorrect == Spec => []TypeOK
<1>1. Spec => []CountersOK
  BY CountersStart, CountersKept, PTL DEF Spec
<1>2. FlagsInv /\ CountersOK => TypeOK
  BY DEF FlagsInv, TypeOK
<1> QED
  BY <1>1, <1>2, FlagsInvariance, PTL

(* A reconnect waits only while the socket is closed and is wanted back.   *)
THEOREM RetriesOnlyWhenClosed == Spec => []RetryOnlyWhenClosed
<1>1. FlagsInv => RetryOnlyWhenClosed
  BY DEF FlagsInv
<1> QED
  BY <1>1, FlagsInvariance, PTL

(* Every open socket has its heartbeat running.                            *)
THEOREM OpenSocketsAreProbed == Spec => []OpenSocketIsProbed
<1>1. FlagsInv => OpenSocketIsProbed
  BY DEF FlagsInv
<1> QED
  BY <1>1, FlagsInvariance, PTL

-----------------------------------------------------------------------------
(* The sidecar's stream.                                                   *)

(* What holds of a viewer k at frame f, when the last frame is l: it has   *)
(* room unless it is full; it has been sent, and waits for, frames that    *)
(* were captured, and waits for none older than it was sent.               *)
ViewerFits(k) ==
  /\ k.link = "off" => ~k.backpressured
  /\ k.backpressured => k.buffered >= 1
  /\ ~k.backpressured => k.buffered < HighWater
InOrder(k, f) ==
  /\ k.sent <= f /\ k.pending <= f
  /\ k.pending # 0 => k.pending >= k.sent
Newest(k, l) == k.backpressured /\ l # 0 => k.pending = l

Viewed(k, f, l) ==
  /\ k \in Stream!ClientStates
  /\ ViewerFits(k) /\ InOrder(k, f) /\ Newest(k, l)

LEMMA NoClientViewed ==
  ASSUME NEW f \in 0..MaxFrames, NEW l \in 0..f
  PROVE  Viewed(Stream!NoClient, f, l)
  BY WebAssumption, SMT
  DEF WebAssumption, Viewed, ViewerFits, InOrder, Newest, Stream!NoClient, Stream!ClientStates

(* Writing the frame g to a client that is not full: what comes of each of *)
(* its fields.                                                             *)
LEMMA WriteGives ==
  ASSUME NEW k \in Stream!ClientStates, ViewerFits(k), ~k.backpressured,
         NEW g \in 0..MaxFrames, NEW l \in 0..MaxFrames,
         NEW z, z = Stream!Write(k, g, l)
  PROVE  /\ z \in Stream!ClientStates
         /\ z.link = k.link /\ z.sent = g /\ z.buffered = k.buffered + 1
         /\ z.backpressured <=> k.buffered + 1 >= HighWater
         /\ z.pending = IF z.backpressured /\ l # 0 THEN l ELSE k.pending
<1> DEFINE b == k.buffered + 1
           p == IF l = 0 THEN k.pending ELSE l
           w == [k EXCEPT !.buffered = b, !.sent = g]
           m == [w EXCEPT !.backpressured = TRUE]
           n == [m EXCEPT !.pending = p]
<1>1. b \in 0..HighWater
  BY WebAssumption, SMT DEF WebAssumption, ViewerFits, Stream!ClientStates
<1>2. p \in 0..MaxFrames
  BY Zenon DEF Stream!ClientStates
<1>A. m.pending = w.pending /\ w.pending = k.pending /\ w.buffered = b
  BY Zenon DEF Stream!ClientStates
<1>3. z = IF b >= HighWater THEN n ELSE w
  BY <1>A, Zenon DEF Stream!Write, Stream!Full, Stream!Mark
<1> HIDE DEF b, p
<1>4. /\ w \in Stream!ClientStates
      /\ w.link = k.link /\ w.sent = g /\ w.buffered = b
      /\ w.pending = k.pending /\ w.backpressured = k.backpressured
  BY <1>1, Zenon DEF Stream!ClientStates
<1> HIDE DEF w
<1>5. /\ n \in Stream!ClientStates
      /\ n.link = w.link /\ n.sent = w.sent /\ n.buffered = w.buffered
      /\ n.pending = p /\ n.backpressured
  BY <1>2, <1>4, Zenon DEF Stream!ClientStates
<1> HIDE DEF m, n
<1>6. CASE b >= HighWater
  <2>1. z = n
    BY <1>3, <1>6
  <2> QED
    BY <1>4, <1>5, <1>6, <2>1 DEF b, p
<1>7. CASE ~(b >= HighWater)
  <2>1. z = w
    BY <1>3, <1>7
  <2> QED
    BY <1>4, <1>7, <2>1 DEF b
<1> QED
  BY <1>6, <1>7

LEMMA MarkGives ==
  ASSUME NEW k \in Stream!ClientStates, NEW f \in 1..MaxFrames,
         NEW m, m = Stream!Mark(k, f)
  PROVE  /\ m \in Stream!ClientStates
         /\ m.link = k.link /\ m.sent = k.sent /\ m.buffered = k.buffered
         /\ m.backpressured = k.backpressured /\ m.pending = f
<1>1. f # 0 /\ f \in 0..MaxFrames
  BY SMT
<1>2. m = [k EXCEPT !.pending = f]
  BY <1>1 DEF Stream!Mark
<1> QED
  BY <1>1, <1>2, Zenon DEF Stream!ClientStates

(* A new frame: it is the newest, and whoever has it was sent none after.  *)
LEMMA BroadcastKeeps ==
  ASSUME NEW f \in Nat, NEW l \in 0..f, f < MaxFrames,
         NEW k, Viewed(k, f, l), NEW may,
         NEW n, n = Stream!Broadcast(k, f + 1, may)
  PROVE  /\ Viewed(n, f + 1, f + 1)
         /\ k.link = "on" => n.link = "on" /\ n.sent >= k.sent
<1>0. /\ k \in Stream!ClientStates /\ MaxFrames \in Nat
      /\ {0, f + 1} \subseteq 0..MaxFrames /\ f + 1 \in 1..MaxFrames
  BY WebAssumption, SMT DEF WebAssumption, Viewed
<1>1. CASE k.link = "gone"
  <2>1. n = Stream!NoClient
    BY <1>1 DEF Stream!Broadcast
  <2> QED
    BY <1>0, <1>1, <2>1, NoClientViewed
<1>2. CASE k.link = "off"
  <2>1. n = k
    BY <1>2 DEF Stream!Broadcast
  <2>2. ~k.backpressured
    BY <1>2 DEF Viewed, ViewerFits
  <2>3. InOrder(k, f + 1)
    BY <1>0, SMT DEF Viewed, InOrder, Stream!ClientStates
  <2> QED
    BY <1>0, <1>2, <2>1, <2>2, <2>3 DEF Viewed, Newest
<1>3. CASE k.link = "on" /\ (k.backpressured \/ ~may)
  <2>1. n = Stream!Mark(k, f + 1)
    BY <1>3 DEF Stream!Broadcast
  <2>2. /\ n \in Stream!ClientStates
        /\ n.link = k.link /\ n.sent = k.sent /\ n.buffered = k.buffered
        /\ n.backpressured = k.backpressured /\ n.pending = f + 1
    BY <1>0, <2>1, MarkGives
  <2>3. ViewerFits(n)
    BY <2>2 DEF Viewed, ViewerFits
  <2>4. InOrder(n, f + 1)
    BY <1>0, <2>2, SMT DEF Viewed, InOrder, Stream!ClientStates
  <2>5. n.sent >= k.sent
    BY <1>0, <2>2, SMT DEF Stream!ClientStates
  <2> QED
    BY <1>3, <2>2, <2>3, <2>4, <2>5 DEF Viewed, Newest
<1>4. CASE k.link = "on" /\ ~(k.backpressured \/ ~may)
  <2> DEFINE w == Stream!Write(k, f + 1, f + 1)
             z == [w EXCEPT !.pending = 0]
  <2>1. n = IF w.backpressured THEN w ELSE z
    BY <1>4 DEF Stream!Broadcast
  <2>2. /\ w \in Stream!ClientStates
        /\ w.link = k.link /\ w.sent = f + 1 /\ w.buffered = k.buffered + 1
        /\ w.backpressured <=> k.buffered + 1 >= HighWater
        /\ w.pending = IF w.backpressured /\ f + 1 # 0 THEN f + 1 ELSE k.pending
    BY <1>0, <1>4, WriteGives DEF Viewed
  <2> HIDE DEF w
  <2>3. /\ z \in Stream!ClientStates
        /\ z.link = w.link /\ z.sent = w.sent /\ z.buffered = w.buffered
        /\ z.pending = 0 /\ z.backpressured = w.backpressured
    BY <1>0, <2>2, Zenon DEF Stream!ClientStates
  <2> HIDE DEF z
  <2>4. k.buffered \in Nat /\ HighWater \in Nat /\ k.sent \in Nat /\ k.sent <= f
    BY <1>0, WebAssumption, SMT DEF WebAssumption, Viewed, InOrder, Stream!ClientStates
  <2>5. CASE w.backpressured
    <3>1. n = w
      BY <2>1, <2>5
    <3>2. n.pending = f + 1
      BY <1>0, <2>2, <2>5, <3>1
    <3>3. ViewerFits(n)
      BY <1>4, <2>2, <2>4, <2>5, <3>1 DEF ViewerFits
    <3>4. InOrder(n, f + 1) /\ n.sent >= k.sent
      BY <2>2, <2>4, <3>1, <3>2 DEF InOrder
    <3> QED
      BY <1>4, <2>2, <3>1, <3>2, <3>3, <3>4 DEF Viewed, Newest
  <2>6. CASE ~w.backpressured
    <3>1. n = z
      BY <2>1, <2>6
    <3>2. z.buffered < HighWater
      BY <2>2, <2>3, <2>4, <2>6
    <3>3. ViewerFits(n)
      BY <2>3, <2>6, <3>1, <3>2 DEF ViewerFits
    <3>4. InOrder(n, f + 1) /\ n.sent >= k.sent
      BY <2>2, <2>3, <2>4, <3>1 DEF InOrder
    <3> QED
      BY <1>4, <2>2, <2>3, <2>6, <3>1, <3>3, <3>4 DEF Viewed, Newest
  <2> QED
    BY <2>5, <2>6
<1>5. k.link \in {"off", "on", "gone"}
  BY <1>0, SMT DEF Stream!ClientStates
<1> QED
  BY <1>1, <1>2, <1>3, <1>4, <1>5

(* A drain: what waits is the newest frame there is, or older than none    *)
(* the client has been sent.                                               *)
LEMMA DrainKeeps ==
  ASSUME frame \in 0..MaxFrames, lastFrame \in 0..frame,
         NEW k, Viewed(k, frame, lastFrame), k.link = "on", k.backpressured,
         NEW may \in BOOLEAN, NEW n, n = Stream!Drained(k, may)
  PROVE  Viewed(n, frame, lastFrame) /\ n.link = "on" /\ n.sent >= k.sent
<1> DEFINE d == [k EXCEPT !.buffered = 0, !.backpressured = FALSE]
           e == [d EXCEPT !.pending = 0]
           w == Stream!Write(e, k.pending, lastFrame)
<1>0. /\ k \in Stream!ClientStates /\ MaxFrames \in Nat
      /\ 0 \in 0..HighWater /\ 0 < HighWater /\ 0 \in 0..MaxFrames
      /\ lastFrame \in 0..MaxFrames /\ HighWater \in Nat
  BY WebAssumption, SMT DEF WebAssumption, Viewed
<1>1. /\ k.pending \in 0..MaxFrames /\ k.sent \in 0..MaxFrames
      /\ k.sent <= frame /\ k.pending <= frame
      /\ k.pending # 0 => k.pending >= k.sent
      /\ lastFrame # 0 => k.pending = lastFrame
  BY <1>0, Zenon DEF Viewed, InOrder, Newest, Stream!ClientStates
<1>2. n = IF may /\ k.pending # 0 THEN w ELSE d
  BY Zenon DEF Stream!Drained
<1>3. /\ d \in Stream!ClientStates
      /\ d.link = k.link /\ d.sent = k.sent /\ d.buffered = 0
      /\ ~d.backpressured /\ d.pending = k.pending
  BY <1>0, Zenon DEF Stream!ClientStates
<1> HIDE DEF d
<1>4. /\ e \in Stream!ClientStates
      /\ e.link = d.link /\ e.sent = d.sent /\ e.buffered = d.buffered
      /\ e.backpressured = d.backpressured /\ e.pending = 0
  BY <1>0, <1>3, Zenon DEF Stream!ClientStates
<1> HIDE DEF e
<1>5. CASE may /\ k.pending # 0
  <2>1. n = w
    BY <1>2, <1>5
  <2>2. ~e.backpressured
    BY <1>3, <1>4
  <2>3. ViewerFits(e)
    BY <1>0, <1>3, <1>4, <2>2 DEF ViewerFits
  <2>4. /\ n \in Stream!ClientStates
        /\ n.link = e.link /\ n.sent = k.pending /\ n.buffered = e.buffered + 1
        /\ n.backpressured <=> e.buffered + 1 >= HighWater
        /\ n.pending = IF n.backpressured /\ lastFrame # 0 THEN lastFrame ELSE e.pending
    BY <1>0, <1>1, <1>4, <2>1, <2>2, <2>3, WriteGives
  <2>5. n.link = "on" /\ n.buffered = 1
    BY <1>3, <1>4, <2>4
  <2>6. n.sent = k.pending /\ n.pending \in {0, k.pending}
    BY <1>1, <1>4, <2>4, Zenon
  <2>7. InOrder(n, frame) /\ n.sent >= k.sent
    <3>1. k.pending <= frame /\ k.pending >= k.sent /\ k.pending \in Nat
      BY <1>0, <1>1, <1>5
    <3>2. frame \in Nat
      BY <1>0
    <3> HIDE <1>0, <1>1, <2>4
    <3> QED
      BY <2>6, <3>1, <3>2 DEF InOrder
  <2>8. n.backpressured => n.buffered >= 1
    BY <2>5
  <2>9. ~n.backpressured => n.buffered < HighWater
    BY <1>0, <1>3, <1>4, <2>4
  <2>10. Newest(n, lastFrame)
    BY <2>4 DEF Newest
  <2> QED
    BY <2>4, <2>5, <2>7, <2>8, <2>9, <2>10 DEF Viewed, ViewerFits
<1>6. CASE ~(may /\ k.pending # 0)
  <2>1. n = d
    BY <1>2, <1>6
  <2>2. ViewerFits(n)
    BY <1>0, <1>3, <2>1 DEF ViewerFits
  <2>3. InOrder(n, frame) /\ n.sent >= k.sent
    BY <1>1, <1>3, <2>1 DEF InOrder
  <2> QED
    BY <1>3, <2>1, <2>2, <2>3 DEF Viewed, Newest
<1> QED
  BY <1>5, <1>6

(* With no last frame nothing is asked of what waits.                      *)
LEMMA ViewedAnew ==
  ASSUME NEW k, NEW f, NEW l, Viewed(k, f, l)
  PROVE  Viewed(k, f, 0)
  BY DEF Viewed, Newest

StreamInv ==
  /\ Stream!TypeOK
  /\ \A c \in Clients : Viewed(viewers[c], frame, lastFrame)

FramesAdvance ==
  \A c \in Clients :
    viewers[c].link = "on" /\ viewers[c]'.link = "on" => viewers[c]'.sent >= viewers[c].sent

LEMMA StreamStarts == Stream!Init => StreamInv
<1> SUFFICES ASSUME Stream!Init
             PROVE  StreamInv
  OBVIOUS
<1>1. frame = 0 /\ frame \in 0..MaxFrames /\ lastFrame \in 0..frame
  BY WebAssumption, SMT DEF WebAssumption, Stream!Init
<1>2. ASSUME NEW c \in Clients
      PROVE  Viewed(viewers[c], frame, lastFrame)
  BY <1>1, NoClientViewed DEF Stream!Init
<1>3. viewers \in [Clients -> Stream!ClientStates]
  BY <1>2 DEF Viewed, Stream!Init
<1> QED
  BY <1>1, <1>2, <1>3, Zenon DEF StreamInv, Stream!TypeOK, Stream!Init

(* A capture that starts forgets the last frame of the one before it.      *)
LEMMA CaptureStarts ==
  ASSUME StreamInv, Stream!StartCapture
  PROVE  /\ process' \in [Processes -> {"none", "spawning", "live", "closing"}]
         /\ ffmpegProc' \in Processes \cup {None} /\ running' \in BOOLEAN
         /\ lastFrame' \in {lastFrame, 0}
<1>1. CASE ffmpegProc # None
  BY <1>1, Zenon DEF StreamInv, Stream!StartCapture, Stream!TypeOK
<1>2. CASE ffmpegProc = None
  <2>1. PICK p \in Processes : \E s \in {"live", "spawning"} :
          process' = [process EXCEPT ![p] = s] /\ ffmpegProc' = p /\ running' = TRUE /\ lastFrame' = 0
    BY <1>2, Zenon DEF Stream!StartCapture
  <2> QED
    BY <2>1, Zenon DEF StreamInv, Stream!TypeOK
<1> QED
  BY <1>1, <1>2

(* The frame and a client that changes by itself.                          *)
LEMMA OneViewer ==
  ASSUME StreamInv, UNCHANGED <<process, ffmpegProc, running, restart, frame, lastFrame>>,
         NEW c \in Clients, NEW n, viewers' = [viewers EXCEPT ![c] = n],
         Viewed(n, frame, lastFrame),
         viewers[c].link = "on" /\ n.link = "on" => n.sent >= viewers[c].sent
  PROVE  StreamInv' /\ FramesAdvance
<1>1. n \in Stream!ClientStates
  BY DEF Viewed
<1>2. viewers' \in [Clients -> Stream!ClientStates]
  BY <1>1, Zenon DEF StreamInv, Stream!TypeOK
<1>3. ASSUME NEW e \in Clients
      PROVE  viewers'[e] = IF e = c THEN n ELSE viewers[e]
  BY Zenon DEF StreamInv, Stream!TypeOK
<1>4. ASSUME NEW e \in Clients
      PROVE  /\ Viewed(viewers'[e], frame, lastFrame)
             /\ viewers[e].link = "on" /\ viewers'[e].link = "on" => viewers'[e].sent >= viewers[e].sent
  <2>1. viewers[e].sent \in Nat
    BY SMT DEF StreamInv, Stream!TypeOK, Stream!ClientStates
  <2>2. viewers[e].sent >= viewers[e].sent
    BY <2>1
  <2> QED
    BY <1>3, <2>2, Zenon DEF StreamInv
<1>5. StreamInv'
  BY <1>2, <1>4, Zenon DEF StreamInv, Stream!TypeOK
<1>6. FramesAdvance
  BY <1>4, Zenon DEF FramesAdvance
<1> QED
  BY <1>5, <1>6

LEMMA StreamKept ==
  ASSUME StreamInv, Stream!Next \/ UNCHANGED streamVars
  PROVE  StreamInv' /\ FramesAdvance
<1>0. /\ frame \in Nat /\ frame \in 0..MaxFrames /\ lastFrame \in 0..frame /\ MaxFrames \in Nat
      /\ viewers \in [Clients -> Stream!ClientStates]
  BY WebAssumption, SMT DEF WebAssumption, StreamInv, Stream!TypeOK
<1>1. ASSUME UNCHANGED viewers
      PROVE  FramesAdvance
  <2>1. ASSUME NEW c \in Clients
        PROVE  viewers[c].sent >= viewers[c].sent
    BY <1>0, SMT DEF Stream!ClientStates
  <2> QED
    BY <1>1, <2>1 DEF FramesAdvance
<1>2. ASSUME NEW p \in Processes,
             Stream!ProcessError(p) \/ Stream!Exits(p) \/ Stream!ProcessClose(p)
      PROVE  StreamInv' /\ FramesAdvance
  <2>1. UNCHANGED <<frame, lastFrame, viewers>>
    BY <1>2, Zenon
    DEF Stream!ProcessError, Stream!Exits, Stream!ProcessClose
  <2>2. /\ process' = [process EXCEPT ![p] = "closing"] \/ process' = [process EXCEPT ![p] = "none"]
        /\ ffmpegProc' \in {None, ffmpegProc} /\ running' \in {FALSE, running}
        /\ restart' \in {TRUE, restart}
    BY <1>2, Zenon
    DEF Stream!ProcessError, Stream!Exits, Stream!ProcessClose, Stream!RestartScheduled
  <2>3. Stream!TypeOK'
    BY <2>1, <2>2, Zenon DEF StreamInv, Stream!TypeOK
  <2>4. StreamInv'
    BY <2>1, <2>3, Zenon DEF StreamInv
  <2> QED
    BY <1>1, <2>1, <2>4
<1>3. ASSUME Stream!StartCapture, frame' = frame, restart' \in BOOLEAN,
             viewers' \in [Clients -> Stream!ClientStates],
             \A c \in Clients : Viewed(viewers'[c], frame, lastFrame)
      PROVE  StreamInv'
  <2>1. /\ process' \in [Processes -> {"none", "spawning", "live", "closing"}]
        /\ ffmpegProc' \in Processes \cup {None} /\ running' \in BOOLEAN
        /\ lastFrame' \in {lastFrame, 0}
    BY <1>3, CaptureStarts
  <2>2. lastFrame' \in 0..frame /\ frame' \in 0..MaxFrames
    BY <1>0, <1>3, <2>1
  <2>3. \A c \in Clients : Viewed(viewers'[c], frame, lastFrame')
    BY <1>3, <2>1, ViewedAnew
  <2> QED
    BY <1>3, <2>1, <2>2, <2>3, Zenon DEF StreamInv, Stream!TypeOK
<1>4. CASE Stream!RestartFires
  <2>1. UNCHANGED <<frame, viewers>> /\ restart' = FALSE /\ Stream!StartCapture
    BY <1>4, Zenon DEF Stream!RestartFires
  <2>2. StreamInv'
    BY <1>0, <1>3, <2>1 DEF StreamInv
  <2> QED
    BY <1>1, <2>1, <2>2
<1>5. CASE Stream!Frame
  <2>1. /\ frame < MaxFrames /\ frame' = frame + 1 /\ lastFrame' = frame + 1
        /\ UNCHANGED <<process, ffmpegProc, running, restart>>
    BY <1>5, Zenon DEF Stream!Frame
  <2>2. PICK may \in SUBSET Clients, broken \in SUBSET {c \in Clients : viewers[c].link = "on"} :
          viewers' = [c \in Clients |->
                        IF c \in broken /\ c \in may /\ ~viewers[c].backpressured
                        THEN Stream!NoClient
                        ELSE Stream!Broadcast(viewers[c], frame + 1, c \in may)]
    BY <1>5, Zenon DEF Stream!Frame
  <2>3. frame + 1 \in 0..MaxFrames /\ frame + 1 \in 0..(frame + 1)
    BY <1>0, <2>1
  <2>4. Viewed(Stream!NoClient, frame + 1, frame + 1)
    BY <2>3, NoClientViewed
  <2>5. Stream!NoClient.link # "on"
    BY DEF Stream!NoClient
  <2>6. ASSUME NEW c \in Clients
        PROVE  /\ Viewed(viewers'[c], frame + 1, frame + 1)
               /\ viewers[c].link = "on" /\ viewers'[c].link = "on" => viewers'[c].sent >= viewers[c].sent
    <3>1. CASE c \in broken /\ c \in may /\ ~viewers[c].backpressured
      <4>1. viewers'[c] = Stream!NoClient
        BY <2>2, <3>1
      <4> QED
        BY <2>4, <2>5, <4>1
    <3>2. CASE ~(c \in broken /\ c \in may /\ ~viewers[c].backpressured)
      <4>1. viewers'[c] = Stream!Broadcast(viewers[c], frame + 1, c \in may)
        BY <2>2, <3>2, Zenon
      <4>2. Viewed(viewers[c], frame, lastFrame)
        BY Zenon DEF StreamInv
      <4> DEFINE n == viewers'[c]
                 m == c \in may
      <4>3. n = Stream!Broadcast(viewers[c], frame + 1, m)
        BY <4>1
      <4> HIDE DEF n, m
      <4>4. /\ Viewed(n, frame + 1, frame + 1)
            /\ viewers[c].link = "on" => n.link = "on" /\ n.sent >= viewers[c].sent
        BY <1>0, <2>1, <4>2, <4>3, BroadcastKeeps
      <4> QED
        BY <4>4 DEF n
    <3> QED
      BY <3>1, <3>2
  <2>7. viewers' \in [Clients -> Stream!ClientStates]
    <3>1. \A c \in Clients : viewers'[c] \in Stream!ClientStates
      BY <2>6 DEF Viewed
    <3>2. DOMAIN viewers' = Clients /\ viewers' = [c \in Clients |-> viewers'[c]]
      BY <2>2, Zenon
    <3> QED
      BY <3>1, <3>2, Zenon
  <2>8. frame' \in 0..MaxFrames /\ lastFrame' \in 0..frame'
    BY <1>0, <2>1
  <2>9. StreamInv'
    BY <2>1, <2>6, <2>7, <2>8, Zenon DEF StreamInv, Stream!TypeOK
  <2>10. FramesAdvance
    BY <2>6, Zenon DEF FramesAdvance
  <2> QED
    BY <2>9, <2>10
<1>6. ASSUME NEW c \in Clients, Stream!handleStream(c)
      PROVE  StreamInv' /\ FramesAdvance
  <2>1. viewers[c].link = "off" /\ Stream!StartCapture /\ UNCHANGED <<restart, frame>>
    BY <1>6, Zenon DEF Stream!handleStream
  <2>2. PICK limited \in BOOLEAN : Stream!Joins(c, limited)
    BY <1>6, Zenon DEF Stream!handleStream
  <2> DEFINE n == [Stream!NoClient EXCEPT !.link = "on", !.limited = limited]
  <2>3. viewers' = [viewers EXCEPT ![c] = n] \/ viewers' = viewers
    BY <2>2, Zenon DEF Stream!Joins
  <2>4. Viewed(Stream!NoClient, frame, lastFrame) /\ 0 < HighWater
    BY <1>0, NoClientViewed, WebAssumption DEF WebAssumption
  <2>5. Viewed(n, frame, lastFrame)
    <3>1. /\ n \in Stream!ClientStates /\ n.link = "on" /\ ~n.backpressured
          /\ n.buffered = Stream!NoClient.buffered /\ n.sent = Stream!NoClient.sent
          /\ n.pending = Stream!NoClient.pending
      BY <2>4, Zenon DEF Viewed, Stream!NoClient, Stream!ClientStates
    <3>2. ~Stream!NoClient.backpressured
      BY DEF Stream!NoClient
    <3> HIDE DEF n
    <3> QED
      BY <2>4, <3>1, <3>2 DEF Viewed, ViewerFits, InOrder, Newest
  <2> HIDE DEF n
  <2>6. ASSUME NEW e \in Clients
        PROVE  viewers'[e] \in {n, viewers[e]} /\ (e # c => viewers'[e] = viewers[e])
    BY <1>0, <2>3, Zenon
  <2>7. viewers' \in [Clients -> Stream!ClientStates]
    BY <1>0, <2>3, <2>5, Zenon DEF Viewed
  <2>8. \A e \in Clients : Viewed(viewers'[e], frame, lastFrame)
    BY <2>5, <2>6, Zenon DEF StreamInv
  <2>9. StreamInv'
    BY <1>3, <2>1, <2>7, <2>8 DEF StreamInv, Stream!TypeOK
  <2>10. ASSUME NEW e \in Clients, viewers[e].link = "on"
         PROVE  viewers'[e].sent >= viewers[e].sent
    <3>1. viewers'[e] = viewers[e]
      BY <2>1, <2>6, <2>10
    <3> QED
      BY <1>0, <3>1, SMT DEF Stream!ClientStates
  <2> QED
    BY <2>9, <2>10 DEF FramesAdvance
<1>7. ASSUME NEW c \in Clients,
             Stream!Flush(c) \/ Stream!Drain(c) \/ Stream!Leaves(c) \/ Stream!ClientClose(c)
      PROVE  StreamInv' /\ FramesAdvance
  <2>1. UNCHANGED <<process, ffmpegProc, running, restart, frame, lastFrame>>
    BY <1>7, Zenon
    DEF Stream!Flush, Stream!Drain, Stream!Leaves, Stream!ClientClose, Stream!capture
  <2> DEFINE k == viewers[c]
  <2>2. /\ Viewed(k, frame, lastFrame) /\ k \in Stream!ClientStates
        /\ k.buffered \in 0..HighWater /\ k.sent \in Nat /\ HighWater \in Nat
    <3>1. Viewed(k, frame, lastFrame) /\ k \in Stream!ClientStates
      BY Zenon DEF StreamInv, Viewed
    <3> QED
      BY <3>1, WebAssumption, SMT DEF WebAssumption, Stream!ClientStates
  <2>3. CASE Stream!Flush(c)
    <3> DEFINE b == k.buffered - 1
               n == [k EXCEPT !.buffered = b]
    <3>1. viewers' = [viewers EXCEPT ![c] = n]
      BY <2>3, Zenon DEF Stream!Flush
    <3>2. k.buffered > (IF k.backpressured THEN 1 ELSE 0)
      BY <2>3, Zenon DEF Stream!Flush
    <3>3. b \in 0..HighWater /\ (k.backpressured => b >= 1) /\ b < HighWater
      BY <2>2, <3>2, SMT
    <3> HIDE DEF b
    <3>4. /\ n \in Stream!ClientStates /\ n.link = k.link /\ n.sent = k.sent
          /\ n.buffered = b /\ n.pending = k.pending /\ n.backpressured = k.backpressured
      BY <2>2, <3>3, Zenon DEF Stream!ClientStates
    <3> HIDE DEF n, k
    <3>5. Viewed(n, frame, lastFrame)
      BY <2>2, <3>3, <3>4 DEF Viewed, ViewerFits, InOrder, Newest
    <3>6. n.sent >= k.sent
      BY <2>2, <3>4
    <3> QED
      BY <2>1, <3>1, <3>5, <3>6, OneViewer DEF k
  <2>4. CASE Stream!Drain(c)
    <3>1. k.link = "on" /\ k.backpressured
      BY <2>4, Zenon DEF Stream!Drain
    <3>2. PICK may \in BOOLEAN : viewers' = [viewers EXCEPT ![c] = Stream!Drained(k, may)]
      BY <2>4, Zenon DEF Stream!Drain
    <3> DEFINE n == Stream!Drained(k, may)
    <3>3. n = Stream!Drained(k, may) /\ viewers' = [viewers EXCEPT ![c] = n]
      BY <3>2
    <3> HIDE DEF n, k
    <3>4. Viewed(n, frame, lastFrame) /\ n.sent >= k.sent
      BY <1>0, <2>2, <3>1, <3>3, DrainKeeps
    <3> QED
      BY <2>1, <3>3, <3>4, OneViewer DEF k
  <2>5. CASE Stream!Leaves(c)
    <3> DEFINE n == [k EXCEPT !.link = "gone"]
    <3>1. viewers' = [viewers EXCEPT ![c] = n]
      BY <2>5, Zenon DEF Stream!Leaves
    <3>2. /\ n \in Stream!ClientStates /\ n.link = "gone" /\ n.sent = k.sent
          /\ n.buffered = k.buffered /\ n.pending = k.pending
          /\ n.backpressured = k.backpressured
      BY <2>2, Zenon DEF Stream!ClientStates
    <3> HIDE DEF n, k
    <3>3. Viewed(n, frame, lastFrame)
      BY <2>2, <3>2 DEF Viewed, ViewerFits, InOrder, Newest
    <3> QED
      BY <2>1, <3>1, <3>2, <3>3, OneViewer DEF k
  <2>6. CASE Stream!ClientClose(c)
    <3>1. viewers' = [viewers EXCEPT ![c] = Stream!NoClient]
      BY <2>6, Zenon DEF Stream!ClientClose
    <3>2. Viewed(Stream!NoClient, frame, lastFrame)
      BY <1>0, NoClientViewed
    <3>3. Stream!NoClient.link # "on"
      BY DEF Stream!NoClient
    <3> QED
      BY <2>1, <3>1, <3>2, <3>3, OneViewer
  <2> QED
    BY <1>7, <2>3, <2>4, <2>5, <2>6
<1>8. CASE UNCHANGED streamVars
  <2>1. UNCHANGED <<process, ffmpegProc, running, restart, frame, lastFrame, viewers>>
    BY <1>8, Zenon DEF streamVars
  <2>2. StreamInv'
    BY <2>1, Zenon DEF StreamInv, Stream!TypeOK
  <2> QED
    BY <1>1, <2>1, <2>2
<1> QED
  BY <1>2, <1>4, <1>5, <1>6, <1>7, <1>8, Zenon DEF Stream!Next, Stream!Capturing

-----------------------------------------------------------------------------
(* The recordings.  An ffmpeg that runs, or is being spawned, belongs to a *)
(* recording that counts as active; the active ones are bounded.           *)
Starting == {r \in Recordings : proc[r] \in {"spawning", "live"}}

RecordingInv ==
  /\ Recording!TypeOK
  /\ Starting \subseteq Recording!Active
  /\ Cardinality(Recording!Active) <= MaxRecordings
  /\ \A r \in Recording!Running : path[r] \in files

(* The instance counts as this module does.                                *)
LEMMA CountsAgree == ASSUME NEW S PROVE Recording!Cardinality(S) = Cardinality(S)
  BY DEF Cardinality, Recording!Cardinality

LEMMA ActiveFinite == IsFiniteSet(Recording!Active) /\ Cardinality(Recording!Active) \in Nat
<1>1. Recording!Active \in SUBSET Recordings /\ IsFiniteSet(Recordings)
  BY WebAssumption, Zenon DEF WebAssumption, Recording!Active
<1>2. IsFiniteSet(Recording!Active)
  BY <1>1, FS_Subset
<1> QED
  BY <1>2, FS_CardinalityType

(* What is no more active than before is as bounded.                       *)
LEMMA StaysBounded ==
  ASSUME Cardinality(Recording!Active) <= MaxRecordings,
         Recording!Active' \subseteq Recording!Active
  PROVE  (Cardinality(Recording!Active) <= MaxRecordings)'
<1> DEFINE A == Recording!Active
           B == Recording!Active'
<1>1. IsFiniteSet(A) /\ Cardinality(A) \in Nat /\ B \in SUBSET A
  BY ActiveFinite
<1> HIDE DEF A, B
<1>2. Cardinality(B) <= Cardinality(A) /\ IsFiniteSet(B)
  BY <1>1, FS_Subset
<1>3. Cardinality(B) \in Nat /\ MaxRecordings \in Nat
  BY <1>2, FS_CardinalityType, WebAssumption DEF WebAssumption
<1>4. Cardinality(A) <= MaxRecordings
  BY DEF A
<1>5. Cardinality(B) <= MaxRecordings
  BY <1>1, <1>2, <1>3, <1>4
<1> QED
  BY <1>5 DEF B

LEMMA RecordingStarts == Recording!Init => RecordingInv
<1> SUFFICES ASSUME Recording!Init
             PROVE  RecordingInv
  OBVIOUS
<1>1. Recording!TypeOK
  BY Zenon DEF Recording!Init, Recording!TypeOK, Recording!States, Recording!Procs
<1>2. Recording!Active = {} /\ Starting = {} /\ Recording!Running = {}
  BY DEF Recording!Init, Recording!Active, Starting, Recording!Running
<1>3. Cardinality(Recording!Active) <= MaxRecordings
  BY <1>2, FS_EmptySet, WebAssumption DEF WebAssumption
<1> QED
  BY <1>1, <1>2, <1>3 DEF RecordingInv

LEMMA RecordingKept ==
  ASSUME RecordingInv, Recording!Next \/ UNCHANGED recordingVars
  PROVE  RecordingInv'
<1>1. CASE Recording!clearAllRecordings
  <2>1. Starting = {} /\ Recording!Active = {}
    BY <1>1, Zenon DEF RecordingInv, Recording!clearAllRecordings
  <2>2. /\ recState' = [r \in Recordings |-> "idle"] /\ files' \subseteq files
        /\ UNCHANGED <<path, proc, clean>>
    BY <1>1, Zenon DEF Recording!clearAllRecordings
  <2>3. Recording!TypeOK'
    BY <2>2, Zenon DEF RecordingInv, Recording!TypeOK, Recording!States
  <2>4. Starting' = {} /\ Recording!Running' = {} /\ Recording!Active' = {}
    BY <2>1, <2>2 DEF Starting, Recording!Running, Recording!Active
  <2>5. (Cardinality(Recording!Active) <= MaxRecordings)'
    BY <2>1, <2>4, StaysBounded DEF RecordingInv
  <2> QED
    BY <2>3, <2>4, <2>5 DEF RecordingInv
<1>2. ASSUME NEW r \in Recordings, Recording!startRecording(r)
      PROVE  RecordingInv'
  <2>1. /\ recState[r] = "idle" /\ proc[r] = "none"
        /\ Cardinality(Recording!Active) < MaxRecordings
        /\ recState' = [recState EXCEPT ![r] = "recording"]
        /\ clean' = [clean EXCEPT ![r] = TRUE]
    BY <1>2, CountsAgree, Zenon DEF Recording!startRecording
  <2>2. PICK f \in Paths, p \in {"spawning", "live"} :
          /\ path' = [path EXCEPT ![r] = f]
          /\ proc' = [proc EXCEPT ![r] = p]
          /\ files' = IF p = "live" THEN files \cup {f} ELSE files
    BY <1>2, Zenon DEF Recording!startRecording
  <2>3. Recording!TypeOK'
    BY <2>1, <2>2, Zenon
    DEF RecordingInv, Recording!TypeOK, Recording!States, Recording!Procs
  <2>4. Recording!Active' = Recording!Active \cup {r}
    BY <2>1, Zenon DEF RecordingInv, Recording!TypeOK, Recording!Active
  <2>5. Starting' = Starting \cup {r}
    BY <2>1, <2>2, Zenon DEF RecordingInv, Recording!TypeOK, Starting
  <2>6. ASSUME NEW e \in Recording!Running'
        PROVE  path'[e] \in files'
    <3>1. CASE e = r
      BY <2>1, <2>2, <2>6, <3>1, Zenon DEF RecordingInv, Recording!TypeOK, Recording!Running
    <3>2. CASE e # r
      BY <2>1, <2>2, <2>6, <3>2, Zenon DEF RecordingInv, Recording!TypeOK, Recording!Running
    <3> QED
      BY <3>1, <3>2
  <2>7. (Cardinality(Recording!Active) <= MaxRecordings)'
    <3> DEFINE A == Recording!Active
    <3>1. r \notin A
      BY <2>1 DEF Recording!Active
    <3>2. IsFiniteSet(A) /\ Cardinality(A) \in Nat
      BY ActiveFinite
    <3>3. Cardinality(A) < MaxRecordings /\ MaxRecordings \in Nat
      BY <2>1, WebAssumption DEF WebAssumption
    <3> HIDE DEF A
    <3>4. Cardinality(A \cup {r}) = Cardinality(A) + 1
      BY <3>1, <3>2, FS_AddElement
    <3>5. Cardinality(A \cup {r}) <= MaxRecordings
      BY <3>2, <3>3, <3>4
    <3> QED
      BY <2>4, <3>5 DEF A
  <2> QED
    BY <2>3, <2>4, <2>5, <2>6, <2>7, Zenon DEF RecordingInv
<1>3. ASSUME NEW r \in Recordings,
             Recording!SpawnError(r) \/ Recording!stopRecording(r)
               \/ Recording!Exits(r) \/ Recording!Close(r)
      PROVE  RecordingInv'
  <2>1. UNCHANGED <<path, files>>
    BY <1>3, Zenon
    DEF Recording!SpawnError, Recording!stopRecording, Recording!Exits, Recording!Close
  <2>2. Recording!TypeOK'
    <3>1. CASE Recording!SpawnError(r) \/ Recording!stopRecording(r)
      BY <2>1, <3>1, Zenon
      DEF RecordingInv, Recording!TypeOK, Recording!States, Recording!Procs,
          Recording!SpawnError, Recording!stopRecording
    <3>2. CASE Recording!Exits(r)
      BY <2>1, <3>2, Zenon
      DEF RecordingInv, Recording!TypeOK, Recording!Procs, Recording!Exits
    <3>3. CASE Recording!Close(r)
      <4>1. Recording!Final(recState[r]) \in Recording!States
        BY DEF RecordingInv, Recording!TypeOK, Recording!Final, Recording!States
      <4> QED
        BY <2>1, <3>3, <4>1, Zenon
        DEF RecordingInv, Recording!TypeOK, Recording!Procs, Recording!Close
    <3> QED
      BY <1>3, <3>1, <3>2, <3>3
  <2>3. /\ Starting' \subseteq Starting /\ Recording!Running' \subseteq Recording!Running
        /\ Recording!Active' \subseteq Recording!Active
        /\ Starting' \subseteq Recording!Active'
    <3>0. /\ recState \in [Recordings -> Recording!States]
          /\ proc \in [Recordings -> Recording!Procs] /\ Starting \subseteq Recording!Active
      BY DEF RecordingInv, Recording!TypeOK
    <3>1. CASE Recording!SpawnError(r)
      BY <3>0, <3>1
      DEF Starting, Recording!Running, Recording!Active, Recording!SpawnError
    <3>2. CASE Recording!stopRecording(r)
      BY <3>0, <3>2
      DEF Starting, Recording!Running, Recording!Active, Recording!stopRecording
    <3>3. CASE Recording!Exits(r)
      BY <3>0, <3>3
      DEF Starting, Recording!Running, Recording!Active, Recording!Exits
    <3>4. CASE Recording!Close(r)
      <4>1. recState' = [recState EXCEPT ![r] = Recording!Final(recState[r])]
            /\ proc' = [proc EXCEPT ![r] = "none"] /\ proc[r] = "closing"
        BY <3>4 DEF Recording!Close
      <4>2. Recording!Final(recState[r]) \notin {"recording", "stopping"}
        BY <3>0 DEF Recording!Final, Recording!States
      <4> QED
        BY <3>0, <4>1, <4>2
        DEF Starting, Recording!Running, Recording!Active
    <3> QED
      BY <1>3, <3>1, <3>2, <3>3, <3>4
  <2>4. (Cardinality(Recording!Active) <= MaxRecordings)'
    BY <2>3, StaysBounded DEF RecordingInv
  <2> QED
    BY <2>1, <2>2, <2>3, <2>4, Zenon DEF RecordingInv
<1>4. CASE UNCHANGED recordingVars
  <2>1. Recording!Active' \subseteq Recording!Active
    BY <1>4 DEF recordingVars, Recording!Active
  <2>2. (Cardinality(Recording!Active) <= MaxRecordings)'
    BY <2>1, StaysBounded DEF RecordingInv
  <2> QED
    BY <1>4, <2>2, Zenon
    DEF RecordingInv, recordingVars, Recording!TypeOK, Starting, Recording!Running,
        Recording!Active
<1> QED
  BY <1>1, <1>2, <1>3, <1>4, Zenon DEF Recording!Next

(* No more ffmpegs run than recordings are active.                         *)
LEMMA RecordingBound == RecordingInv => Recording!RecordingsBounded
<1> SUFFICES ASSUME RecordingInv
             PROVE  Recording!RecordingsBounded
  OBVIOUS
<1> DEFINE A == Recording!Active
           R == Recording!Running
<1>1. R \in SUBSET A
  BY DEF RecordingInv, Starting, Recording!Running
<1>2. IsFiniteSet(A) /\ Cardinality(A) \in Nat
  BY ActiveFinite
<1>3. Cardinality(A) <= MaxRecordings /\ MaxRecordings \in Nat
  BY WebAssumption DEF WebAssumption, RecordingInv
<1> HIDE DEF A, R
<1>4. Cardinality(R) <= Cardinality(A) /\ IsFiniteSet(R)
  BY <1>1, <1>2, FS_Subset
<1>5. Cardinality(R) \in Nat
  BY <1>4, FS_CardinalityType
<1>6. Cardinality(R) <= MaxRecordings
  BY <1>2, <1>3, <1>4, <1>5
<1> QED
  BY <1>6, CountsAgree DEF RecordingInv, Recording!RecordingsBounded, R

-----------------------------------------------------------------------------
(* The sidecar, in the composition.  Only its own part moves it.           *)
LEMMA SidecarMoves ==
  [MCNext]_<<part, vars, streamVars, recordingVars, captureVars, viewerVars>>
    => /\ Stream!Next \/ UNCHANGED streamVars
       /\ Recording!Next \/ UNCHANGED recordingVars
  BY Zenon DEF MCNext

LEMMA SidecarInvariance == MCSpec => [](StreamInv /\ RecordingInv)
<1>1. MCInit => StreamInv /\ RecordingInv
  BY StreamStarts, RecordingStarts, Zenon DEF MCInit
<1>2. /\ StreamInv /\ RecordingInv
      /\ [MCNext]_<<part, vars, streamVars, recordingVars, captureVars, viewerVars>>
      => (StreamInv /\ RecordingInv)'
  BY SidecarMoves, StreamKept, RecordingKept, Zenon
<1> QED
  BY <1>1, <1>2, PTL DEF MCSpec

(* The sidecar bounds the frames a response is given and the recordings    *)
(* that run, for any number of either, and every slow viewer has the       *)
(* newest frame waiting.                                                   *)
THEOREM SidecarStaysSound == MCSpec => []SidecarSound
<1>1. StreamInv => Stream!TypeOK /\ Stream!LatestWaits
  BY Zenon DEF StreamInv, Viewed, Newest, Stream!LatestWaits
<1>2. RecordingInv => Recording!TypeOK /\ Recording!RecordingsBounded
  BY RecordingBound DEF RecordingInv
<1>3. StreamInv /\ RecordingInv => SidecarSound
  BY <1>1, <1>2 DEF SidecarSound
<1> QED
  BY <1>3, SidecarInvariance, PTL

(* No step sends a viewer an older frame than it has been sent.            *)
THEOREM FramesStayInOrder == MCSpec => FramesInOrder
<1>1. /\ StreamInv
      /\ [MCNext]_<<part, vars, streamVars, recordingVars, captureVars, viewerVars>>
      => [FramesAdvance]_streamVars
  BY SidecarMoves, StreamKept, Zenon
<1>2. FramesInOrder <=> [][FramesAdvance]_streamVars
  BY DEF FramesInOrder, FramesAdvance
<1> QED
  BY <1>1, <1>2, SidecarInvariance, PTL DEF MCSpec

-----------------------------------------------------------------------------
(* The viewer of the stream pane.                                          *)

(* nextHigherFps returns the level it is given.                            *)
LEMMA NextHigherSame ==
  ASSUME NEW f \in Viewer!Levels
  PROVE  Viewer!NextHigher(f) = f
<1> DEFINE S == {l \in Viewer!Levels : f <= l} \cup {60}
<1>1. f \in S /\ \A l \in S : f <= l /\ l \in Nat
  BY SMT DEF Viewer!Levels
<1>2. Viewer!NextHigher(f) = CHOOSE x \in S : \A y \in S : x <= y
  BY Zenon DEF Viewer!NextHigher, Viewer!Min
<1>3. f \in Nat
  BY <1>1
<1> HIDE DEF S
<1>4. PICK x \in S : x = Viewer!NextHigher(f) /\ \A y \in S : x <= y
  BY <1>1, <1>2, Zenon
<1> QED
  BY <1>1, <1>3, <1>4

LEMMA TicksRange == 0..(Viewer!StableTicks - 1) = 0..4
  BY SMT DEF Viewer!StableTicks

LEMMA ViewerStarts == Viewer!Init => Viewer!TypeOK
<1>1. 30 \in Viewer!Levels /\ 0 \in 0..4
  BY SMT DEF Viewer!Levels
<1> QED
  BY <1>1, TicksRange, Zenon DEF Viewer!Init, Viewer!TypeOK, Viewer!Modes

LEMMA ResyncTypes ==
  ASSUME Viewer!TypeOK, NEW asked, Viewer!Resync(asked)
  PROVE  recent' \in BOOLEAN /\ reloadKey' \in {0, 1}
<1>1. CASE asked /\ viewerEnabled /\ ~recent
  BY <1>1, SMT DEF Viewer!TypeOK, Viewer!Resync
<1>2. CASE ~(asked /\ viewerEnabled /\ ~recent)
  BY <1>2, Zenon DEF Viewer!TypeOK, Viewer!Resync
<1> QED
  BY <1>1, <1>2

LEMMA AdjustTypes ==
  ASSUME Viewer!TypeOK, Viewer!MaybeAutoAdjust
  PROVE  /\ autoMaxFps' \in Viewer!Levels /\ stableImproveTicks' \in 0..4
         /\ recent' \in BOOLEAN /\ reloadKey' \in {0, 1}
<1> DEFINE ticks == stableImproveTicks + 1
           up == load > autoMaxFps /\ ticks = Viewer!StableTicks
<1>1. /\ stableImproveTicks' = IF load > autoMaxFps /\ ~up THEN ticks ELSE 0
      /\ autoMaxFps' = IF load < autoMaxFps THEN load
                       ELSE IF up THEN Viewer!NextHigher(autoMaxFps) ELSE autoMaxFps
      /\ Viewer!Resync(high \/ load < autoMaxFps \/ up)
  BY Zenon DEF Viewer!MaybeAutoAdjust
<1>2. autoMaxFps \in Viewer!Levels /\ load \in Viewer!Levels /\ stableImproveTicks \in 0..4
  BY SMT DEF Viewer!TypeOK, Viewer!StableTicks
<1>3. autoMaxFps' \in Viewer!Levels
  BY <1>1, <1>2, NextHigherSame, Zenon
<1>4. stableImproveTicks' \in 0..4
  <2>1. stableImproveTicks' = 0 \/ (stableImproveTicks' = ticks /\ ticks # 5)
    BY <1>1, Zenon DEF Viewer!StableTicks
  <2> QED
    BY <1>2, <2>1, SMT
<1> QED
  BY <1>1, <1>3, <1>4, ResyncTypes, Zenon

LEMMA ViewerKept ==
  ASSUME Viewer!TypeOK, Viewer!Next \/ UNCHANGED viewerVars
  PROVE  Viewer!TypeOK'
<1> DEFINE Flags == {viewerEnabled, showControls, polling, inFlight, recent, high} \subseteq BOOLEAN
           Counts == /\ fpsMode \in Viewer!Modes /\ autoMaxFps \in Viewer!Levels
                     /\ load \in Viewer!Levels /\ stableImproveTicks \in 0..4
                     /\ reloadKey \in {0, 1}
           Polled == polling = (viewerEnabled \/ showControls)
<1>A. Flags /\ Counts /\ Polled
  BY TicksRange, Zenon DEF Viewer!TypeOK
<1>B. Flags' /\ Counts' /\ Polled' => Viewer!TypeOK'
  BY TicksRange, Zenon DEF Viewer!TypeOK
<1>1. CASE Viewer!Poll \/ Viewer!AnsweredWithout
  <2>1. /\ inFlight' \in BOOLEAN
        /\ UNCHANGED <<viewerEnabled, showControls, fpsMode, autoMaxFps, stableImproveTicks,
                       load, high, polling, recent, reloadKey>>
    BY <1>1, Zenon DEF Viewer!Poll, Viewer!AnsweredWithout, Viewer!controls, Viewer!sidecar
  <2> QED
    BY <1>A, <1>B, <2>1, Zenon
<1>2. CASE Viewer!Answered
  <2>1. UNCHANGED <<viewerEnabled, showControls, fpsMode, load, high, polling>> /\ inFlight' = FALSE
    BY <1>2, Zenon DEF Viewer!Answered, Viewer!controls, Viewer!sidecar
  <2>2. Viewer!MaybeAutoAdjust \/ UNCHANGED <<autoMaxFps, stableImproveTicks, recent, reloadKey>>
    BY <1>2, Zenon DEF Viewer!Answered
  <2>3. /\ autoMaxFps' \in Viewer!Levels /\ stableImproveTicks' \in 0..4
        /\ recent' \in BOOLEAN /\ reloadKey' \in {0, 1}
    BY <1>A, <1>B, <2>2, AdjustTypes, Zenon
  <2> QED
    BY <1>A, <1>B, <2>1, <2>3, Zenon
<1>3. ASSUME NEW on \in BOOLEAN, Viewer!SetEnabled(on)
      PROVE  Viewer!TypeOK'
  <2>1. /\ viewerEnabled' = on /\ polling' = (on \/ showControls)
        /\ inFlight' \in BOOLEAN
        /\ UNCHANGED <<showControls, fpsMode, autoMaxFps, stableImproveTicks, load, high, recent>>
    BY <1>3, Zenon DEF Viewer!SetEnabled, Viewer!Polls, Viewer!sidecar
  <2>2. reloadKey' \in {1 - reloadKey, reloadKey}
    BY <1>3, Zenon DEF Viewer!SetEnabled
  <2>3. reloadKey' \in {0, 1}
    BY <1>A, <1>B, <2>2, SMT
  <2>4. Flags' /\ Polled'
    BY <1>A, <1>B, <2>1, Zenon
  <2> QED
    BY <1>A, <1>B, <2>1, <2>3, <2>4, Zenon
<1>4. CASE Viewer!ToggleControls
  <2>1. /\ showControls' = ~showControls /\ polling' = (viewerEnabled \/ showControls')
        /\ inFlight' \in BOOLEAN
        /\ UNCHANGED <<viewerEnabled, fpsMode, autoMaxFps, stableImproveTicks, load, high, recent,
                       reloadKey>>
    BY <1>4, Zenon DEF Viewer!ToggleControls, Viewer!Polls, Viewer!sidecar
  <2>2. Flags' /\ Polled'
    BY <1>A, <1>B, <2>1, Zenon
  <2> QED
    BY <1>A, <1>B, <2>1, <2>2, Zenon
<1>5. ASSUME NEW mode \in Viewer!Modes, Viewer!SetMode(mode)
      PROVE  Viewer!TypeOK'
  <2>1. /\ fpsMode' = mode /\ Viewer!Resync(TRUE)
        /\ UNCHANGED <<viewerEnabled, showControls, autoMaxFps, stableImproveTicks, load, high,
                       polling, inFlight>>
    BY <1>5, Zenon DEF Viewer!SetMode, Viewer!controls, Viewer!sidecar, Viewer!fetch
  <2>2. recent' \in BOOLEAN /\ reloadKey' \in {0, 1}
    BY <2>1, ResyncTypes
  <2> QED
    BY <1>A, <1>B, <2>1, <2>2, Zenon
<1>6. CASE Viewer!Elapses
  BY <1>A, <1>B, <1>6, Zenon DEF Viewer!Elapses, Viewer!controls, Viewer!sidecar, Viewer!fetch
<1>7. ASSUME NEW l \in Viewer!Levels, NEW h \in BOOLEAN, Viewer!LoadChanges(l, h)
      PROVE  Viewer!TypeOK'
  BY <1>A, <1>B, <1>7, Zenon DEF Viewer!LoadChanges, Viewer!controls, Viewer!fetch
<1>8. CASE UNCHANGED viewerVars
  BY <1>A, <1>B, <1>8, Zenon DEF viewerVars
<1> QED
  BY <1>1, <1>2, <1>3, <1>4, <1>5, <1>6, <1>7, <1>8, Zenon DEF Viewer!Next

-----------------------------------------------------------------------------
(* Numbers and sequences.                                                  *)

(* Positions have a last one: of the intervals from each of them to n, one *)
(* contains no other.                                                      *)
LEMMA LastExists ==
  ASSUME NEW n \in Nat, NEW S, S \subseteq 1..n, S # {}
  PROVE  \E i \in S : \A j \in S : j <= i
<1> DEFINE F == {i..n : i \in S}
           R == StrictSubsetOrdering(1..n)
<1>1. IsWellFoundedOn(R, FiniteSubsetsOf(1..n))
  BY FS_StrictSubsetOrderingWellFounded
<1>2. IsFiniteSet(1..n)
  BY FS_Interval
<1>3. FiniteSubsetsOf(1..n) = SUBSET (1..n)
  BY <1>2, FS_FiniteSubsetsOfFinite
<1>4. \A i \in S : i..n \subseteq 1..n
  BY SMT
<1>5. F \subseteq FiniteSubsetsOf(1..n) /\ F # {}
  <2>1. ASSUME NEW x \in F
        PROVE  x \in FiniteSubsetsOf(1..n)
    <3>1. PICK i \in S : x = i..n
      BY <2>1
    <3> QED
      BY <1>3, <1>4, <3>1
  <2>2. PICK i \in S : TRUE
    OBVIOUS
  <2>3. i..n \in F
    OBVIOUS
  <2> QED
    BY <2>1, <2>3
<1> HIDE DEF R
<1>6. \E x \in F : \A y \in F : ~ (<<y, x>> \in R)
  <2> HIDE DEF F
  <2> QED
    BY <1>1, <1>5, WFMin
<1>7. PICK i \in S : \A y \in F : ~ (<<y, i..n>> \in R)
  BY <1>6, Zenon
<1>8. ASSUME NEW j \in S, i < j
      PROVE  FALSE
  <2>1. j..n \in F /\ j..n \subseteq i..n /\ i \in i..n /\ i \notin j..n
    BY <1>8, SMT
  <2>2. j..n # i..n
    BY <2>1
  <2>3. <<j..n, i..n>> \in (SUBSET (1..n)) \X (SUBSET (1..n))
    BY <1>4, Zenon
  <2>4. <<j..n, i..n>> \in R
    BY <2>1, <2>2, <2>3 DEF R, StrictSubsetOrdering
  <2> QED
    BY <1>7, <2>1, <2>4
<1>9. \A j \in S : j <= i
  BY <1>8, SMT
<1> QED
  BY <1>9

LEMMA MaxIsLast ==
  ASSUME NEW n \in Nat, NEW S, S \subseteq 1..n, S # {}
  PROVE  Capture!Max(S) \in S /\ \A j \in S : j <= Capture!Max(S)
<1>1. PICK i \in S : \A j \in S : j <= i
  BY LastExists
<1>2. \E x \in S : \A y \in S : x >= y
  BY <1>1, SMT
<1>3. PICK m \in S : m = Capture!Max(S) /\ \A y \in S : m >= y
  BY <1>2, Zenon DEF Capture!Max
<1> QED
  BY <1>3, SMT

LEMMA MinOfTwo ==
  ASSUME NEW m \in Nat, NEW n \in Nat
  PROVE  Capture!Min({m, n}) \in {m, n} /\ Capture!Min({m, n}) <= m
<1>1. \E x \in {m, n} : \A y \in {m, n} : x <= y
  BY SMT
<1>2. PICK x \in {m, n} : x = Capture!Min({m, n}) /\ \A y \in {m, n} : x <= y
  BY <1>1, Zenon DEF Capture!Min
<1> QED
  BY <1>2, SMT

(* SetToSeq lists every element of a finite set, and nothing else.         *)
LEMMA SetListed ==
  ASSUME NEW S, IsFiniteSet(S), NEW q, q = Capture!SetToSeq(S)
  PROVE  q \in Seq(S) /\ \A t \in S : \E i \in 1..Len(q) : q[i] = t
<1> DEFINE n == Cardinality(S)
<1>1. n \in Nat /\ ExistsBijection(1..n, S)
  BY FS_CardinalityType
<1>2. Capture!Cardinality(S) = n
  BY DEF Cardinality, Capture!Cardinality
<1>3. \A f : Capture!IsInjective(f) <=> IsInjective(f)
  BY Zenon DEF IsInjective, Capture!IsInjective
<1>4. IsFiniteSet(1..n) /\ Cardinality(1..n) = n
  BY <1>1, FS_Interval, SMT
<1> HIDE DEF n
<1>5. \E f \in [1..n -> S] : Capture!IsInjective(f)
  BY <1>1, <1>3, Zenon DEF ExistsBijection, Bijection, Injection
<1>6. q \in [1..n -> S] /\ IsInjective(q)
  BY <1>2, <1>3, <1>5, Zenon DEF Capture!SetToSeq
<1>7. q \in Injection(1..n, S)
  BY <1>6 DEF Injection
<1>8. q \in Surjection(1..n, S)
  BY <1>4, <1>7, FS_Injection DEF n
<1>9. q \in Seq(S)
  BY <1>1, <1>6, SeqDef
<1>10. Len(q) = n
  BY <1>1, <1>6, <1>9, LenProperties, SMT
<1>11. \A t \in S : \E i \in 1..n : q[i] = t
  BY <1>8, Zenon DEF Surjection
<1> QED
  BY <1>9, <1>10, <1>11

-----------------------------------------------------------------------------
(* The mouse's queue at the machine.  A control comes down if the last     *)
(* operation on it presses it, or if none is queued and it is down.        *)
Ops == [what : {"down", "up"}, button : Buttons]
Controls == Buttons \cup Modifiers \cup Panel

PressedLast(q, c) ==
  \E i \in 1..Len(q) : /\ q[i].what = "down" /\ q[i].button = c
                       /\ \A j \in 1..Len(q) : q[j].button = c => j <= i
Unheard(q, c) == \A i \in 1..Len(q) : q[i].button # c
Comes(q, d, c) == PressedLast(q, c) \/ (Unheard(q, c) /\ c \in d)

LEMMA WillCome ==
  ASSUME queue \in Seq(Ops), NEW c \in Capture!WillBeDown
  PROVE  c \in Controls /\ Comes(queue, down, c)
<1> DEFINE S == {i \in DOMAIN queue : queue[i].button = c}
<1>1. /\ c \in Controls
      /\ IF S = {} THEN c \in down ELSE queue[Capture!Max(S)].what = "down"
  BY Zenon DEF Capture!WillBeDown, Controls
<1>2. DOMAIN queue = 1..Len(queue) /\ Len(queue) \in Nat
  BY LenProperties
<1>3. CASE S = {}
  BY <1>1, <1>2, <1>3, Zenon DEF Comes, Unheard
<1>4. CASE S # {}
  <2>1. S \subseteq 1..Len(queue)
    BY <1>2
  <2>2. Capture!Max(S) \in S /\ \A j \in S : j <= Capture!Max(S)
    BY <1>2, <1>4, <2>1, MaxIsLast
  <2> QED
    BY <1>1, <1>2, <1>4, <2>2, Zenon DEF Comes, PressedLast
<1> QED
  BY <1>3, <1>4

(* What is down and in no release of the queue comes down.                 *)
LEMMA DownComes ==
  ASSUME queue \in Seq(Ops), NEW c \in down, c \notin Capture!Released(queue)
  PROVE  Comes(queue, down, c)
<1> DEFINE S == {i \in 1..Len(queue) : queue[i].button = c}
<1>1. DOMAIN queue = 1..Len(queue) /\ Len(queue) \in Nat
  BY LenProperties
<1>2. ASSUME NEW i \in S
      PROVE  queue[i].what = "down"
  <2>1. queue[i] \in Ops
    BY ElementOfSeq
  <2>2. queue[i].what \in {"down", "up"}
    BY <2>1, Zenon DEF Ops
  <2>3. queue[i].what # "up"
    BY <1>1, Zenon DEF Capture!Released
  <2> QED
    BY <2>2, <2>3
<1>3. CASE S = {}
  BY <1>3, Zenon DEF Comes, Unheard
<1>4. CASE S # {}
  <2>1. PICK i \in S : \A j \in S : j <= i
    BY <1>1, <1>4, LastExists
  <2> QED
    BY <1>2, <2>1, Zenon DEF Comes, PressedLast
<1> QED
  BY <1>3, <1>4

LEMMA OpTyped ==
  ASSUME NEW what \in {"down", "up"}, NEW b \in Buttons
  PROVE  /\ Capture!Op(what, b) \in Ops
         /\ Capture!Op(what, b).what = what /\ Capture!Op(what, b).button = b
         /\ Capture!Op(what, b) # Capture!Cancel
  BY Zenon DEF Capture!Op, Capture!Cancel, Ops

(* An operation behind the others decides.                                 *)
LEMMA OneMore ==
  ASSUME NEW q \in Seq(Ops), NEW x \in Ops, NEW d, NEW c,
         NEW r, r = q \o <<x>>, Comes(r, d, c)
  PROVE  IF x.button = c THEN x.what = "down" ELSE Comes(q, d, c)
<1> DEFINE n == Len(q)
<1>1. <<x>> \in Seq(Ops) /\ Len(<<x>>) = 1 /\ <<x>>[1] = x
  BY SMT
<1>2. /\ n \in Nat /\ Len(r) = n + 1
      /\ \A i \in 1..(n + 1) : r[i] = IF i <= n THEN q[i] ELSE <<x>>[i - n]
  BY <1>1, ConcatProperties, LenProperties
<1>3. r[n + 1] = x /\ \A i \in 1..n : r[i] = q[i]
  BY <1>1, <1>2
<1> HIDE DEF n
<1>4. CASE PressedLast(r, c)
  <2>1. PICK i \in 1..(n + 1) : /\ r[i].what = "down" /\ r[i].button = c
                                /\ \A j \in 1..(n + 1) : r[j].button = c => j <= i
    BY <1>2, <1>4, Zenon DEF PressedLast
  <2>2. CASE x.button = c
    <3>1. i = n + 1
      BY <1>2, <1>3, <2>1, <2>2
    <3> QED
      BY <1>3, <2>1, <2>2, <3>1
  <2>3. CASE x.button # c
    <3>1. i \in 1..n
      BY <1>2, <1>3, <2>1, <2>3
    <3>2. \A j \in 1..n : q[j].button = c => j <= i
      BY <1>2, <1>3, <2>1
    <3>3. q[i].what = "down" /\ q[i].button = c
      BY <1>3, <2>1, <3>1
    <3> QED
      BY <2>3, <3>1, <3>2, <3>3, Zenon DEF Comes, PressedLast, n
  <2> QED
    BY <2>2, <2>3
<1>5. CASE Unheard(r, c) /\ c \in d
  <2>1. x.button # c /\ \A i \in 1..n : q[i].button # c
    BY <1>2, <1>3, <1>5 DEF Unheard
  <2> QED
    BY <1>5, <2>1, Zenon DEF Comes, Unheard, n
<1> QED
  BY <1>4, <1>5 DEF Comes

(* The machine does what is first in the queue.                            *)
LEMMA OneDone ==
  ASSUME NEW q \in Seq(Ops), q # <<>>, NEW d, NEW e, NEW c,
         e = IF Head(q).what = "down" THEN d \cup {Head(q).button}
             ELSE d \ {Head(q).button},
         NEW t, t = Tail(q), Comes(t, e, c)
  PROVE  Comes(q, d, c)
<1> DEFINE n == Len(q)
           h == Head(q)
<1>1. /\ n \in Nat /\ n > 0 /\ Len(t) = n - 1 /\ h = q[1] /\ h \in Ops
      /\ \A i \in 1..(n - 1) : t[i] = q[i + 1]
  BY HeadTailProperties, LenProperties, EmptySeq
<1> HIDE DEF n, h
<1>2. CASE PressedLast(t, c)
  <2>1. PICK i \in 1..(n - 1) : /\ t[i].what = "down" /\ t[i].button = c
                                /\ \A j \in 1..(n - 1) : t[j].button = c => j <= i
    BY <1>1, <1>2, Zenon DEF PressedLast
  <2>2. i + 1 \in 1..n /\ q[i + 1].what = "down" /\ q[i + 1].button = c
    BY <1>1, <2>1
  <2>3. ASSUME NEW j \in 1..n, q[j].button = c
        PROVE  j <= i + 1
    <3>1. CASE j = 1
      BY <2>1, <3>1
    <3>2. CASE j # 1
      <4>1. j - 1 \in 1..(n - 1) /\ t[j - 1] = q[j]
        BY <1>1, <3>2
      <4>2. j - 1 <= i
        BY <2>1, <2>3, <4>1
      <4> QED
        BY <4>2
    <3> QED
      BY <3>1, <3>2
  <2> QED
    BY <2>2, <2>3, Zenon DEF Comes, PressedLast, n
<1>3. CASE Unheard(t, c) /\ c \in e
  <2>1. ASSUME NEW j \in 1..n, j # 1
        PROVE  q[j].button # c
    <3>1. j - 1 \in 1..(n - 1) /\ t[j - 1] = q[j]
      BY <1>1, <2>1
    <3> QED
      BY <1>1, <1>3, <3>1 DEF Unheard
  <2>2. CASE h.button = c
    <3>1. h.what = "down"
      BY <1>3, <2>2 DEF h
    <3>2. 1 \in 1..n /\ q[1].what = "down" /\ q[1].button = c
      BY <1>1, <2>2, <3>1
    <3>3. \A j \in 1..n : q[j].button = c => j <= 1
      BY <2>1
    <3> QED
      BY <3>2, <3>3, Zenon DEF Comes, PressedLast, n
  <2>3. CASE h.button # c
    <3>1. c \in d
      BY <1>3, <2>3 DEF h
    <3>2. \A j \in 1..n : q[j].button # c
      BY <1>1, <2>1, <2>3
    <3> QED
      BY <3>1, <3>2, Zenon DEF Comes, Unheard, n
  <2> QED
    BY <2>2, <2>3
<1> QED
  BY <1>2, <1>3 DEF Comes

-----------------------------------------------------------------------------
(* What a handler's messages come to.                                      *)
LEMMA NoMessage ==
  ASSUME queue \in Seq(Ops)
  PROVE  /\ Capture!Queued(<<>>) = queue
         /\ Capture!Released(<<>>) = {} /\ Capture!Cancelled(<<>>) = {}
<1>1. DOMAIN <<>> = {}
  BY SMT
<1>2. queue \o <<>> = queue
  BY ConcatEmptySeq
<1> QED
  BY <1>1, <1>2, Zenon DEF Capture!Queued, Capture!Released, Capture!Cancelled

LEMMA OneMessage ==
  ASSUME queue \in Seq(Ops), NEW x \in Ops, x # Capture!Cancel
  PROVE  /\ Capture!Queued(<<x>>) = queue \o <<x>>
         /\ Capture!Released(<<x>>) = IF x.what = "up" THEN {x.button} ELSE {}
         /\ Capture!Cancelled(<<x>>) = {}
<1> DEFINE m == <<x>>
<1>1. DOMAIN m = {1} /\ m[1] = x
  BY SMT
<1> HIDE DEF m
<1>2. Capture!Queued(m) = queue \o m /\ Capture!Cancelled(m) = {}
  BY <1>1, Zenon DEF Capture!Queued, Capture!Cancelled
<1>3. Capture!Released(m) = IF x.what = "up" THEN {x.button} ELSE {}
  BY <1>1 DEF Capture!Released
<1> QED
  BY <1>2, <1>3 DEF m

LEMMA OpsListed ==
  ASSUME NEW U, U \subseteq Ops, IsFiniteSet(U), NEW q, q = Capture!SetToSeq(U)
  PROVE  /\ q \in Seq(Ops) /\ \A i \in 1..Len(q) : q[i] \in U
         /\ \A u \in U : \E i \in 1..Len(q) : q[i] = u
<1>1. q \in Seq(U) /\ \A u \in U : \E i \in 1..Len(q) : q[i] = u
  BY SetListed
<1>2. q \in Seq(Ops)
  BY <1>1, SeqMonotonic
<1>3. \A i \in 1..Len(q) : q[i] \in U
  BY <1>1, ElementOfSeq
<1> QED
  BY <1>1, <1>2, <1>3

(* The releases of a capture's end, which stand behind its cancel.         *)
Ups == {Capture!Op("up", b) : b \in heldMouseButtons}

LEMMA ReleasesListed ==
  ASSUME heldMouseButtons \subseteq Buttons,
         NEW s, s = Capture!SetToSeq(Ups)
  PROVE  /\ s \in Seq(Ops)
         /\ \A i \in 1..Len(s) : s[i].what = "up" /\ s[i].button \in heldMouseButtons
         /\ \A b \in heldMouseButtons : \E i \in 1..Len(s) : s[i].button = b
<1> DEFINE f == [b \in heldMouseButtons |-> Capture!Op("up", b)]
<1>1. IsFiniteSet(heldMouseButtons)
  BY WebAssumption, FS_Subset DEF WebAssumption
<1>2. f \in Surjection(heldMouseButtons, Ups)
  BY Zenon DEF Surjection, Ups
<1> HIDE DEF f
<1>3. IsFiniteSet(Ups)
  BY <1>1, <1>2, FS_Surjection
<1>4. ASSUME NEW u \in Ups
      PROVE  u \in Ops /\ u.what = "up" /\ u.button \in heldMouseButtons
  <2>1. PICK b \in heldMouseButtons : u = Capture!Op("up", b)
    BY <1>4 DEF Ups
  <2> QED
    BY <2>1, OpTyped
<1>5. ASSUME NEW b \in heldMouseButtons
      PROVE  \E u \in Ups : u.button = b
  <2>1. Capture!Op("up", b) \in Ups
    BY DEF Ups
  <2>2. Capture!Op("up", b).button = b
    BY OpTyped
  <2> QED
    BY <2>1, <2>2
<1>7. Ups \subseteq Ops
  BY <1>4
<1>8. /\ s \in Seq(Ops) /\ \A i \in 1..Len(s) : s[i] \in Ups
      /\ \A u \in Ups : \E i \in 1..Len(s) : s[i] = u
  BY <1>3, <1>7, OpsListed
<1>10. ASSUME NEW b \in heldMouseButtons
       PROVE  \E i \in 1..Len(s) : s[i].button = b
  <2>1. PICK u \in Ups : u.button = b
    BY <1>5
  <2> QED
    BY <1>8, <2>1
<1> QED
  BY <1>4, <1>8, <1>10

LEMMA ReleaseMessages ==
  ASSUME queue \in Seq(Ops), heldMouseButtons \subseteq Buttons,
         NEW s, s = Capture!SetToSeq(Ups),
         NEW m, m = Capture!Releases
  PROVE  /\ Capture!Queued(m) = s
         /\ Capture!Released(m) = heldMouseButtons
         /\ Capture!Cancelled(m) = Capture!Released(queue)
<1> DEFINE C == Capture!Cancel
           All == Ops \cup {C}
           n == Len(s)
<1>1. /\ s \in Seq(Ops) /\ n \in Nat
      /\ \A i \in 1..n : s[i].what = "up" /\ s[i].button \in heldMouseButtons
      /\ \A b \in heldMouseButtons : \E i \in 1..n : s[i].button = b
  BY ReleasesListed, LenProperties
<1>2. m = <<C>> \o s
  BY Zenon DEF Capture!Releases, Ups
<1>3. C.what = "cancelAll" /\ \A x \in Ops : x # C
  <2>1. C.what = "cancelAll"
    BY Zenon DEF Capture!Cancel, Capture!Op
  <2>2. \A x \in Ops : x.what \in {"down", "up"}
    BY Zenon DEF Ops
  <2> QED
    BY <2>1, <2>2
<1> HIDE DEF C, n
<1>4. <<C>> \in Seq(All) /\ Len(<<C>>) = 1 /\ <<C>>[1] = C
  BY SMT
<1>5. s \in Seq(All)
  BY <1>1, SeqMonotonic
<1>6. /\ m \in Seq(All) /\ Len(m) = n + 1
      /\ m[1] = C /\ \A i \in 1..n : m[i + 1] = s[i]
  <2>1. /\ m \in Seq(All) /\ Len(m) = 1 + n
        /\ \A i \in 1..(1 + n) : m[i] = IF i <= 1 THEN <<C>>[i] ELSE s[i - 1]
    BY <1>2, <1>4, <1>5, ConcatProperties DEF n
  <2>2. m[1] = C
    <3>1. 1 \in 1..(1 + n) /\ 1 <= 1
      BY <1>1
    <3> QED
      BY <1>4, <2>1, <3>1
  <2>3. ASSUME NEW i \in 1..n
        PROVE  m[i + 1] = s[i]
    <3>1. i + 1 \in 1..(1 + n) /\ ~(i + 1 <= 1) /\ (i + 1) - 1 = i
      BY <1>1
    <3> QED
      BY <2>1, <3>1
  <2> QED
    BY <1>1, <2>1, <2>2, <2>3
<1>7. DOMAIN m = 1..(n + 1)
  BY <1>6, LenProperties
<1>8. ASSUME NEW j \in 1..(n + 1), j # 1
      PROVE  /\ j - 1 \in 1..n /\ m[j] = s[j - 1] /\ m[j] \in Ops
  <2>1. j - 1 \in 1..n /\ (j - 1) + 1 = j
    BY <1>1, <1>8
  <2>2. m[j] = s[j - 1]
    BY <1>6, <2>1
  <2> QED
    BY <1>1, <2>1, <2>2, ElementOfSeq DEF n
<1>9. {i \in DOMAIN m : m[i] = C} = {1}
  <2>1. 1 \in DOMAIN m /\ m[1] = C
    BY <1>1, <1>6, <1>7
  <2>2. ASSUME NEW i \in DOMAIN m, m[i] = C
        PROVE  i = 1
    BY <1>3, <1>7, <1>8, <2>2
  <2> QED
    BY <2>1, <2>2
<1>10. Capture!Max({1}) = 1
  <2> DEFINE S == {1}
  <2>1. S \subseteq 1..1 /\ S # {} /\ 1 \in Nat
    BY SMT
  <2> HIDE DEF S
  <2>2. Capture!Max(S) \in S
    BY <2>1, MaxIsLast
  <2> QED
    BY <2>2 DEF S
<1>11. Capture!Queued(m) = SubSeq(m, 2, n + 1)
  <2>1. Capture!Queued(m) = SubSeq(m, 1 + 1, Len(m))
    BY <1>9, <1>10, Zenon DEF Capture!Queued, C
  <2> QED
    BY <1>6, <2>1
<1>12. SubSeq(m, 2, n + 1) = s
  <2>1. \A i \in 2..(n + 1) : m[i] \in Ops
    BY <1>1, <1>8
  <2>2. /\ SubSeq(m, 2, n + 1) \in Seq(Ops)
        /\ Len(SubSeq(m, 2, n + 1)) = IF 2 <= n + 1 THEN (n + 1) - 2 + 1 ELSE 0
        /\ \A i \in 1..((n + 1) - 2 + 1) : SubSeq(m, 2, n + 1)[i] = m[2 + i - 1]
    <3>1. 2 \in Int /\ n + 1 \in Int
      BY <1>1
    <3> QED
      BY <2>1, <3>1, SubSeqProperties
  <2> DEFINE t == SubSeq(m, 2, n + 1)
  <2>3. t \in Seq(Ops) /\ Len(t) = n
    BY <1>1, <2>2
  <2>4. ASSUME NEW i \in 1..n
        PROVE  t[i] = s[i]
    <3>1. i \in 1..((n + 1) - 2 + 1) /\ 2 + i - 1 = i + 1
      BY <1>1
    <3> QED
      BY <1>6, <2>2, <3>1
  <2> HIDE DEF t
  <2>5. t = s
    BY <1>1, <2>3, <2>4, SeqEqual DEF n
  <2> QED
    BY <2>5 DEF t
<1>13. \E i \in DOMAIN m : m[i] = Capture!Cancel
  BY <1>6, <1>9 DEF C
<1>14. Capture!Cancelled(m) = Capture!Released(queue)
  BY <1>13, Zenon DEF Capture!Cancelled
<1>15. Capture!Released(m) \subseteq heldMouseButtons
  <2>1. ASSUME NEW j \in DOMAIN m, m[j].what = "up"
        PROVE  m[j].button \in heldMouseButtons
    <3>1. j # 1
      BY <1>3, <1>6, <2>1
    <3> QED
      BY <1>1, <1>7, <1>8, <2>1, <3>1
  <2> QED
    BY <2>1, Zenon DEF Capture!Released
<1>16. heldMouseButtons \subseteq Capture!Released(m)
  <2>1. ASSUME NEW b \in heldMouseButtons
        PROVE  \E j \in DOMAIN m : m[j].what = "up" /\ m[j].button = b
    <3>1. PICK i \in 1..n : s[i].button = b
      BY <1>1
    <3>2. i + 1 \in DOMAIN m /\ m[i + 1] = s[i]
      BY <1>1, <1>6, <1>7
    <3> QED
      BY <1>1, <3>1, <3>2
  <2> QED
    BY <2>1, Zenon DEF Capture!Released
<1> QED
  BY <1>11, <1>12, <1>14, <1>15, <1>16

-----------------------------------------------------------------------------
(* The wire: what comes down is held, or its release was lost or taken.    *)
Wire ==
  /\ queue \in Seq(Ops) /\ Len(queue) <= MaxQueue
  /\ {down, lost, taken} \subseteq SUBSET Controls
Follows ==
  \A c \in Controls : Comes(queue, down, c) => c \in Capture!Held \cup lost \cup taken

LEMMA PressedIsButton ==
  ASSUME NEW q \in Seq(Ops), NEW c, PressedLast(q, c)
  PROVE  c \in Buttons
<1>1. PICK i \in 1..Len(q) : q[i].button = c
  BY Zenon DEF PressedLast
<1>2. q[i] \in Ops
  BY ElementOfSeq
<1> QED
  BY <1>1, <1>2, Zenon DEF Ops

(* Keys and panel buttons, which do not pass through the mouse's queue.    *)
LEMMA SendsHolds ==
  ASSUME Wire, Follows,
         NEW H, NEW R, H \subseteq Modifiers \cup Panel, R \subseteq Modifiers \cup Panel,
         Capture!Sends(<<>>, H, R),
         (Capture!Held \ R) \cup H \subseteq Capture!Held'
  PROVE  Wire' /\ Follows'
<1>1. /\ queue \in Seq(Ops) /\ Buttons \cap (Modifiers \cup Panel) = {}
      /\ down \subseteq Controls /\ lost \subseteq Controls /\ taken \subseteq Controls
  BY WebAssumption, Zenon DEF WebAssumption, Wire
<1>2. CASE online
  <2>1. /\ queue' = queue /\ down' = (down \ R) \cup H
        /\ lost' = lost \ R /\ taken' = taken
    BY <1>1, <1>2, NoMessage DEF Capture!Sends
  <2>2. Wire'
    BY <1>1, <2>1 DEF Wire, Controls
  <2>3. ASSUME NEW c \in Controls, Comes(queue', down', c)
        PROVE  c \in Capture!Held' \cup lost' \cup taken'
    <3>1. CASE PressedLast(queue, c)
      <4>1. c \in Buttons
        BY <1>1, <3>1, PressedIsButton
      <4>2. c \in Capture!Held \cup lost \cup taken
        BY <3>1, Zenon DEF Follows, Comes
      <4> QED
        BY <1>1, <2>1, <4>1, <4>2
    <3>2. CASE Unheard(queue, c) /\ c \in down'
      <4>1. CASE c \in H
        BY <4>1
      <4>2. CASE c \notin H
        <5>1. c \in down /\ c \notin R
          BY <2>1, <3>2, <4>2
        <5>2. c \in Capture!Held \cup lost \cup taken
          BY <3>2, <5>1, Zenon DEF Follows, Comes
        <5> QED
          BY <2>1, <5>1, <5>2
      <4> QED
        BY <4>1, <4>2
    <3> QED
      BY <2>1, <2>3, <3>1, <3>2, Zenon DEF Comes
  <2> QED
    BY <2>2, <2>3, Zenon DEF Follows
<1>3. CASE ~online
  <2>1. UNCHANGED <<queue, down, taken>> /\ lost' = lost \cup R
    BY <1>1, <1>3, NoMessage DEF Capture!Sends
  <2>2. Wire'
    BY <1>1, <2>1 DEF Wire, Controls
  <2>3. ASSUME NEW c \in Controls, Comes(queue', down', c)
        PROVE  c \in Capture!Held' \cup lost' \cup taken'
    <3>1. c \in Capture!Held \cup lost \cup taken
      BY <2>1, <2>3, Zenon DEF Follows
    <3> QED
      BY <2>1, <3>1
  <2> QED
    BY <2>2, <2>3, Zenon DEF Follows
<1> QED
  BY <1>2, <1>3

(* A mouse button that goes down, or up.                                   *)
LEMMA SendsButton ==
  ASSUME Wire, Follows, NEW what \in {"down", "up"}, NEW b \in Buttons,
         Capture!Sends(<<Capture!Op(what, b)>>, {}, {}),
         Capture!Held \ {b} \subseteq Capture!Held',
         what = "down" => b \in Capture!Held'
  PROVE  Wire' /\ Follows'
<1> DEFINE x == Capture!Op(what, b)
<1>1. /\ queue \in Seq(Ops)
      /\ down \subseteq Controls /\ lost \subseteq Controls /\ taken \subseteq Controls
      /\ b \in Controls
  BY Zenon DEF Wire, Controls
<1>2. x \in Ops /\ x.what = what /\ x.button = b /\ x # Capture!Cancel
  BY OpTyped
<1> HIDE DEF x
<1>3. /\ Capture!Queued(<<x>>) = queue \o <<x>>
      /\ Capture!Released(<<x>>) = IF what = "up" THEN {b} ELSE {}
      /\ Capture!Cancelled(<<x>>) = {}
  BY <1>1, <1>2, OneMessage, Zenon
<1>4. Capture!Sends(<<x>>, {}, {})
  BY DEF x
<1> DEFINE L == IF what = "up" THEN {b} ELSE {}
<1>5. CASE online
  <2>1. /\ queue' = queue \o <<x>> /\ down' = down
        /\ lost' = lost \ L /\ taken' = taken \ L /\ Len(queue') <= MaxQueue
    BY <1>3, <1>4, <1>5 DEF Capture!Sends
  <2>2. queue' \in Seq(Ops)
    <3>1. <<x>> \in Seq(Ops)
      BY <1>2, SMT
    <3> QED
      BY <1>1, <2>1, <3>1, ConcatProperties
  <2>3. Wire'
    BY <1>1, <2>1, <2>2 DEF Wire
  <2>4. ASSUME NEW c \in Controls, Comes(queue', down', c)
        PROVE  c \in Capture!Held' \cup lost' \cup taken'
    <3>1. IF x.button = c THEN x.what = "down" ELSE Comes(queue, down, c)
      <4>1. Comes(queue', down, c)
        BY <2>1, <2>4
      <4> QED
        BY <1>1, <1>2, <2>1, <4>1, OneMore, Zenon
    <3>2. CASE c = b
      BY <1>2, <3>1, <3>2
    <3>3. CASE c # b
      <4>1. c \in Capture!Held \cup lost \cup taken
        BY <1>2, <3>1, <3>3, Zenon DEF Follows
      <4> QED
        BY <2>1, <3>3, <4>1
    <3> QED
      BY <3>2, <3>3
  <2> QED
    BY <2>3, <2>4, Zenon DEF Follows
<1>6. CASE ~online
  <2>1. UNCHANGED <<queue, down, taken>> /\ lost' = lost \cup L
    BY <1>3, <1>4, <1>6 DEF Capture!Sends
  <2>2. Wire'
    BY <1>1, <2>1 DEF Wire
  <2>3. ASSUME NEW c \in Controls, Comes(queue', down', c)
        PROVE  c \in Capture!Held' \cup lost' \cup taken'
    <3>1. c \in Capture!Held \cup lost \cup taken
      BY <2>1, <2>3, Zenon DEF Follows
    <3> QED
      BY <2>1, <3>1
  <2> QED
    BY <2>2, <2>3, Zenon DEF Follows
<1> QED
  BY <1>5, <1>6

(* The end of a capture: its cancel takes releases that were queued, and   *)
(* its own releases stand behind the cancel.                               *)
LEMMA SendsReleases ==
  ASSUME Wire, Follows, heldMouseButtons \subseteq Buttons,
         heldModifiers \subseteq Modifiers, NEW P, P \subseteq Panel,
         Capture!Sends(Capture!Releases, {}, heldModifiers \cup P),
         heldByClient \ P \subseteq heldByClient'
  PROVE  Wire' /\ Follows'
<1> DEFINE R == heldModifiers \cup P
           B == heldMouseButtons
           m == Capture!Releases
           s == Capture!SetToSeq(Ups)
           T == Capture!Released(queue)
<1>1. /\ queue \in Seq(Ops) /\ Buttons \cap (Modifiers \cup Panel) = {}
      /\ down \subseteq Controls /\ lost \subseteq Controls /\ taken \subseteq Controls
      /\ R \cup B \subseteq Controls
  BY WebAssumption DEF WebAssumption, Wire, Controls
<1>2. /\ s \in Seq(Ops)
      /\ \A i \in 1..Len(s) : s[i].what = "up" /\ s[i].button \in B
      /\ \A b \in B : \E i \in 1..Len(s) : s[i].button = b
  BY ReleasesListed
<1>3. Capture!Queued(m) = s /\ Capture!Released(m) = B /\ Capture!Cancelled(m) = T
  BY <1>1, ReleaseMessages
<1>4. T \subseteq Controls
  <2>1. ASSUME NEW i \in DOMAIN queue
        PROVE  queue[i].button \in Controls
    <3>1. queue[i] \in Ops
      BY <1>1, LenProperties, ElementOfSeq
    <3> QED
      BY <3>1, Zenon DEF Ops, Controls
  <2> QED
    BY <2>1, Zenon DEF Capture!Released
<1>5. Capture!Held \ (R \cup B) \subseteq Capture!Held'
  BY DEF Capture!Held
<1>6. Capture!Sends(m, {}, R)
  OBVIOUS
<1> HIDE DEF R, B, m, s, T
<1>7. CASE online
  <2>1. /\ queue' = s /\ down' = (down \ R) \cup {}
        /\ lost' = lost \ (R \cup B) /\ taken' = (taken \cup T) \ B
        /\ Len(queue') <= MaxQueue
    BY <1>3, <1>6, <1>7, Zenon DEF Capture!Sends
  <2>2. Wire'
    BY <1>1, <1>2, <1>4, <2>1 DEF Wire
  <2>3. ASSUME NEW c \in Controls, Comes(queue', down', c)
        PROVE  c \in Capture!Held' \cup lost' \cup taken'
    <3>1. Unheard(s, c) /\ c \in down'
      <4>1. ~PressedLast(s, c)
        BY <1>2 DEF PressedLast
      <4> QED
        BY <2>1, <2>3, <4>1, Zenon DEF Comes
    <3>2. c \notin B /\ c \in down /\ c \notin R
      BY <1>2, <2>1, <3>1 DEF Unheard
    <3>3. CASE c \in T
      BY <2>1, <3>2, <3>3
    <3>4. CASE c \notin T
      <4>1. Comes(queue, down, c)
        BY <1>1, <3>2, <3>4, DownComes DEF T
      <4>2. c \in Capture!Held \cup lost \cup taken
        BY <4>1, Zenon DEF Follows
      <4> QED
        BY <1>5, <2>1, <3>2, <4>2
    <3> QED
      BY <3>3, <3>4
  <2> QED
    BY <2>2, <2>3, Zenon DEF Follows
<1>8. CASE ~online
  <2>1. UNCHANGED <<queue, down, taken>> /\ lost' = (lost \cup R) \cup B
    BY <1>3, <1>6, <1>8, Zenon DEF Capture!Sends
  <2>2. Wire'
    BY <1>1, <2>1 DEF Wire
  <2>3. ASSUME NEW c \in Controls, Comes(queue', down', c)
        PROVE  c \in Capture!Held' \cup lost' \cup taken'
    <3>1. c \in Capture!Held \cup lost \cup taken
      BY <2>1, <2>3, Zenon DEF Follows
    <3> QED
      BY <1>5, <2>1, <3>1
  <2> QED
    BY <2>2, <2>3, Zenon DEF Follows
<1> QED
  BY <1>7, <1>8

-----------------------------------------------------------------------------
(* The capture layer.  A pane that is gone has no lock; nothing is held    *)
(* without one; motion that waits in a pane that is there has its timer.   *)
Pane ==
  /\ {mounted, enabled, capturing, armed, ready, online} \subseteq BOOLEAN
  /\ lock \in {"none", "asked", "held", "leaving"}
  /\ heldModifiers \subseteq Modifiers /\ heldMouseButtons \subseteq Buttons
  /\ heldByClient \subseteq Panel
  /\ ~mounted => lock = "none"
  /\ Capture!NothingHeldUncaptured
Motion ==
  /\ pending \in 0..MaxPending /\ scheduled \in BOOLEAN
  /\ mounted /\ pending > 0 => scheduled

CaptureInv == Pane /\ Motion /\ Wire /\ Follows

LEMMA CaptureStartsSound == Capture!Init => CaptureInv
<1> SUFFICES ASSUME Capture!Init
             PROVE  CaptureInv
  OBVIOUS
<1>1. Pane
  BY Zenon DEF Capture!Init, Pane, Capture!NothingHeldUncaptured
<1>2. Motion
  <2>1. pending = 0 /\ 0 \in 0..MaxPending /\ ~(0 > 0)
    BY WebAssumption, SMT DEF WebAssumption, Capture!Init
  <2> QED
    BY <2>1, Zenon DEF Motion, Capture!Init
<1>3. Wire
  <2>1. <<>> \in Seq(Ops) /\ Len(<<>>) <= MaxQueue
    BY WebAssumption, EmptySeq DEF WebAssumption
  <2> QED
    BY <2>1 DEF Wire, Capture!Init
<1>4. Follows
  <2>1. Len(queue) = 0 /\ down = {}
    BY EmptySeq DEF Capture!Init
  <2>2. \A c : ~Comes(queue, down, c)
    BY <2>1 DEF Comes, PressedLast
  <2> QED
    BY <2>2 DEF Follows
<1> QED
  BY <1>1, <1>2, <1>3, <1>4 DEF CaptureInv

LEMMA SameWire ==
  ASSUME Wire, Follows, UNCHANGED <<queue, down, lost, taken>>, Capture!Held \subseteq Capture!Held'
  PROVE  Wire' /\ Follows'
<1>1. Wire'
  BY Zenon DEF Wire
<1>2. ASSUME NEW c \in Controls, Comes(queue', down', c)
      PROVE  c \in Capture!Held' \cup lost' \cup taken'
  <2>1. c \in Capture!Held \cup lost \cup taken
    BY <1>2, Zenon DEF Follows
  <2> QED
    BY <2>1
<1> QED
  BY <1>1, <1>2, Zenon DEF Follows

LEMMA SameMotion ==
  ASSUME Motion, mounted, UNCHANGED <<pending, scheduled>>
  PROVE  Motion'
  BY Zenon DEF Motion

LEMMA NoMotion ==
  ASSUME pending' = 0, scheduled' = FALSE
  PROVE  Motion'
<1>1. 0 \in 0..MaxPending /\ ~(0 > 0)
  BY WebAssumption, SMT DEF WebAssumption
<1> QED
  BY <1>1, Zenon DEF Motion

(* releaseCapture, and the ways out that call it if there is something to  *)
(* release.                                                                *)
LEMMA ReleaseReleases ==
  ASSUME CaptureInv, NEW P, P \subseteq Panel, Capture!ReleaseCapture(P),
         heldByClient \ P \subseteq heldByClient'
  PROVE  /\ Motion' /\ Wire' /\ Follows'
         /\ heldMouseButtons' = {} /\ heldModifiers' = {}
         /\ capturing' = FALSE /\ armed' = FALSE
<1>1. /\ Capture!Sends(Capture!Releases, {}, heldModifiers \cup P)
      /\ heldMouseButtons' = {} /\ heldModifiers' = {}
      /\ pending' = 0 /\ scheduled' = FALSE
      /\ capturing' = FALSE /\ armed' = FALSE
  BY Zenon DEF Capture!ReleaseCapture
<1>2. Wire /\ Follows /\ heldMouseButtons \subseteq Buttons /\ heldModifiers \subseteq Modifiers
  BY DEF CaptureInv, Pane
<1>3. Wire' /\ Follows'
  BY <1>1, <1>2, SendsReleases
<1>4. Motion'
  BY <1>1, NoMotion
<1> QED
  BY <1>1, <1>3, <1>4

LEMMA ReleaseIfReleases ==
  ASSUME CaptureInv, mounted, Capture!ReleaseIfCapturing, heldByClient' = heldByClient
  PROVE  /\ Motion' /\ Wire' /\ Follows'
         /\ heldMouseButtons' = {} /\ heldModifiers' = {}
         /\ capturing' = FALSE /\ armed' = FALSE
<1>1. CASE Capture!Capturing
  <2>1. Capture!ReleaseCapture({}) /\ heldByClient \ {} \subseteq heldByClient' /\ {} \subseteq Panel
    BY <1>1, Zenon DEF Capture!ReleaseIfCapturing
  <2> QED
    BY <2>1, ReleaseReleases
<1>2. CASE ~Capture!Capturing
  <2>1. /\ UNCHANGED <<capturing, armed, heldModifiers, heldMouseButtons, pending, scheduled>>
        /\ UNCHANGED <<queue, down, lost, taken>>
    BY <1>2, Zenon DEF Capture!ReleaseIfCapturing, Capture!motion, Capture!wire
  <2>2. /\ heldMouseButtons = {} /\ heldModifiers = {} /\ capturing = FALSE /\ armed = FALSE
    BY <1>2, Zenon DEF Capture!Capturing, CaptureInv, Pane
  <2>3. Capture!Held' = Capture!Held
    BY <2>1, Zenon DEF Capture!Held
  <2>4. Wire' /\ Follows'
    BY <2>1, <2>3, SameWire DEF CaptureInv
  <2>5. Motion'
    BY <2>1, SameMotion DEF CaptureInv
  <2> QED
    BY <2>1, <2>2, <2>4, <2>5
<1> QED
  BY <1>1, <1>2

LEMMA CaptureKept ==
  ASSUME CaptureInv, Capture!Next \/ UNCHANGED captureVars
  PROVE  CaptureInv'
<1>1. Pane /\ Motion /\ Wire /\ Follows
  BY DEF CaptureInv
<1>2. /\ heldModifiers \subseteq Modifiers /\ heldMouseButtons \subseteq Buttons
      /\ heldByClient \subseteq Panel
      /\ ~Capture!Locked => heldModifiers = {} /\ heldMouseButtons = {} /\ ~capturing
      /\ ~ready \/ ~mounted => heldByClient = {}
  BY <1>1, Zenon DEF Pane, Capture!NothingHeldUncaptured
<1>3. SUFFICES Pane' /\ Motion' /\ Wire' /\ Follows'
  BY DEF CaptureInv
<1> USE DEF Capture!capture, Capture!motion, Capture!wire
<1>4. CASE Capture!LockGranted
  <2>1. Pane'
    BY <1>1, <1>4, Zenon DEF Capture!LockGranted, Capture!Locked, Pane, Capture!NothingHeldUncaptured
  <2>2. Motion'
    BY <1>1, <1>4, SameMotion DEF Capture!LockGranted
  <2>3. Capture!Held' = Capture!Held
    BY <1>4 DEF Capture!LockGranted, Capture!Held
  <2> QED
    BY <1>1, <1>4, <2>1, <2>2, <2>3, SameWire DEF Capture!LockGranted
<1>5. CASE Capture!LockDropped \/ Capture!LockRefused
  <2>1. /\ mounted /\ lock' = "none" /\ Capture!ReleaseIfCapturing
        /\ UNCHANGED <<mounted, enabled, ready, heldByClient, online>>
    BY <1>5 DEF Capture!LockDropped, Capture!LockRefused
  <2>2. /\ Motion' /\ Wire' /\ Follows'
        /\ heldMouseButtons' = {} /\ heldModifiers' = {}
        /\ capturing' = FALSE /\ armed' = FALSE
    BY <2>1, ReleaseIfReleases
  <2>3. Pane'
    BY <1>1, <2>1, <2>2 DEF Pane, Capture!NothingHeldUncaptured
  <2> QED
    BY <2>2, <2>3
<1>6. CASE Capture!onWindowBlur \/ Capture!enterFullscreenCapture
  <2>1. /\ mounted
        /\ UNCHANGED <<mounted, enabled, capturing, armed, heldModifiers, heldMouseButtons,
                       ready, heldByClient, online>>
        /\ UNCHANGED <<pending, scheduled, queue, down, lost, taken>>
    BY <1>6 DEF Capture!onWindowBlur, Capture!enterFullscreenCapture
  <2>2. /\ lock' \in {"none", "asked", "held", "leaving"}
        /\ Capture!Locked' <=> Capture!Locked
    <3>1. lock \in {"none", "asked", "held", "leaving"}
      BY <1>1, Zenon DEF Pane
    <3> QED
      BY <1>6, <3>1, SMT DEF Capture!onWindowBlur, Capture!enterFullscreenCapture,
         Capture!Asks, Capture!Leaves, Capture!Locked
  <2>3. Capture!Held' = Capture!Held
    BY <2>1 DEF Capture!Held
  <2>4. Pane'
    BY <1>1, <2>1, <2>2, Zenon DEF Pane, Capture!NothingHeldUncaptured
  <2> QED
    BY <1>1, <2>1, <2>3, <2>4, SameMotion, SameWire
<1>7. CASE Capture!onFocusCapture
  <2>1. mounted /\ UNCHANGED <<mounted, enabled, ready, heldByClient, online>>
    BY <1>7 DEF Capture!onFocusCapture
  <2>2. CASE enabled
    <3>1. /\ UNCHANGED <<lock, capturing, heldModifiers, heldMouseButtons, pending, scheduled,
                         queue, down, lost, taken>>
          /\ armed' = FALSE
      BY <1>7, <2>2, Zenon DEF Capture!onFocusCapture
    <3>2. Pane'
      BY <1>1, <2>1, <3>1, Zenon DEF Pane, Capture!NothingHeldUncaptured, Capture!Locked
    <3>3. Capture!Held' = Capture!Held
      BY <2>1, <3>1 DEF Capture!Held
    <3> QED
      BY <1>1, <2>1, <3>1, <3>2, <3>3, SameMotion, SameWire
  <2>3. CASE ~enabled
    <3>1. Capture!Leaves /\ Capture!ReleaseCapture({}) /\ {} \subseteq Panel
          /\ heldByClient \ {} \subseteq heldByClient'
      BY <1>7, <2>1, <2>3, Zenon DEF Capture!onFocusCapture
    <3>2. /\ Motion' /\ Wire' /\ Follows'
          /\ heldMouseButtons' = {} /\ heldModifiers' = {}
          /\ capturing' = FALSE /\ armed' = FALSE
      BY <3>1, ReleaseReleases
    <3>3. Pane'
      BY <1>1, <2>1, <3>1, <3>2, Zenon
         DEF Pane, Capture!NothingHeldUncaptured, Capture!Leaves, Capture!Locked
    <3> QED
      BY <3>2, <3>3
  <2> QED
    BY <2>2, <2>3
<1>8. CASE Capture!onBlurCapture
  <2>1. mounted /\ Capture!Leaves /\ UNCHANGED <<mounted, enabled, ready, heldByClient, online>>
    BY <1>8 DEF Capture!onBlurCapture
  <2>2. CASE Capture!Locked
    <3>1. UNCHANGED <<capturing, armed, heldModifiers, heldMouseButtons, pending, scheduled,
                      queue, down, lost, taken>>
      BY <1>8, <2>2, Zenon DEF Capture!onBlurCapture
    <3>2. Pane'
      BY <1>1, <2>1, <2>2, <3>1, Zenon
         DEF Pane, Capture!NothingHeldUncaptured, Capture!Leaves, Capture!Locked
    <3>3. Capture!Held' = Capture!Held
      BY <2>1, <3>1 DEF Capture!Held
    <3> QED
      BY <1>1, <2>1, <3>1, <3>2, <3>3, SameMotion, SameWire
  <2>3. CASE ~Capture!Locked
    <3>1. Capture!ReleaseIfCapturing /\ lock' = lock
      BY <1>8, <2>1, <2>3, Zenon DEF Capture!onBlurCapture, Capture!Leaves
    <3>2. /\ Motion' /\ Wire' /\ Follows'
          /\ heldMouseButtons' = {} /\ heldModifiers' = {}
          /\ capturing' = FALSE /\ armed' = FALSE
      BY <2>1, <3>1, ReleaseIfReleases
    <3>3. Pane'
      BY <1>1, <2>1, <3>1, <3>2, Zenon DEF Pane, Capture!NothingHeldUncaptured
    <3> QED
      BY <3>2, <3>3
  <2> QED
    BY <2>2, <2>3
<1>9. CASE \E on \in BOOLEAN : Capture!SetEnabled(on)
  <2>1. PICK on \in BOOLEAN : Capture!SetEnabled(on)
    BY <1>9
  <2>2. mounted /\ enabled' = on /\ UNCHANGED <<mounted, ready, heldByClient, online>>
    BY <2>1 DEF Capture!SetEnabled
  <2>3. CASE on \/ Capture!Locked
    <3>1. /\ UNCHANGED <<capturing, armed, heldModifiers, heldMouseButtons, pending, scheduled,
                         queue, down, lost, taken>>
          /\ lock' = IF ~on /\ Capture!Locked THEN "leaving" ELSE lock
      BY <2>1, <2>3, Zenon DEF Capture!SetEnabled
    <3>2. Pane'
      BY <1>1, <2>2, <3>1, Zenon DEF Pane, Capture!NothingHeldUncaptured, Capture!Locked
    <3>3. Capture!Held' = Capture!Held
      BY <2>2, <3>1 DEF Capture!Held
    <3> QED
      BY <1>1, <2>2, <3>1, <3>2, <3>3, SameMotion, SameWire
  <2>4. CASE ~(on \/ Capture!Locked)
    <3>1. Capture!ReleaseIfCapturing /\ lock' = lock
      BY <2>1, <2>4, Zenon DEF Capture!SetEnabled
    <3>2. /\ Motion' /\ Wire' /\ Follows'
          /\ heldMouseButtons' = {} /\ heldModifiers' = {}
          /\ capturing' = FALSE /\ armed' = FALSE
      BY <2>2, <3>1, ReleaseIfReleases
    <3>3. Pane'
      BY <1>1, <2>2, <3>1, <3>2, Zenon DEF Pane, Capture!NothingHeldUncaptured
    <3> QED
      BY <3>2, <3>3
  <2> QED
    BY <2>3, <2>4
<1>10. CASE \E b \in Buttons : Capture!onCaptureMouseDown(b)
  <2>1. PICK b \in Buttons : Capture!onCaptureMouseDown(b)
    BY <1>10
  <2>2. /\ mounted /\ armed' \in BOOLEAN
        /\ UNCHANGED <<mounted, enabled, capturing, heldModifiers, ready, heldByClient,
                       pending, scheduled, online>>
    BY <2>1 DEF Capture!onCaptureMouseDown
  <2>3. Motion'
    BY <1>1, <2>2, SameMotion
  <2>4. CASE Capture!Locked
    <3>1. /\ heldMouseButtons' = heldMouseButtons \cup {b} /\ lock' = lock
          /\ Capture!Sends(<<Capture!Op("down", b)>>, {}, {})
      BY <2>1, <2>4, Zenon DEF Capture!onCaptureMouseDown
    <3>2. Pane'
      BY <1>1, <2>2, <2>4, <3>1 DEF Pane, Capture!NothingHeldUncaptured, Capture!Locked
    <3>3. Capture!Held \ {b} \subseteq Capture!Held' /\ b \in Capture!Held'
      BY <2>2, <3>1 DEF Capture!Held
    <3> QED
      BY <1>1, <2>3, <3>1, <3>2, <3>3, SendsButton
  <2>5. CASE ~Capture!Locked
    <3>1. Capture!Asks /\ UNCHANGED <<heldMouseButtons, queue, down, lost, taken>>
      BY <2>1, <2>5, Zenon DEF Capture!onCaptureMouseDown
    <3>2. Pane'
      BY <1>1, <2>2, <2>5, <3>1, Zenon
         DEF Pane, Capture!NothingHeldUncaptured, Capture!Asks, Capture!Locked
    <3>3. Capture!Held' = Capture!Held
      BY <2>2, <3>1 DEF Capture!Held
    <3> QED
      BY <1>1, <2>3, <3>1, <3>2, <3>3, SameWire
  <2> QED
    BY <2>4, <2>5
<1>11. CASE \E b \in Buttons : Capture!onCaptureMouseUp(b)
  <2>1. PICK b \in Buttons : Capture!onCaptureMouseUp(b)
    BY <1>11
  <2>2. /\ mounted /\ Capture!Locked /\ heldMouseButtons' = heldMouseButtons \ {b}
        /\ Capture!Sends(<<Capture!Op("up", b)>>, {}, {})
        /\ UNCHANGED <<mounted, enabled, lock, capturing, armed, heldModifiers, ready,
                       heldByClient, pending, scheduled, online>>
    BY <2>1 DEF Capture!onCaptureMouseUp
  <2>3. Pane'
    BY <1>1, <2>2 DEF Pane, Capture!NothingHeldUncaptured, Capture!Locked
  <2>4. Capture!Held \ {b} \subseteq Capture!Held'
    BY <2>2 DEF Capture!Held
  <2> QED
    BY <1>1, <2>2, <2>3, <2>4, SameMotion, SendsButton
<1>12. CASE \E k \in Modifiers : Capture!onKeyDown(k) \/ Capture!onKeyUp(k)
  <2>1. PICK k \in Modifiers : Capture!onKeyDown(k) \/ Capture!onKeyUp(k)
    BY <1>12
  <2>2. /\ mounted /\ capturing
        /\ UNCHANGED <<mounted, enabled, lock, capturing, armed, heldMouseButtons, ready,
                       heldByClient, pending, scheduled, online>>
    BY <2>1 DEF Capture!onKeyDown, Capture!onKeyUp
  <2>3. \/ /\ heldModifiers' = heldModifiers \cup {k} /\ Capture!Sends(<<>>, {k}, {})
        \/ /\ heldModifiers' = heldModifiers \ {k} /\ Capture!Sends(<<>>, {}, {k})
    BY <2>1 DEF Capture!onKeyDown, Capture!onKeyUp
  <2>4. Capture!Locked
    BY <1>2, <2>2
  <2>5. Pane'
    BY <1>1, <2>2, <2>3, <2>4 DEF Pane, Capture!NothingHeldUncaptured, Capture!Locked
  <2>6. CASE heldModifiers' = heldModifiers \cup {k} /\ Capture!Sends(<<>>, {k}, {})
    <3>1. (Capture!Held \ {}) \cup {k} \subseteq Capture!Held'
      BY <2>2, <2>6 DEF Capture!Held
    <3> QED
      BY <1>1, <2>2, <2>5, <2>6, <3>1, SameMotion, SendsHolds
  <2>7. CASE heldModifiers' = heldModifiers \ {k} /\ Capture!Sends(<<>>, {}, {k})
    <3>1. (Capture!Held \ {k}) \cup {} \subseteq Capture!Held'
      BY <2>2, <2>7 DEF Capture!Held
    <3> QED
      BY <1>1, <2>2, <2>5, <2>7, <3>1, SameMotion, SendsHolds
  <2> QED
    BY <2>3, <2>6, <2>7
<1>13. CASE \/ \E counts \in 1..MaxPending : Capture!onCaptureMouseMove(counts)
            \/ Capture!flushMouseMove
  <2>1. /\ mounted
        /\ UNCHANGED <<mounted, enabled, lock, capturing, armed, heldModifiers,
                       heldMouseButtons, ready, heldByClient, online, queue, down, lost, taken>>
    BY <1>13 DEF Capture!onCaptureMouseMove, Capture!flushMouseMove
  <2>2. Pane'
    BY <1>1, <2>1, Zenon DEF Pane, Capture!NothingHeldUncaptured, Capture!Locked
  <2>3. Capture!Held' = Capture!Held
    BY <2>1 DEF Capture!Held
  <2>4. Wire' /\ Follows'
    BY <1>1, <2>1, <2>3, SameWire
  <2>5. pending \in Nat /\ pending <= MaxPending /\ MaxPending \in Nat /\ MaxDelta \in Nat
    BY <1>1, WebAssumption DEF WebAssumption, Motion
  <2>6. CASE \E counts \in 1..MaxPending : Capture!onCaptureMouseMove(counts)
    <3>1. PICK counts \in 1..MaxPending : Capture!onCaptureMouseMove(counts)
      BY <2>6
    <3>2. pending + counts <= MaxPending /\ pending' = pending + counts /\ scheduled' = TRUE
      BY <3>1 DEF Capture!onCaptureMouseMove
    <3>3. pending' \in 0..MaxPending
      BY <2>5, <3>2
    <3>4. Motion'
      BY <3>2, <3>3, Zenon DEF Motion
    <3> QED
      BY <2>2, <2>4, <3>4
  <2>7. CASE Capture!flushMouseMove
    <3>1. /\ pending' = IF Capture!Locked THEN pending - Capture!Min({pending, MaxDelta}) ELSE 0
          /\ scheduled' = (pending' > 0)
      BY <2>7, Zenon DEF Capture!flushMouseMove
    <3>2. /\ Capture!Min({pending, MaxDelta}) \in {pending, MaxDelta}
          /\ Capture!Min({pending, MaxDelta}) <= pending
      BY <2>5, MinOfTwo
    <3>3. pending' \in 0..MaxPending
      BY <2>5, <3>1, <3>2
    <3>4. (pending' > 0) \in BOOLEAN
      BY <3>3, SMT
    <3>5. scheduled' \in BOOLEAN /\ (pending' > 0 => scheduled')
      BY <3>1, <3>4, Zenon
    <3>6. Motion'
      BY <3>3, <3>5, Zenon DEF Motion
    <3> QED
      BY <2>2, <2>4, <3>6
  <2> QED
    BY <1>13, <2>6, <2>7
<1>14. CASE \E p \in Panel : Capture!HoldStart(p) \/ Capture!HoldEnd(p)
  <2>1. PICK p \in Panel : Capture!HoldStart(p) \/ Capture!HoldEnd(p)
    BY <1>14
  <2>2. /\ mounted
        /\ UNCHANGED <<mounted, enabled, lock, capturing, armed, heldModifiers,
                       heldMouseButtons, ready, pending, scheduled, online>>
    BY <2>1 DEF Capture!HoldStart, Capture!HoldEnd
  <2>3. CASE Capture!HoldStart(p)
    <3>1. /\ ready /\ heldByClient' = heldByClient \cup {p}
          /\ Capture!Sends(<<>>, {p}, {})
      BY <2>3 DEF Capture!HoldStart
    <3>2. Pane'
      BY <1>1, <2>2, <3>1 DEF Pane, Capture!NothingHeldUncaptured, Capture!Locked
    <3>3. (Capture!Held \ {}) \cup {p} \subseteq Capture!Held'
      BY <2>2, <3>1 DEF Capture!Held
    <3> QED
      BY <1>1, <2>2, <3>1, <3>2, <3>3, SameMotion, SendsHolds
  <2>4. CASE Capture!HoldEnd(p)
    <3>1. heldByClient' = heldByClient \ {p} /\ Capture!Sends(<<>>, {}, {p})
      BY <2>4 DEF Capture!HoldEnd
    <3>2. Pane'
      BY <1>1, <2>2, <3>1 DEF Pane, Capture!NothingHeldUncaptured, Capture!Locked
    <3>3. (Capture!Held \ {p}) \cup {} \subseteq Capture!Held'
      BY <2>2, <3>1 DEF Capture!Held
    <3> QED
      BY <1>1, <2>2, <3>1, <3>2, <3>3, SameMotion, SendsHolds
  <2> QED
    BY <2>1, <2>3, <2>4
<1>15. CASE Capture!ReadyChanges
  <2>1. /\ mounted /\ ready' = ~ready
        /\ UNCHANGED <<mounted, enabled, lock, capturing, armed, heldModifiers,
                       heldMouseButtons, pending, scheduled, online>>
    BY <1>15, Zenon DEF Capture!ReadyChanges
  <2>2. CASE ready
    <3>1. heldByClient' = {} /\ Capture!Sends(<<>>, {}, heldByClient)
      BY <1>15, <2>2, Zenon DEF Capture!ReadyChanges
    <3>2. Pane'
      BY <1>1, <2>1, <3>1, Zenon DEF Pane, Capture!NothingHeldUncaptured, Capture!Locked
    <3>3. (Capture!Held \ heldByClient) \cup {} \subseteq Capture!Held'
      BY <2>1, <3>1 DEF Capture!Held
    <3> QED
      BY <1>1, <1>2, <2>1, <3>1, <3>2, <3>3, SameMotion, SendsHolds
  <2>3. CASE ~ready
    <3>1. UNCHANGED <<heldByClient, queue, down, lost, taken>>
      BY <1>15, <2>3, Zenon DEF Capture!ReadyChanges
    <3>2. Pane'
      BY <1>1, <1>2, <2>1, <2>3, <3>1, Zenon
         DEF Pane, Capture!NothingHeldUncaptured, Capture!Locked
    <3>3. Capture!Held' = Capture!Held
      BY <2>1, <3>1 DEF Capture!Held
    <3> QED
      BY <1>1, <2>1, <3>1, <3>2, <3>3, SameMotion, SameWire
  <2> QED
    BY <2>2, <2>3
<1>16. CASE Capture!Unmount
  <2>1. /\ mounted /\ mounted' = FALSE /\ lock' = "none" /\ heldByClient' = {}
        /\ UNCHANGED <<enabled, ready, online>>
    BY <1>16, Zenon DEF Capture!Unmount
  <2>2. CASE Capture!Capturing
    <3>1. Capture!ReleaseCapture(heldByClient) /\ heldByClient \ heldByClient \subseteq heldByClient'
      BY <1>16, <2>2, Zenon DEF Capture!Unmount
    <3>2. /\ Motion' /\ Wire' /\ Follows'
          /\ heldMouseButtons' = {} /\ heldModifiers' = {}
          /\ capturing' = FALSE /\ armed' = FALSE
      BY <1>2, <3>1, ReleaseReleases
    <3>3. Pane'
      BY <1>1, <2>1, <3>2, Zenon DEF Pane, Capture!NothingHeldUncaptured
    <3> QED
      BY <3>2, <3>3
  <2>3. CASE ~Capture!Capturing
    <3>1. /\ Capture!Sends(<<>>, {}, heldByClient) /\ scheduled' = FALSE
          /\ UNCHANGED <<capturing, armed, heldModifiers, heldMouseButtons, pending>>
      BY <1>16, <2>3, Zenon DEF Capture!Unmount
    <3>2. heldModifiers = {} /\ heldMouseButtons = {} /\ ~capturing /\ ~armed
      BY <2>3, Zenon DEF Capture!Capturing
    <3>3. Pane'
      BY <1>1, <2>1, <3>1, <3>2, Zenon DEF Pane, Capture!NothingHeldUncaptured
    <3>4. Motion'
      BY <1>1, <2>1, <3>1, Zenon DEF Motion
    <3>5. (Capture!Held \ heldByClient) \cup {} \subseteq Capture!Held'
      BY <2>1, <3>1 DEF Capture!Held
    <3> QED
      BY <1>1, <1>2, <3>1, <3>3, <3>4, <3>5, SendsHolds
  <2> QED
    BY <2>2, <2>3
<1>17. CASE Capture!SocketChanges \/ UNCHANGED captureVars
  <2>1. /\ online' \in BOOLEAN
        /\ UNCHANGED <<mounted, enabled, lock, capturing, armed, heldModifiers,
                       heldMouseButtons, ready, heldByClient, pending, scheduled>>
        /\ UNCHANGED <<queue, down, lost, taken>>
    BY <1>1, <1>17, Zenon DEF Capture!SocketChanges, captureVars, Pane
  <2>2. Pane'
    BY <1>1, <2>1, Zenon DEF Pane, Capture!NothingHeldUncaptured, Capture!Locked
  <2>3. Motion'
    BY <1>1, <2>1, Zenon DEF Motion
  <2>4. Capture!Held' = Capture!Held
    BY <2>1 DEF Capture!Held
  <2> QED
    BY <1>1, <2>1, <2>2, <2>3, <2>4, SameWire
<1>18. CASE Capture!Executes
  <2>1. /\ queue # <<>> /\ queue' = Tail(queue)
        /\ down' = IF Head(queue).what = "down" THEN down \cup {Head(queue).button}
                   ELSE down \ {Head(queue).button}
        /\ UNCHANGED <<mounted, enabled, lock, capturing, armed, heldModifiers,
                       heldMouseButtons, ready, heldByClient, pending, scheduled, online>>
        /\ UNCHANGED <<lost, taken>>
    BY <1>18 DEF Capture!Executes
  <2>2. Pane'
    BY <1>1, <2>1, Zenon DEF Pane, Capture!NothingHeldUncaptured, Capture!Locked
  <2>3. Motion'
    BY <1>1, <2>1, Zenon DEF Motion
  <2>4. queue \in Seq(Ops) /\ MaxQueue \in Nat
    BY <1>1, WebAssumption DEF Wire, WebAssumption
  <2>5. /\ Head(queue) \in Ops /\ Tail(queue) \in Seq(Ops)
        /\ Len(queue) \in Nat /\ Len(Tail(queue)) = Len(queue) - 1
    BY <2>1, <2>4, HeadTailProperties, LenProperties
  <2>6. Head(queue).button \in Controls
    BY <2>5, Zenon DEF Ops, Controls
  <2>7. Wire'
    BY <1>1, <2>1, <2>4, <2>5, <2>6 DEF Wire
  <2>8. ASSUME NEW c \in Controls, Comes(queue', down', c)
        PROVE  c \in Capture!Held' \cup lost' \cup taken'
    <3>1. Comes(queue, down, c)
      BY <2>1, <2>4, <2>8, OneDone
    <3>2. Capture!Held' = Capture!Held
      BY <2>1 DEF Capture!Held
    <3> QED
      BY <1>1, <2>1, <3>1, <3>2, Zenon DEF Follows
  <2> QED
    BY <2>2, <2>3, <2>7, <2>8, Zenon DEF Follows
<1> QED
  BY <1>4, <1>5, <1>6, <1>7, <1>8, <1>9, <1>10, <1>11, <1>12, <1>13, <1>14, <1>15, <1>16,
     <1>17, <1>18, Zenon DEF Capture!Next

LEMMA CaptureSound ==
  ASSUME CaptureInv
  PROVE  /\ Capture!TypeOK /\ Capture!MachineFollowsPane
         /\ Capture!NothingHeldUncaptured
<1>1. Pane /\ Motion /\ Wire /\ Follows
  BY DEF CaptureInv
<1>2. queue \in Seq(Ops) /\ Len(queue) <= MaxQueue
  BY <1>1 DEF Wire
<1>3. \A i \in DOMAIN queue : queue[i] \in [what : {"down", "up"}, button : Buttons]
  BY <1>2, LenProperties, ElementOfSeq DEF Ops
<1>4. pending > 0 /\ Capture!Locked => scheduled
  BY <1>1, Zenon DEF Pane, Motion, Capture!Locked
<1>5. {down, lost, taken} \subseteq SUBSET (Buttons \cup Modifiers \cup Panel)
  BY <1>1, Zenon DEF Wire, Controls
<1>6. Capture!TypeOK
  BY <1>1, <1>2, <1>3, <1>4, <1>5, Zenon DEF Pane, Motion, Capture!TypeOK
<1>7. Capture!MachineFollowsPane
  <2>1. ASSUME NEW c \in Capture!WillBeDown
        PROVE  c \in Capture!Held \cup lost \cup taken
    <3>1. c \in Controls /\ Comes(queue, down, c)
      BY <1>2, WillCome
    <3> QED
      BY <1>1, <3>1, Zenon DEF Follows
  <2> QED
    BY <2>1, Zenon DEF Capture!MachineFollowsPane
<1> QED
  BY <1>1, <1>6, <1>7 DEF Pane

LEMMA PaneMoves ==
  ASSUME MCNext \/ UNCHANGED <<part, vars, streamVars, recordingVars, captureVars, viewerVars>>
  PROVE  /\ Capture!Next \/ UNCHANGED captureVars
         /\ Viewer!Next \/ UNCHANGED viewerVars
  BY Zenon DEF MCNext

(* What the pane holds agrees with what the machine will hold down: the    *)
(* last operation that the mouse's queue has on a button decides, and each *)
(* way out of a capture leaves the cancel, the releases behind it and what *)
(* the socket took (releaseCapture, onBeforeUnmount, of Stream.vue); for   *)
(* every set of buttons and keys, and every bound.                         *)
THEOREM PaneStaysSound == MCSpec => []PaneSound
<1>1. MCInit => CaptureInv /\ Viewer!TypeOK
  BY CaptureStartsSound, ViewerStarts DEF MCInit
<1>2. /\ CaptureInv /\ Viewer!TypeOK
      /\ [MCNext]_<<part, vars, streamVars, recordingVars, captureVars, viewerVars>>
      => (CaptureInv /\ Viewer!TypeOK)'
  BY PaneMoves, CaptureKept, ViewerKept
<1>3. CaptureInv /\ Viewer!TypeOK => PaneSound
  BY CaptureSound DEF PaneSound
<1> QED
  BY <1>1, <1>2, <1>3, PTL DEF MCSpec
=============================================================================
