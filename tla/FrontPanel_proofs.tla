-------------------------- MODULE FrontPanel_proofs --------------------------
(***************************************************************************)
(* Proofs about FrontPanel: the types first, then three invariants, each   *)
(* of its own part of the state.  Work is about the queue and the runners  *)
(* cancelAll left behind, Claims about what the browser is shown of the    *)
(* host, and Link about what is under way while there is no port.          *)
(***************************************************************************)
EXTENDS FrontPanel, TLAPS

(* The adapter keeps the type of the slice, and each event changes of it   *)
(* what it is about.                                                       *)
LEMMA SliceKept ==
  ASSUME NEW v \in Views
  PROVE  /\ \A p \in Phases : OnPhase(v, p) \in Views
         /\ \A r : OnDisconnected(v, r) \in Views
         /\ \A p \in Powers : OnSense(v, p) \in Views
         /\ \A h \in BOOLEAN : OnHeld(v, h) \in Views
         /\ FailClosed(v) \in Views
         /\ OnQueued(v) \in Views
         /\ \A o \in Ops : OnStarted(v, o) \in Views
         /\ OnCompleted(v) \in Views /\ OnFailed(v) \in Views
         /\ OnCancelled(v) \in Views
<1>1. v.depth + 1 \in Nat /\ LessOne(v.depth) \in Nat
  BY DEF Views, LessOne
<1>2. /\ \A p \in Phases : OnPhase(v, p) \in Views
      /\ \A p \in Powers : OnSense(v, p) \in Views
      /\ \A h \in BOOLEAN : OnHeld(v, h) \in Views
  BY DEF Views, OnPhase, OnSense, OnHeld
<1>3. \A r : OnDisconnected(v, r) \in Views
  BY DEF Views, OnDisconnected, InitialView, Phases, Powers
<1>4. FailClosed(v) \in Views
  BY DEF Views, FailClosed, OnSense, OnHeld, Powers
<1>5. OnQueued(v) \in Views /\ \A o \in Ops : OnStarted(v, o) \in Views
  BY <1>1 DEF Views, OnQueued, OnStarted
<1>6. OnCompleted(v) \in Views /\ OnFailed(v) \in Views
  <2>1. ASSUME NEW d \in Nat, NEW b \in BOOLEAN
        PROVE  [v EXCEPT !.depth = d, !.busy = b, !.current = NoOp] \in Views
    BY DEF Views
  <2>2. (LessOne(v.depth) > 0) \in BOOLEAN
    OBVIOUS
  <2> QED BY <1>1, <2>1, <2>2 DEF OnCompleted, OnFailed
<1>7. OnCancelled(v) \in Views
  BY DEF Views, OnCancelled
<1> QED BY <1>2, <1>3, <1>4, <1>5, <1>6, <1>7

LEMMA SliceFields ==
  ASSUME NEW v \in Views
  PROVE  /\ \A p : /\ OnPhase(v, p).sense = v.sense
                   /\ OnPhase(v, p).held = v.held
                   /\ OnPhase(v, p).current = v.current
         /\ \A r : /\ OnDisconnected(v, r).sense = "unknown"
                   /\ OnDisconnected(v, r).held = FALSE
                   /\ OnDisconnected(v, r).current = NoOp
         /\ \A p : /\ OnSense(v, p).sense = p
                   /\ OnSense(v, p).held = v.held
                   /\ OnSense(v, p).current = v.current
         /\ \A h : /\ OnHeld(v, h).sense = v.sense
                   /\ OnHeld(v, h).held = h
                   /\ OnHeld(v, h).current = v.current
         /\ FailClosed(v).sense = "unknown"
         /\ FailClosed(v).held = FALSE
         /\ FailClosed(v).current = v.current
BY DEF Views, OnPhase, OnDisconnected, InitialView, OnSense, OnHeld, FailClosed

LEMMA QueueEventFields ==
  ASSUME NEW v \in Views
  PROVE  /\ \A w \in {OnQueued(v), OnCompleted(v), OnFailed(v), OnCancelled(v)} :
              w.sense = v.sense /\ w.held = v.held
         /\ OnQueued(v).current = v.current
         /\ \A w \in {OnCompleted(v), OnFailed(v), OnCancelled(v)} : w.current = NoOp
         /\ \A o : /\ OnStarted(v, o).sense = v.sense
                   /\ OnStarted(v, o).held = v.held
                   /\ OnStarted(v, o).current = o
BY DEF Views, OnQueued, OnStarted, OnCompleted, OnFailed, OnCancelled

(* scheduleReconnect keeps the types, shows at most that it gives up, and  *)
(* sets its timer unless it does.                                          *)
LEMMA ScheduleReconnectKeeps ==
  ASSUME NEW v \in Views, TypeOK, ScheduleReconnect(v)
  PROVE  /\ timer' \in BOOLEAN /\ attempts' \in 0..MaxAttempts /\ view' \in Views
         /\ view'.sense = v.sense /\ view'.held = v.held
         /\ view'.current = v.current
         /\ ~Stopping /\ ReconnectEnabled /\ known => timer' \/ Exhausted'
<1>1. attempts \in 0..MaxAttempts /\ MaxAttempts \in Nat
  BY ConfigAssumption DEF TypeOK
<1>2. attempts' \in 0..MaxAttempts
  BY <1>1 DEF ScheduleReconnect, Exhausted
<1>3. timer' \in BOOLEAN
  <2>1. timer \in BOOLEAN /\ Exhausted \in BOOLEAN
    BY DEF TypeOK, Exhausted
  <2>2. CASE ~Stopping /\ ReconnectEnabled /\ known
    <3>1. timer' = ~Exhausted
      BY <2>2 DEF ScheduleReconnect
    <3> QED BY <2>1, <3>1
  <2>3. CASE ~(~Stopping /\ ReconnectEnabled /\ known)
    <3>1. timer' = timer
      BY <2>3 DEF ScheduleReconnect
    <3> QED BY <2>1, <3>1
  <2> QED BY <2>2, <2>3
<1>4. ASSUME ~Stopping, ReconnectEnabled, known PROVE timer' \/ Exhausted'
  BY <1>1, <1>4 DEF ScheduleReconnect, Exhausted
<1>5. view' = v \/ view' = OnPhase(v, "error")
  BY DEF ScheduleReconnect
<1>6. OnPhase(v, "error") \in Views
  BY SliceKept DEF Phases
<1>7. view' \in Views
  BY <1>5, <1>6
<1>8. \A w \in {v, OnPhase(v, "error")} :
        w.sense = v.sense /\ w.held = v.held /\ w.current = v.current
  BY DEF Views, OnPhase
<1> QED BY <1>2, <1>3, <1>4, <1>5, <1>7, <1>8

-----------------------------------------------------------------------------
(* Types *)

(* TypeOK, a part for each group of variables.                             *)
LinkType ==
  /\ known \in BOOLEAN /\ port \in {"none", "open", "dead"} /\ identified \in BOOLEAN
  /\ sense \in Powers /\ held \in BOOLEAN /\ emitted \in BOOLEAN
  /\ opener \in Openers /\ attempt \in 1..Retries

RetryType ==
  /\ timer \in BOOLEAN /\ attempts \in 0..MaxAttempts
  /\ ioClosers \in 0..MaxClosers /\ lostClosers \in 0..MaxClosers
  /\ stop \in {"no", "waiting", "closing", "closed", "done"}
  /\ faults \in 0..MaxFaults

OpsType ==
  /\ queue \in Seq(Ops) /\ Len(queue) <= MaxDepth
  /\ active \in Ops \cup {NoOp} /\ cancelled \in BOOLEAN
  /\ kind \in [Ops -> Kinds] /\ pc \in [Ops -> PCs] /\ line \in [Ops -> {0, 1}]

LEMMA TypeParts ==
  /\ TypeOK <=> LinkType /\ RetryType /\ OpsType /\ view \in Views
  /\ TypeOK' <=> LinkType' /\ RetryType' /\ OpsType' /\ view' \in Views
BY DEF TypeOK, LinkType, RetryType, OpsType

(* A fault is counted up to the bound.                                     *)
LEMMA FaultType ==
  ASSUME faults \in 0..MaxFaults
  PROVE  /\ Fault => faults' \in 0..MaxFaults
         /\ FaultIfOpen => faults' \in 0..MaxFaults
BY ConfigAssumption DEF Fault, FaultIfOpen

LEMMA ConnectionTypes == ASSUME TypeOK, Connection PROVE TypeOK'
<1> USE DEF LinkType, Openers
<1>1. LinkType /\ RetryType /\ OpsType /\ view \in Views
  BY TypeParts
<1>2. /\ \A r : OnDisconnected(view, r) \in Views
      /\ \A p \in Phases : OnPhase(view, p) \in Views
      /\ FailClosed(view) \in Views
  BY <1>1, SliceKept
<1>3. "unknown" \in Powers /\ 1 \in 1..Retries
  BY ConfigAssumption DEF Powers
<1>4. faults \in 0..MaxFaults
  BY <1>1 DEF RetryType
<1>5. ASSUME UNCHANGED ops PROVE OpsType'
  BY <1>1, <1>5 DEF OpsType, ops
<1>6. CASE PreCloseDone
  BY <1>1, <1>2, <1>5, <1>6, TypeParts
  DEF PreCloseDone, BeginOpening, retry, closers, RetryType
<1>7. CASE OpenFails
  BY <1>1, <1>4, <1>5, <1>7, ScheduleReconnectKeeps, FaultType, TypeParts
  DEF OpenFails, telemetry, closers, RetryType
<1>8. CASE OpenSucceeds
  <2>1. LinkType'
    BY <1>1, <1>3, <1>8 DEF OpenSucceeds, telemetry
  <2>2. RetryType'
    <3>1. attempts' \in {attempts, 0} /\ attempts \in 0..MaxAttempts
      BY <1>1, <1>8 DEF OpenSucceeds, RetryType
    <3>2. attempts' \in 0..MaxAttempts
      BY <3>1, ConfigAssumption
    <3> QED BY <1>1, <1>8, <3>2 DEF OpenSucceeds, closers, RetryType
  <2>3. view' \in Views
    BY <1>1, <1>2, <1>8 DEF OpenSucceeds, Phases
  <2> QED BY <1>5, <1>8, <2>1, <2>2, <2>3, TypeParts DEF OpenSucceeds
<1>9. CASE StopCloseDone \/ RequestWritten \/ TokenRead
  BY <1>1, <1>5, <1>9, TypeParts
  DEF StopCloseDone, RequestWritten, TokenRead, telemetry, retry, closers, RetryType
<1>10. CASE AttemptFails
  <2>1. LinkType'
    BY <1>1, <1>10, ConfigAssumption DEF AttemptFails, telemetry
  <2> QED BY <1>1, <1>4, <1>5, <1>10, <2>1, FaultType, TypeParts
          DEF AttemptFails, retry, closers, RetryType
<1>11. CASE CompletionFails
  BY <1>1, <1>4, <1>5, <1>11, FaultType, TypeParts
  DEF CompletionFails, telemetry, retry, closers, RetryType
<1>12. CASE Identified
  <2>1. OnPhase(view, "ready") \in Views
    BY <1>2 DEF Phases
  <2>2. view' \in Views
    BY <1>1, <1>12, <2>1, SliceKept DEF Identified
  <2> QED BY <1>1, <1>5, <1>12, <2>2, TypeParts
          DEF Identified, retry, closers, RetryType
<1>13. CASE IdentifyFails
  <2> DEFINE failed == FailClosed(OnPhase(view, "error"))
  <2>1. failed \in Views /\ OnDisconnected(failed, "unknown") \in Views
    <3>1. OnPhase(view, "error") \in Views
      BY <1>2 DEF Phases
    <3> QED BY <3>1, SliceKept
  <2> HIDE DEF failed
  <2>2. \/ view' = failed /\ UNCHANGED retry
        \/ ScheduleReconnect(failed)
        \/ ScheduleReconnect(OnDisconnected(failed, "unknown"))
    BY <1>13 DEF IdentifyFails, failed
  <2>3. view' \in Views /\ timer' \in BOOLEAN /\ attempts' \in 0..MaxAttempts
    BY <1>1, <2>1, <2>2, ScheduleReconnectKeeps DEF retry, RetryType
  <2>4. LinkType'
    BY <1>1, <1>3, <1>13 DEF IdentifyFails, ClosePort
  <2> QED BY <1>1, <1>5, <1>13, <2>3, <2>4, TypeParts
          DEF IdentifyFails, closers, RetryType
<1>14. CASE FailCloseDone
  BY <1>1, <1>2, <1>5, <1>14, ScheduleReconnectKeeps, TypeParts
  DEF FailCloseDone, telemetry, closers, RetryType
<1>15. CASE PortError
  <2>1. LinkType'
    BY <1>1, <1>3, <1>15 DEF PortError, ClosePort
  <2>2. ioClosers' \in 0..MaxClosers
    BY <1>1, <1>15, ConfigAssumption DEF PortError, RetryType
  <2> QED BY <1>1, <1>2, <1>4, <1>5, <1>15, <2>1, <2>2, FaultType, TypeParts
          DEF PortError, retry, RetryType
<1>16. CASE IoCloseDone
  <2>1. ScheduleReconnect(OnDisconnected(view, "io-error")) /\ UNCHANGED <<link, telemetry, ops>>
    BY <1>16 DEF IoCloseDone
  <2>2. ioClosers' \in 0..MaxClosers
    BY <1>1, <1>16, ConfigAssumption DEF IoCloseDone, RetryType
  <2> QED BY <1>1, <1>2, <1>5, <1>16, <2>1, <2>2, ScheduleReconnectKeeps, TypeParts
          DEF IoCloseDone, link, telemetry, RetryType
<1>17. CASE Unplug
  BY <1>1, <1>4, <1>5, <1>17, FaultType, TypeParts
  DEF Unplug, telemetry, retry, closers, RetryType
<1>18. CASE PortCloseEvent
  BY <1>1, <1>2, <1>3, <1>5, <1>18, ScheduleReconnectKeeps, TypeParts
  DEF PortCloseEvent, ClosePort, closers, RetryType
<1>19. CASE TimerFires
  BY <1>1, <1>2, <1>3, <1>5, <1>19, TypeParts
  DEF TimerFires, OpenPort, ClosePort, BeginOpening, telemetry, closers, RetryType
<1>20. CASE \E p \in {"on", "off"} : Telemetry(p)
  <2>1. PICK p \in {"on", "off"} : Telemetry(p)
    BY <1>20
  <2>2. p \in Powers /\ OnSense(view, p) \in Views
    BY <1>1, SliceKept DEF Powers
  <2> QED BY <1>1, <1>5, <2>1, <2>2, TypeParts
          DEF Telemetry, link, retry, closers, RetryType
<1> QED
  BY <1>6, <1>7, <1>8, <1>9, <1>10, <1>11, <1>12, <1>13, <1>14, <1>15, <1>16,
     <1>17, <1>18, <1>19, <1>20 DEF Connection

LEMMA DiscoveryTypes == ASSUME TypeOK, Discovery PROVE TypeOK'
<1> USE DEF LinkType, Openers
<1>1. LinkType /\ RetryType /\ OpsType /\ view \in Views
  BY TypeParts
<1>2. /\ \A r : OnDisconnected(view, r) \in Views
      /\ OnPhase(view, "connecting") \in Views
      /\ FailClosed(view) \in Views
      /\ FailClosed(OnPhase(view, "connecting")) \in Views
  <2>1. OnPhase(view, "connecting") \in Views
    BY <1>1, SliceKept DEF Phases
  <2> QED BY <1>1, <2>1, SliceKept
<1>3. "unknown" \in Powers
  BY DEF Powers
<1>4. ASSUME UNCHANGED ops PROVE OpsType'
  BY <1>1, <1>4 DEF OpsType, ops
<1>5. CASE onDeviceIdentified
  <2>1. LinkType'
    BY <1>1, <1>3, <1>5
    DEF onDeviceIdentified, OpenPort, ClosePort, BeginOpening, telemetry
  <2>2. view' \in Views
    BY <1>2, <1>5 DEF onDeviceIdentified, OpenPort
  <2>3. RetryType'
    BY <1>1, <1>5 DEF onDeviceIdentified, OpenPort, closers, RetryType
  <2> QED BY <1>4, <1>5, <2>1, <2>2, <2>3, TypeParts DEF onDeviceIdentified
<1>6. CASE onDeviceLost
  <2>1. LinkType'
    BY <1>1, <1>3, <1>6 DEF onDeviceLost, ClosePort
  <2>2. view' \in Views
    BY <1>2, <1>6 DEF onDeviceLost
  <2>3. lostClosers' \in 0..MaxClosers
    <3>1. /\ ioClosers \in 0..MaxClosers /\ lostClosers \in 0..MaxClosers
          /\ \/ ioClosers + lostClosers < MaxClosers /\ lostClosers' = lostClosers + 1
             \/ lostClosers' = lostClosers
      BY <1>1, <1>6 DEF onDeviceLost, RetryType
    <3> QED BY <3>1, ConfigAssumption
  <2>4. RetryType'
    BY <1>1, <1>6, <2>3 DEF onDeviceLost, RetryType
  <2> QED BY <1>4, <1>6, <2>1, <2>2, <2>4, TypeParts DEF onDeviceLost
<1>7. CASE LostCloseDone
  <2>1. lostClosers' \in 0..MaxClosers
    BY <1>1, <1>7, ConfigAssumption DEF LostCloseDone, RetryType
  <2> QED BY <1>1, <1>2, <1>4, <1>7, <2>1, TypeParts
          DEF LostCloseDone, telemetry, retry, RetryType
<1> QED BY <1>5, <1>6, <1>7 DEF Discovery

(* processQueue hands the queue on as it is, or starts its head.           *)
LEMMA ProcessQueueEffect ==
  ASSUME NEW w \in Seq(Ops), Len(w) <= MaxDepth, NEW a \in Ops \cup {NoOp},
         NEW places \in [Ops -> PCs], NEW v \in Views,
         ProcessQueue(w, a, places, v)
  PROVE  /\ queue' \in Seq(Ops) /\ Len(queue') <= MaxDepth
         /\ active' \in Ops \cup {NoOp} /\ pc' \in [Ops -> PCs] /\ view' \in Views
         /\ \/ /\ a # NoOp \/ w = <<>>
               /\ queue' = w /\ active' = a /\ pc' = places /\ view' = v
            \/ /\ a = NoOp /\ active' \in Ops /\ pc'[active'] \in Running
               /\ \A o \in Ops \ {active'} : pc'[o] = places[o]
               /\ view' = OnStarted(v, active')
<1>1. CASE a # NoOp \/ w = <<>>
  BY <1>1 DEF ProcessQueue
<1>2. CASE ~(a # NoOp \/ w = <<>>)
  <2>1. Head(w) \in Ops /\ Tail(w) \in Seq(Ops) /\ Len(Tail(w)) <= MaxDepth
    BY <1>2, ConfigAssumption
  <2>2. /\ queue' = Tail(w) /\ active' = Head(w)
        /\ pc' = [places EXCEPT ![Head(w)] = IF Ready THEN "checked" ELSE "failing"]
        /\ view' = OnStarted(v, Head(w))
    BY <1>2 DEF ProcessQueue
  <2>3. OnStarted(v, Head(w)) \in Views
    BY <2>1, SliceKept
  <2> QED BY <1>2, <2>1, <2>2, <2>3 DEF PCs, Running
<1> QED BY <1>1, <1>2

(* What clients ask for, and the queue's runners, keep to themselves.      *)
LEMMA RequestTypes == ASSUME TypeOK, Requests PROVE TypeOK'
<1>1. LinkType /\ RetryType /\ OpsType /\ view \in Views
  BY TypeParts
<1>2. CASE cancelAll
  <2>1. LinkType' /\ RetryType'
    BY <1>1, <1>2 DEF cancelAll, link, telemetry, retry, closers, LinkType, RetryType
  <2>2. OpsType'
    BY <1>1, <1>2, ConfigAssumption, KindsAssumption
    DEF cancelAll, CancelAll, ForgetQueued, OpsType, PCs, NoKind
  <2>3. view' \in Views
    BY <1>1, <1>2, SliceKept DEF cancelAll, CancelAll
  <2> QED BY <2>1, <2>2, <2>3, TypeParts
<1>3. CASE \E o \in Ops, k \in Kinds : enqueueOperation(o, k)
  <2>1. PICK o \in Ops, k \in Kinds : enqueueOperation(o, k)
    BY <1>3
  <2>2. LinkType' /\ RetryType'
    BY <1>1, <2>1 DEF enqueueOperation, link, telemetry, retry, closers, LinkType, RetryType
  <2>3. /\ Append(queue, o) \in Seq(Ops) /\ Len(Append(queue, o)) <= MaxDepth
        /\ active \in Ops \cup {NoOp} /\ [pc EXCEPT ![o] = "queued"] \in [Ops -> PCs]
    BY <1>1, <2>1, ConfigAssumption DEF OpsType, enqueueOperation, PCs
  <2>4. OnQueued(view) \in Views
    BY <1>1, SliceKept
  <2>5. ProcessQueue(Append(queue, o), active, [pc EXCEPT ![o] = "queued"], OnQueued(view))
    BY <2>1 DEF enqueueOperation
  <2>6. /\ queue' \in Seq(Ops) /\ Len(queue') <= MaxDepth
        /\ active' \in Ops \cup {NoOp} /\ pc' \in [Ops -> PCs] /\ view' \in Views
    BY <2>3, <2>4, <2>5, ProcessQueueEffect
  <2> QED BY <1>1, <2>1, <2>2, <2>6, TypeParts DEF OpsType, enqueueOperation
<1> QED BY <1>2, <1>3 DEF Requests

LEMMA SettleTypes ==
  ASSUME OpsType, NEW o \in Ops, NEW v, Settle(o, v), UNCHANGED queue
  PROVE  OpsType' /\ view' = v
<1>1. NoKind \in Kinds
  BY KindsAssumption DEF NoKind
<1> QED BY <1>1 DEF OpsType, Settle, PCs

LEMMA RunnerTypes == ASSUME TypeOK, NEW o \in Ops, Runner(o) PROVE TypeOK'
<1>1. LinkType /\ RetryType /\ OpsType /\ view \in Views
  BY TypeParts
<1>2. CASE Write(o)
  <2>1. OpsType'
    BY <1>1, <1>2 DEF Write, OpsType, PCs, Running
  <2> QED BY <1>1, <1>2, <2>1, TypeParts
          DEF Write, link, telemetry, retry, closers, LinkType, RetryType
<1>3. CASE Written(o)
  <2>1. held' \in BOOLEAN
    BY <1>1, <1>3 DEF Written, Pressed, LinkType
  <2>2. LinkType' /\ RetryType'
    BY <1>1, <1>3, <2>1 DEF Written, link, retry, closers, LinkType, RetryType
  <2> DEFINE v == IF held' # held THEN OnHeld(view, held') ELSE view
  <2>3. v \in Views /\ OnCompleted(v) \in Views
    BY <1>1, <2>1, SliceKept
  <2> HIDE DEF v
  <2>4. CASE Settle(o, OnCompleted(v))
    BY <1>1, <1>3, <2>2, <2>3, <2>4, SettleTypes, TypeParts DEF Written
  <2>5. CASE /\ pc' = [pc EXCEPT ![o] = "holding"] /\ line' = [line EXCEPT ![o] = 1]
             /\ view' = v /\ UNCHANGED <<active, cancelled, kind>>
    <3>1. OpsType'
      BY <1>1, <1>3, <2>5 DEF Written, OpsType, PCs, Running
    <3> QED BY <2>2, <2>3, <2>5, <3>1, TypeParts
  <2> QED BY <1>3, <2>4, <2>5 DEF Written, v
<1>4. CASE WriteFails(o)
  <2>1. OpsType'
    BY <1>1, <1>4 DEF WriteFails, OpsType, PCs, Running
  <2> QED BY <1>1, <1>4, <2>1, FaultType, TypeParts
          DEF WriteFails, link, telemetry, retry, closers, LinkType, RetryType
<1>5. CASE Failed(o)
  BY <1>1, <1>5, SettleTypes, SliceKept, TypeParts
  DEF Failed, link, telemetry, retry, closers, LinkType, RetryType
<1>6. CASE WakeUp(o)
  <2>1. [pc EXCEPT ![o] = "free"] \in [Ops -> PCs]
    BY <1>1 DEF OpsType, PCs
  <2>2. /\ queue' \in Seq(Ops) /\ Len(queue') <= MaxDepth
        /\ active' \in Ops \cup {NoOp} /\ pc' \in [Ops -> PCs] /\ view' \in Views
    BY <1>1, <1>6, <2>1, ProcessQueueEffect DEF WakeUp, OpsType
  <2> QED BY <1>1, <1>6, <2>2, TypeParts
          DEF WakeUp, OpsType, link, telemetry, retry, closers, LinkType, RetryType
<1> QED BY <1>2, <1>3, <1>4, <1>5, <1>6 DEF Runner

LEMMA StopTypes == ASSUME TypeOK, Stop PROVE TypeOK'
<1>1. LinkType /\ RetryType /\ OpsType /\ view \in Views
  BY TypeParts
<1>2. /\ \A r : OnDisconnected(view, r) \in Views
      /\ FailClosed(view) \in Views /\ OnCancelled(view) \in Views
  BY <1>1, SliceKept
<1>3. "unknown" \in Powers
  BY DEF Powers
<1>4. ASSUME UNCHANGED ops PROVE OpsType'
  BY <1>1, <1>4 DEF OpsType, ops
<1>5. ASSUME queue' = <<>>, active' = NoOp, ForgetQueued, cancelled' \in BOOLEAN,
             UNCHANGED line
      PROVE  OpsType'
  BY <1>1, <1>5, ConfigAssumption, KindsAssumption
  DEF ForgetQueued, OpsType, PCs, NoKind
<1>6. CASE StopBegin
  <2>1. OpsType'
    BY <1>5, <1>6 DEF StopBegin, CancelAll
  <2> QED BY <1>1, <1>2, <1>6, <2>1, TypeParts
          DEF StopBegin, CancelAll, link, telemetry, closers, LinkType, RetryType
<1>7. CASE StopClose
  BY <1>1, <1>2, <1>3, <1>4, <1>7, TypeParts
  DEF StopClose, ClosePort, retry, closers, LinkType, RetryType
<1>8. CASE StopClosed
  BY <1>1, <1>2, <1>4, <1>8, TypeParts
  DEF StopClosed, link, telemetry, retry, closers, LinkType, RetryType
<1>9. CASE StopFinish
  <2>1. OpsType'
    BY <1>1, <1>5, <1>9 DEF StopFinish, OpsType
  <2> QED BY <1>1, <1>3, <1>9, <2>1, TypeParts
          DEF StopFinish, retry, closers, LinkType, RetryType
<1> QED BY <1>6, <1>7, <1>8, <1>9 DEF Stop

LEMMA InitTypes == Init => TypeOK
<1>1. NoKind \in Kinds
  BY KindsAssumption DEF NoKind
<1>2. /\ 1 \in 1..Retries /\ 0 \in 0..MaxAttempts /\ 0 \in 0..MaxClosers
      /\ 0 \in 0..MaxFaults
  BY ConfigAssumption
<1>3. <<>> \in Seq(Ops) /\ Len(<<>>) <= MaxDepth
  BY ConfigAssumption
<1>4. InitialView \in Views
  BY DEF InitialView, Views, Phases, Powers
<1> QED
  BY <1>1, <1>2, <1>3, <1>4 DEF Init, TypeOK, Powers, Openers, PCs

(* Every variable of the front panel service keeps to the values the code  *)
(* gives it, for every number of operations and every bound.               *)
THEOREM TypeCorrect == Spec => []TypeOK
<1>1. TypeOK /\ [Next]_vars => TypeOK'
  <2> SUFFICES ASSUME TypeOK, [Next]_vars PROVE TypeOK'
    OBVIOUS
  <2>1. CASE UNCHANGED vars \/ Halted
    BY <2>1 DEF TypeOK, Halted, vars, telemetry, link, retry, closers, ops
  <2> QED BY <2>1, ConnectionTypes, DiscoveryTypes, RequestTypes, RunnerTypes,
             StopTypes DEF Next
<1> QED BY InitTypes, <1>1, PTL DEF Spec

-----------------------------------------------------------------------------
(* What the browser is shown of the host *)

(* The browser is shown no power the service does not stand by, and no     *)
(* button held that is not.                                                *)
Claims == stop # "done" => view.sense \in {"unknown", sense} /\ (view.held => held)

(* What the connection and discovery show of the host is so, and they show *)
(* no operation that was not shown.                                        *)
LEMMA ConnectionShows ==
  ASSUME TypeOK, Claims, Connection \/ Discovery
  PROVE  /\ view'.current \in {view.current, NoOp}
         /\ stop' # "done" => view'.sense \in {"unknown", sense'} /\ (view'.held => held')
<1> DEFINE identifyFailed == FailClosed(OnPhase(view, "error"))
<1>1. /\ view \in Views
      /\ stop # "done" => view.sense \in {"unknown", sense} /\ (view.held => held)
  BY DEF TypeOK, Claims
<1>2. /\ \A r : OnDisconnected(view, r) \in Views
      /\ identifyFailed \in Views /\ OnDisconnected(identifyFailed, "unknown") \in Views
  <2>1. OnPhase(view, "error") \in Views
    BY <1>1, SliceKept DEF Phases
  <2> QED BY <1>1, <2>1, SliceKept
<1>3. \A r : /\ OnDisconnected(view, r).current = NoOp
             /\ OnDisconnected(view, r).sense = "unknown"
             /\ OnDisconnected(view, r).held = FALSE
  BY DEF OnDisconnected, InitialView
<1>4. \A p : /\ OnPhase(view, p).current = view.current
             /\ OnPhase(view, p).sense = view.sense
             /\ OnPhase(view, p).held = view.held
  BY <1>1 DEF OnPhase, Views
<1>5. \A p : \A v \in {view, OnPhase(view, p)} :
        /\ FailClosed(v).current = view.current
        /\ FailClosed(v).sense = "unknown" /\ FailClosed(v).held = FALSE
  BY <1>1 DEF FailClosed, OnHeld, OnSense, OnPhase, Views
<1> HIDE DEF identifyFailed
<1>6. CASE PreCloseDone \/ LostCloseDone
  BY <1>3, <1>6 DEF PreCloseDone, LostCloseDone
<1>7. CASE OpenFails
  BY <1>1, <1>7, ScheduleReconnectKeeps DEF OpenFails, telemetry
<1>8. CASE OpenSucceeds
  BY <1>1, <1>4, <1>8 DEF OpenSucceeds, telemetry
<1>9. CASE \/ StopCloseDone \/ RequestWritten \/ AttemptFails \/ TokenRead
           \/ CompletionFails \/ Unplug
  BY <1>1, <1>9
  DEF StopCloseDone, RequestWritten, AttemptFails, TokenRead, CompletionFails, Unplug,
      telemetry
<1>10. CASE Identified
  <2>1. /\ OnSense(OnPhase(view, "ready"), sense).current = view.current
        /\ OnSense(OnPhase(view, "ready"), sense).sense = sense
        /\ OnSense(OnPhase(view, "ready"), sense).held = view.held
    BY <1>1 DEF OnSense, OnPhase, Views
  <2> QED BY <1>1, <1>4, <1>10, <2>1 DEF Identified
<1>11. CASE IdentifyFails
  <2>1. \A v \in {identifyFailed, OnDisconnected(identifyFailed, "unknown")} :
          /\ v \in Views /\ v.current \in {view.current, NoOp}
          /\ v.sense = "unknown" /\ v.held = FALSE
    BY <1>2, <1>5 DEF OnDisconnected, InitialView, identifyFailed
  <2>2. \E v \in {identifyFailed, OnDisconnected(identifyFailed, "unknown")} :
          view' = v \/ ScheduleReconnect(v)
    BY <1>11 DEF IdentifyFails, identifyFailed
  <2> QED BY <2>1, <2>2, ScheduleReconnectKeeps
<1>12. CASE FailCloseDone \/ IoCloseDone \/ PortCloseEvent
  <2>1. PICK r : ScheduleReconnect(OnDisconnected(view, r))
    BY <1>12 DEF FailCloseDone, IoCloseDone, PortCloseEvent
  <2> QED BY <1>2, <1>3, <2>1, ScheduleReconnectKeeps
<1>13. CASE PortError
  BY <1>5, <1>13 DEF PortError
<1>14. CASE TimerFires
  BY <1>1, <1>5, <1>14 DEF TimerFires, OpenPort, BeginOpening, telemetry
<1>15. CASE \E p \in {"on", "off"} : Telemetry(p)
  BY <1>1, <1>15 DEF Telemetry, OnSense, Views
<1>16. CASE onDeviceIdentified
  BY <1>1, <1>4, <1>5, <1>16 DEF onDeviceIdentified, OpenPort, BeginOpening, telemetry
<1>17. CASE onDeviceLost
  BY <1>3, <1>5, <1>17 DEF onDeviceLost
<1> QED
  BY <1>6, <1>7, <1>8, <1>9, <1>10, <1>11, <1>12, <1>13, <1>14, <1>15, <1>16, <1>17
  DEF Connection, Discovery

LEMMA ClaimsInvariance == Spec => []Claims
<1>1. Init => Claims
  BY DEF Init, Claims, InitialView
<1>2. TypeOK /\ Claims /\ [Next]_vars => Claims'
  <2> SUFFICES ASSUME TypeOK, Claims, [Next]_vars PROVE Claims'
    OBVIOUS
  <2>0. view \in Views
    BY DEF TypeOK
  <2>1. ASSUME view'.sense = view.sense, view'.held = view.held,
               UNCHANGED <<sense, held, stop>>
        PROVE  Claims'
    BY <2>1 DEF Claims
  <2>2. CASE UNCHANGED vars \/ Halted
    BY <2>1, <2>2 DEF Halted, vars, telemetry
  <2>3. CASE Connection \/ Discovery
    BY <2>3, ConnectionShows DEF Claims
  <2>4. CASE Requests
    <3>1. CASE cancelAll
      BY <2>0, <2>1, <3>1, QueueEventFields DEF cancelAll, CancelAll, telemetry
    <3>2. CASE \E o \in Ops, k \in Kinds : enqueueOperation(o, k)
      <4>1. PICK v, w, a, p : v = OnQueued(view) /\ ProcessQueue(w, a, p, v)
        BY <3>2 DEF enqueueOperation
      <4>2. v.sense = view.sense /\ v.held = view.held /\ v \in Views
        BY <2>0, <4>1, SliceKept, QueueEventFields
      <4>3. view'.sense = view.sense /\ view'.held = view.held
        BY <4>1, <4>2 DEF ProcessQueue, OnStarted, Views
      <4> QED BY <2>1, <3>2, <4>3 DEF enqueueOperation, telemetry
    <3> QED BY <2>4, <3>1, <3>2 DEF Requests
  <2>5. CASE \E o \in Ops : Runner(o)
    <3>1. PICK o \in Ops : Runner(o)
      BY <2>5
    <3>2. CASE Write(o) \/ WriteFails(o)
      BY <2>1, <3>2 DEF Write, WriteFails, telemetry
    <3>3. CASE Written(o)
      <4> DEFINE v == IF held' # held THEN OnHeld(view, held') ELSE view
      <4>1. held \in BOOLEAN /\ held' \in BOOLEAN
        BY <3>3 DEF Written, Pressed, TypeOK
      <4>2. v \in Views
        BY <2>0, <4>1, SliceKept
      <4>3. v.sense = view.sense /\ v.held \in {view.held, held'} /\ (held' # held => v.held = held')
        BY <2>0 DEF OnHeld, Views
      <4> HIDE DEF v
      <4>4. OnCompleted(v).sense = v.sense /\ OnCompleted(v).held = v.held
        BY <4>2, QueueEventFields
      <4>5. view' \in {v, OnCompleted(v)}
        BY <3>3 DEF Written, Settle, v
      <4>6. view'.sense = v.sense /\ view'.held = v.held
        BY <4>4, <4>5
      <4> QED BY <3>3, <4>1, <4>3, <4>6 DEF Written, Claims
    <3>4. CASE Failed(o)
      BY <2>0, <2>1, <3>4, QueueEventFields DEF Failed, Settle, telemetry
    <3>5. CASE WakeUp(o)
      <4>1. view'.sense = view.sense /\ view'.held = view.held
        BY <2>0, <3>5 DEF WakeUp, ProcessQueue, OnStarted, Views
      <4> QED BY <2>1, <3>5, <4>1 DEF WakeUp, telemetry
    <3> QED BY <3>1, <3>2, <3>3, <3>4, <3>5 DEF Runner
  <2>6. CASE Stop
    <3>1. CASE StopBegin
      BY <2>0, <3>1, QueueEventFields DEF StopBegin, CancelAll, Claims, telemetry
    <3>2. CASE StopClose \/ StopClosed
      BY <2>0, <3>2
      DEF StopClose, StopClosed, Claims, OnDisconnected, InitialView, FailClosed, OnSense,
          OnHeld, Views
    <3>3. CASE StopFinish
      BY <3>3 DEF StopFinish, Claims
    <3> QED BY <2>6, <3>1, <3>2, <3>3 DEF Stop
  <2> QED BY <2>2, <2>3, <2>4, <2>5, <2>6 DEF Next
<1> QED BY <1>1, <1>2, TypeCorrect, PTL DEF Spec

-----------------------------------------------------------------------------
(* The queue, and the runners that cancelAll left behind *)

(* The operation in activeOp runs; without one, and with work waiting,     *)
(* some runner has not looked at the queue since.  What the browser shows  *)
(* as current runs.                                                        *)
Work ==
  /\ active # NoOp => pc[active] \in Running
  /\ queue # <<>> /\ active = NoOp => \E o \in Ops : pc[o] \in {"pause"} \cup Running
  /\ ShownOperationRuns

(* Dropping the queue leaves every operation that runs where it is.        *)
LEMMA DropKeepsWork ==
  ASSUME TypeOK, Work, ForgetQueued, queue' = <<>>, active' = NoOp,
         view'.current \in {view.current, NoOp}
  PROVE  Work'
BY DEF TypeOK, Work, ShownOperationRuns, ForgetQueued, Running, PCs, Views

(* An operation that settles leaves its runner, asleep.                    *)
LEMMA SettleKeepsWork ==
  ASSUME TypeOK, Work, NEW o \in Ops, NEW v, Settle(o, v), v.current = NoOp,
         UNCHANGED queue
  PROVE  Work'
BY DEF TypeOK, Work, ShownOperationRuns, Settle

(* processQueue, called of an operation that does not run.                 *)
LEMMA ProcessQueueKeepsWork ==
  ASSUME TypeOK, Work, NEW o \in Ops, pc[o] \notin Running,
         NEW w \in Seq(Ops), Len(w) <= MaxDepth,
         NEW p \in PCs, NEW v \in Views, v.current = view.current,
         ProcessQueue(w, active, [pc EXCEPT ![o] = p], v)
  PROVE  Work'
<1> DEFINE places == [pc EXCEPT ![o] = p]
<1>1. places \in [Ops -> PCs] /\ \A x \in Ops \ {o} : places[x] = pc[x]
  BY DEF TypeOK
<1>2. view.current \in Ops \cup {NoOp} /\ active \in Ops \cup {NoOp}
  BY DEF TypeOK, Views
<1>3. /\ active # NoOp => active # o /\ places[active] \in Running
      /\ v.current # NoOp => v.current # o /\ places[v.current] \in Running
  BY <1>1, <1>2 DEF Work, ShownOperationRuns
<1> HIDE DEF places
<1>4. CASE /\ active # NoOp \/ w = <<>>
           /\ queue' = w /\ active' = active /\ pc' = places /\ view' = v
  BY <1>2, <1>3, <1>4 DEF Work, ShownOperationRuns
<1>5. CASE /\ active = NoOp /\ active' \in Ops /\ pc'[active'] \in Running
           /\ view' = OnStarted(v, active')
  <2>1. view'.current = active'
    BY <1>5 DEF OnStarted, Views
  <2> QED BY <1>5, <2>1, NoOpAssumption DEF Work, ShownOperationRuns
<1>6. ProcessQueue(w, active, places, v)
  BY DEF places
<1>7. \/ /\ active # NoOp \/ w = <<>>
         /\ queue' = w /\ active' = active /\ pc' = places /\ view' = v
      \/ /\ active = NoOp /\ active' \in Ops /\ pc'[active'] \in Running
         /\ view' = OnStarted(v, active')
  BY <1>1, <1>2, <1>6, ProcessQueueEffect
<1> QED BY <1>4, <1>5, <1>7

LEMMA WorkInvariance == Spec => []Work
<1>1. Init => Work
  BY DEF Init, Work, ShownOperationRuns, InitialView
<1>2. TypeOK /\ Claims /\ Work /\ [Next]_vars => Work'
  <2> SUFFICES ASSUME TypeOK, Claims, Work, [Next]_vars PROVE Work'
    OBVIOUS
  <2>0. /\ view \in Views
        /\ \A r : OnDisconnected(view, r).current = NoOp
        /\ FailClosed(view).current = view.current
    BY DEF TypeOK, Views, OnDisconnected, InitialView, OnSense, OnHeld, FailClosed
  <2>1. ASSUME UNCHANGED ops, view'.current \in {view.current, NoOp} PROVE Work'
    BY <2>1 DEF Work, ShownOperationRuns, ops
  <2>2. CASE UNCHANGED vars \/ Halted
    BY <2>1, <2>2 DEF Halted, vars
  <2>3. CASE Connection \/ Discovery
    <3>1. UNCHANGED ops
      BY <2>3
      DEF Connection, PreCloseDone, OpenFails, OpenSucceeds, StopCloseDone,
          RequestWritten, AttemptFails, TokenRead, CompletionFails, Identified,
          IdentifyFails, FailCloseDone, PortError, IoCloseDone, Unplug,
          PortCloseEvent, TimerFires, Telemetry, Discovery, onDeviceIdentified,
          onDeviceLost, LostCloseDone
    <3>2. view'.current \in {view.current, NoOp}
      BY <2>3, ConnectionShows
    <3> QED BY <2>1, <3>1, <3>2
  <2>4. CASE Requests
    <3>1. CASE cancelAll
      BY <2>0, <3>1, DropKeepsWork, QueueEventFields DEF cancelAll, CancelAll
    <3>2. CASE \E o \in Ops, k \in Kinds : enqueueOperation(o, k)
      <4>1. PICK o \in Ops, k \in Kinds : enqueueOperation(o, k)
        BY <3>2
      <4>2. /\ Append(queue, o) \in Seq(Ops) /\ Len(Append(queue, o)) <= MaxDepth
        BY <4>1, ConfigAssumption DEF TypeOK, enqueueOperation
      <4>3. OnQueued(view) \in Views /\ OnQueued(view).current = view.current
        BY <2>0, SliceKept, QueueEventFields
      <4>4. /\ ProcessQueue(Append(queue, o), active, [pc EXCEPT ![o] = "queued"],
                            OnQueued(view))
            /\ pc[o] \notin Running
        BY <4>1 DEF enqueueOperation, Running
      <4>5. "queued" \in PCs
        BY DEF PCs
      <4> QED BY <4>2, <4>3, <4>4, <4>5, ProcessQueueKeepsWork
    <3> QED BY <2>4, <3>1, <3>2 DEF Requests
  <2>5. CASE \E o \in Ops : Runner(o)
    <3>1. PICK o \in Ops : Runner(o)
      BY <2>5
    <3>2. CASE Write(o)
      BY <3>2 DEF Write, Work, ShownOperationRuns, TypeOK, Running
    <3>3. CASE Written(o)
      <4> DEFINE v == IF held' # held THEN OnHeld(view, held') ELSE view
      <4>1. held' \in BOOLEAN
        BY <3>3 DEF Written, Pressed, TypeOK
      <4>2. v \in Views /\ v.current = view.current
        BY <2>0, <4>1, SliceKept DEF OnHeld, Views
      <4>3. OnCompleted(v).current = NoOp
        BY <4>2, QueueEventFields
      <4> HIDE DEF v
      <4>4. CASE Settle(o, OnCompleted(v))
        BY <3>3, <4>3, <4>4, SettleKeepsWork DEF Written
      <4>5. CASE /\ pc' = [pc EXCEPT ![o] = "holding"] /\ view' = v
                 /\ UNCHANGED <<active, queue>>
        BY <4>2, <4>5 DEF Work, ShownOperationRuns, TypeOK, Running
      <4> QED BY <3>3, <4>4, <4>5 DEF Written, v
    <3>4. CASE WriteFails(o)
      BY <3>4 DEF WriteFails, Work, ShownOperationRuns, TypeOK, Running
    <3>5. CASE Failed(o)
      BY <2>0, <3>5, SettleKeepsWork, QueueEventFields DEF Failed
    <3>6. CASE WakeUp(o)
      <4>1. ProcessQueue(queue, active, [pc EXCEPT ![o] = "free"], view)
        BY <3>6 DEF WakeUp
      <4>2. /\ pc[o] \notin Running /\ "free" \in PCs
            /\ queue \in Seq(Ops) /\ Len(queue) <= MaxDepth
        BY <3>6 DEF WakeUp, TypeOK, PCs, Running
      <4> QED BY <2>0, <4>1, <4>2, ProcessQueueKeepsWork
    <3> QED BY <3>1, <3>2, <3>3, <3>4, <3>5, <3>6 DEF Runner
  <2>6. CASE Stop
    <3>1. CASE StopBegin
      BY <2>0, <3>1, DropKeepsWork, QueueEventFields DEF StopBegin, CancelAll
    <3>2. CASE StopClose \/ StopClosed
      BY <2>0, <2>1, <3>2 DEF StopClose, StopClosed
    <3>3. CASE StopFinish
      BY <3>3, DropKeepsWork DEF StopFinish
    <3> QED BY <2>6, <3>1, <3>2, <3>3 DEF Stop
  <2> QED BY <2>2, <2>3, <2>4, <2>5, <2>6 DEF Next
<1> QED BY <1>1, <1>2, TypeCorrect, ClaimsInvariance, PTL DEF Spec

-----------------------------------------------------------------------------
(* The connection *)

Closers == ioClosers + lostClosers

(* A connection that stop() overtook is only ever closed by it; the        *)
(* completion is written to a port that is gone only while its closing is  *)
(* under way, or the panel is lost too; and without a port something is    *)
(* under way that ends in a reconnect.                                     *)
Link ==
  /\ opener = "stopClose" => Stopping
  /\ opener = "writeCompletion" /\ port = "none" /\ ~Stopping => ~known \/ Closers > 0
  /\ port = "none" /\ known /\ ReconnectEnabled /\ ~Stopping =>
       timer \/ Exhausted \/ opener # "idle" \/ Closers > 0

(* A step that is no step of stop() keeps it.                              *)
LEMMA LinkStep ==
  ASSUME TypeOK, Link, stop = "no",
         Connection \/ Discovery \/ Requests \/ \E o \in Ops : Runner(o)
  PROVE  Link'
<1> USE DEF Link, Closers, Stopping
<1>1. /\ view \in Views /\ stop # "done"
      /\ ioClosers \in Nat /\ lostClosers \in Nat /\ attempts \in Nat /\ MaxAttempts \in Nat
  BY ConfigAssumption DEF TypeOK
<1>2. ASSUME NEW v \in Views, ScheduleReconnect(v), ReconnectEnabled, known
      PROVE  timer' \/ Exhausted'
  BY <1>2, ScheduleReconnectKeeps
<1>3. \A r : OnDisconnected(view, r) \in Views
  BY <1>1, SliceKept
<1>4. CASE PreCloseDone
  BY <1>1, <1>4 DEF PreCloseDone, BeginOpening, closers
<1>5. CASE OpenFails
  BY <1>1, <1>2, <1>5 DEF OpenFails, closers
<1>6. CASE OpenSucceeds
  BY <1>6 DEF OpenSucceeds
<1>7. CASE StopCloseDone
  BY <1>7 DEF StopCloseDone
<1>8. CASE RequestWritten \/ AttemptFails \/ TokenRead \/ CompletionFails \/ Unplug
  BY <1>1, <1>8
  DEF RequestWritten, AttemptFails, TokenRead, CompletionFails, Unplug, closers, retry,
      Exhausted, CanWrite
<1>9. CASE Identified
  BY <1>1, <1>9 DEF Identified, closers, retry, Exhausted
<1>10. CASE IdentifyFails
  <2> DEFINE failed == FailClosed(OnPhase(view, "error"))
  <2>1. failed \in Views /\ OnDisconnected(failed, "unknown") \in Views
    <3>1. OnPhase(view, "error") \in Views
      BY <1>1, SliceKept DEF Phases
    <3> QED BY <3>1, SliceKept
  <2>2. \/ opener' = "failClose"
        \/ opener' = "idle" /\ \E v \in {failed, OnDisconnected(failed, "unknown")} :
                                ScheduleReconnect(v)
    BY <1>10 DEF IdentifyFails
  <2> HIDE DEF failed
  <2> QED BY <1>2, <1>10, <2>1, <2>2 DEF IdentifyFails, closers
<1>11. CASE FailCloseDone \/ IoCloseDone \/ PortCloseEvent
  <2>1. ReconnectEnabled /\ known => timer' \/ Exhausted'
    BY <1>2, <1>3, <1>11 DEF FailCloseDone, IoCloseDone, PortCloseEvent
  <2> QED BY <1>1, <1>11, <2>1
          DEF FailCloseDone, IoCloseDone, PortCloseEvent, ClosePort, WritesOver, link, closers
<1>12. CASE PortError
  BY <1>1, <1>12 DEF PortError, ClosePort, retry
<1>13. CASE TimerFires
  <2>1. CASE ~known \/ opener # "idle"
    BY <1>1, <1>13, <2>1 DEF TimerFires, closers, Exhausted
  <2>2. CASE known /\ opener = "idle"
    BY <1>1, <1>13, <2>2 DEF TimerFires, OpenPort, BeginOpening, ClosePort, closers
  <2> QED BY <2>1, <2>2
<1>14. CASE \E p \in {"on", "off"} : Telemetry(p)
  BY <1>14 DEF Telemetry, link, closers, retry, Exhausted
<1>15. CASE LostCloseDone
  BY <1>1, <1>15 DEF LostCloseDone, retry, WritesOver
<1>16. CASE onDeviceIdentified
  BY <1>1, <1>16
  DEF onDeviceIdentified, Ready, OpenPort, BeginOpening, ClosePort, closers, WritesOver
<1>17. CASE onDeviceLost
  <2>1. /\ known' = FALSE \/ lostClosers' = lostClosers + 1
        /\ UNCHANGED <<opener, ioClosers, stop>>
    BY <1>17 DEF onDeviceLost
  <2> QED BY <1>1, <2>1
<1>18. CASE Requests \/ \E o \in Ops : Runner(o)
  <2>1. UNCHANGED <<link, closers, stop, retry>>
    BY <1>18
    DEF Requests, enqueueOperation, cancelAll, Runner, Write, Written, WriteFails, Failed,
        WakeUp
  <2> QED BY <2>1 DEF link, closers, retry, Exhausted
<1> QED
  BY <1>4, <1>5, <1>6, <1>7, <1>8, <1>9, <1>10, <1>11, <1>12, <1>13, <1>14, <1>15,
     <1>16, <1>17, <1>18
  DEF Connection, Discovery

LEMMA LinkInvariance == Spec => []Link
<1>1. Init => Link
  BY DEF Init, Link, Closers, Stopping
<1>2. TypeOK /\ Link /\ [Next]_vars => Link'
  <2> SUFFICES ASSUME TypeOK, Link, [Next]_vars PROVE Link'
    OBVIOUS
  <2>1. CASE stop' # "no"
    BY <2>1 DEF Link, Stopping
  <2>2. CASE UNCHANGED vars \/ Halted
    BY <2>2 DEF Link, Closers, Stopping, Exhausted, Halted, vars, link, retry, closers
  <2>3. CASE Stop
    BY <2>1, <2>3 DEF Stop, StopBegin, StopClose, StopClosed, StopFinish
  <2>4. CASE stop' = "no" /\ (Connection \/ Discovery \/ Requests \/ \E o \in Ops : Runner(o))
    <3>1. stop = "no"
      BY <2>4
      DEF Connection, PreCloseDone, OpenFails, OpenSucceeds, StopCloseDone,
          RequestWritten, AttemptFails, TokenRead, CompletionFails, Identified,
          IdentifyFails, FailCloseDone, PortError, IoCloseDone, Unplug,
          PortCloseEvent, TimerFires, Telemetry, Discovery, onDeviceIdentified,
          onDeviceLost, LostCloseDone, Requests, enqueueOperation, cancelAll, Runner,
          Write, Written, WriteFails, Failed, WakeUp
    <3> QED BY <2>4, <3>1, LinkStep
  <2> QED BY <2>1, <2>2, <2>3, <2>4 DEF Next
<1> QED BY <1>1, <1>2, TypeCorrect, PTL DEF Spec

-----------------------------------------------------------------------------
(* Queued operations never wait for nobody, although cancelAll and the     *)
(* runners it left behind reset activeOp under each other; and a panel     *)
(* that discovery reports is never left without a port and without         *)
(* anything under way.                                                     *)
THEOREM NothingIsForgotten == Spec => []NothingForgotten
<1>1. TypeOK /\ Work => WorkGetsPickedUp
  BY DEF Work, WorkGetsPickedUp
<1>2. TypeOK /\ Link => NeverStranded
  BY DEF TypeOK, Link, Closers, NeverStranded, Settled, Closing
<1> QED BY <1>1, <1>2, TypeCorrect, WorkInvariance, LinkInvariance, PTL DEF NothingForgotten

(* The host power and the held button that the browser, the keyboard and   *)
(* the mouse are told are those the service stands by, until stop() has    *)
(* ended, and the operation shown as the current one executes.             *)
THEOREM ShownPanelIsTrue == Spec => []ViewIsTrue
<1>1. Claims => NeverOverclaims
  BY DEF Claims, NeverOverclaims, Settled, Stopping
<1>2. Work => ShownOperationRuns
  BY DEF Work
<1> QED BY <1>1, <1>2, ClaimsInvariance, WorkInvariance, PTL DEF ViewIsTrue
=============================================================================
