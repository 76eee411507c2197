------------------------ MODULE CompactFlash_proofs ------------------------
(***************************************************************************)
(* The two halves of the CF imager service: the reader with its scripts,   *)
(* for any number of polls, probes, processes and changes of the reader;   *)
(* and the image files, for any names and contents, any number of commands *)
(* one after another, and any number of failures.                          *)
(***************************************************************************)
EXTENDS MCCompactFlash, SequenceTheorems, TLAPS

-----------------------------------------------------------------------------
(* The reader.  Its state, a part for each group of variables.             *)
Findings == Imager!Paths \cup {None}
Scripts == [kind : Imager!Kinds, attached : BOOLEAN]
ProbeOf == [prev : Imager!Media, card : BOOLEAN]
RequestOf == [kind : Imager!Kinds, prev : Imager!Media, stage : {"probe", "stat"}, card : BOOLEAN]

PollsType ==
  /\ reader \in {"gone", "empty", "card"} /\ stopped \in BOOLEAN
  /\ lastDevice \in Findings
  /\ polls \in Seq(Findings) /\ Len(polls) <= MaxPolls

ServiceType ==
  /\ device \in Findings /\ media \in Imager!Media
  /\ phase \in Imager!Phases /\ op \in Imager!Kinds \cup {None}

ProbesType ==
  /\ arriving \in 0..2
  /\ probes \in Seq(ProbeOf) /\ Len(probes) <= MaxProbes

PendingType == pending \in Seq(RequestOf) /\ Len(pending) <= MaxPending

SliceType == imagerView \in Imager!Views /\ overlay \in BOOLEAN

ScriptType ==
  /\ child \in Processes \cup {None}
  /\ script \in [Processes -> Scripts \cup {None}] /\ watchdog \in BOOLEAN

(* The one process that the service listens to is its child, which it has  *)
(* only for a reader it holds to be there, and which reads when the        *)
(* watchdog is silent.                                                     *)
OneChild ==
  /\ child # None => script[child] # None /\ script[child].attached
  /\ \A p \in Processes : script[p] # None /\ script[p].attached => p = child
  /\ device = None => child = None
  /\ Imager!WatchdogReturns

(* A request that is on its way finds no child when it gets there.         *)
RequestWaits == Len(pending) <= 1 /\ (pending # <<>> => child = None)

ReaderInv ==
  /\ PollsType /\ ServiceType /\ ProbesType /\ PendingType /\ SliceType /\ ScriptType
  /\ OneChild /\ RequestWaits

-----------------------------------------------------------------------------
(* Sequences of what is in flight.                                         *)
LEMMA Removed ==
  ASSUME NEW S, NEW q \in Seq(S), NEW i \in DOMAIN q
  PROVE  /\ Imager!RemoveAt(q, i) \in Seq(S) /\ Len(Imager!RemoveAt(q, i)) = Len(q) - 1
         /\ Len(q) \in Nat /\ q[i] \in S
<1>1. Len(q) \in Nat /\ i \in 1..Len(q)
  BY LenProperties
<1> DEFINE a == SubSeq(q, 1, i - 1)
           b == SubSeq(q, i + 1, Len(q))
<1>2. a \in Seq(S) /\ Len(a) = i - 1
  BY <1>1, SubSeqProperties
<1>3. b \in Seq(S) /\ Len(b) = Len(q) - i
  <2>1. i + 1 \in 1..(Len(q) + 1) /\ Len(q) \in (i + 1 - 1)..Len(q)
    BY <1>1
  <2>2. b \in Seq(S) /\ Len(b) = IF i + 1 <= Len(q) THEN Len(q) - (i + 1) + 1 ELSE 0
    BY <1>1, <2>1, SubSeqProperties
  <2> QED
    BY <1>1, <2>2
<1> HIDE DEF a, b
<1>4. a \o b \in Seq(S) /\ Len(a \o b) = Len(a) + Len(b)
  BY <1>2, <1>3, ConcatProperties
<1>5. q[i] \in S
  BY <1>1, ElementOfSeq
<1> QED
  <2>1. Imager!RemoveAt(q, i) = a \o b
    BY DEF Imager!RemoveAt, a, b
  <2> QED
    BY <1>1, <1>2, <1>3, <1>4, <1>5, <2>1

LEMMA Appended ==
  ASSUME NEW S, NEW q \in Seq(S), NEW x \in S
  PROVE  /\ Append(q, x) \in Seq(S) /\ Len(Append(q, x)) = Len(q) + 1
         /\ Len(q) \in Nat /\ Append(q, x) # <<>>
  BY AppendProperties, LenProperties, EmptySeq

(* The slice.                                                              *)
LEMMA ViewsKept ==
  ASSUME NEW v \in Imager!Views
  PROVE  /\ \A d \in Imager!Paths : Imager!OnIdentified(v, d) \in Imager!Views
         /\ Imager!OnDisconnected(v) \in Imager!Views
         /\ \A m \in Imager!Media, d \in Findings : Imager!OnMedia(v, m, d) \in Imager!Views
         /\ \A k \in Imager!Kinds : Imager!OnRunning(v, k) \in Imager!Views
         /\ Imager!OnCompleted(v) \in Imager!Views
         /\ Imager!OnError(v) \in Imager!Views
  BY DEF Findings, Imager!Views, Imager!Phases, Imager!Media, Imager!OnIdentified,
     Imager!OnDisconnected, Imager!OnMedia, Imager!OnRunning, Imager!OnCompleted,
     Imager!OnError

LEMMA Shows ==
  ASSUME SliceType, NEW v \in Imager!Views, Imager!Show(v)
  PROVE  SliceType'
<1>1. imagerView' = v /\ overlay' = Imager!OverlayAfter(imagerView, v)
  BY DEF Imager!Show
<1>2. Imager!OverlayAfter(imagerView, v) \in {FALSE, overlay}
  BY Zenon DEF Imager!OverlayAfter
<1> QED
  BY <1>1, <1>2, Zenon DEF SliceType

LEMMA ErrorTypes ==
  ASSUME ServiceType, SliceType, Imager!EmitError, UNCHANGED <<device, op>>
  PROVE  ServiceType' /\ SliceType'
<1>1. ServiceType'
  BY DEF Imager!EmitError, ServiceType, Imager!Phases, Imager!Media
<1>2. Imager!OnError(imagerView) \in Imager!Views
  BY ViewsKept DEF SliceType
<1> QED
  BY <1>1, <1>2, Shows DEF Imager!EmitError

-----------------------------------------------------------------------------
(* The scripts.                                                            *)
Unheeded == \A p \in Processes : script[p] # None => ~script[p].attached

LEMMA NoChild ==
  ASSUME child' = None, Unheeded', stopped' \/ watchdog'
  PROVE  OneChild'
  BY DEF OneChild, Unheeded, Imager!WatchdogReturns

(* The child loses its listeners, and was the only process that had them. *)
LEMMA Detached ==
  ASSUME ScriptType, OneChild,
         script' = IF child = None THEN script ELSE [script EXCEPT ![child].attached = FALSE]
  PROVE  script' \in [Processes -> Scripts \cup {None}] /\ Unheeded'
<1>1. CASE child = None
  <2>1. script' = script
    BY <1>1
  <2>2. \A p \in Processes : script[p] # None => ~script[p].attached
    BY <1>1, CompactFlashAssumption, Zenon DEF CompactFlashAssumption, OneChild
  <2> QED
    BY <2>1, <2>2, Zenon DEF ScriptType, Unheeded
<1>2. CASE child # None
  <2>1. child \in Processes /\ script[child] \in Scripts
    BY <1>2 DEF ScriptType, OneChild
  <2>2. [script[child] EXCEPT !.attached = FALSE] \in Scripts
        /\ ~[script[child] EXCEPT !.attached = FALSE].attached
    BY <2>1, Zenon DEF Scripts
  <2>3. script' = [script EXCEPT ![child] = [script[child] EXCEPT !.attached = FALSE]]
    BY <1>2
  <2>4. script' \in [Processes -> Scripts \cup {None}]
    BY <2>2, <2>3, Zenon DEF ScriptType
  <2>5. Unheeded'
    BY <2>1, <2>2, <2>3 DEF ScriptType, OneChild, Unheeded
  <2> QED
    BY <2>4, <2>5
<1> QED
  BY <1>1, <1>2

LEMMA CancelLeavesNone ==
  ASSUME ScriptType, OneChild, Imager!CancelCurrentChild
  PROVE  child' = None /\ ScriptType' /\ Unheeded' /\ (stopped \/ watchdog')
<1>1. /\ child' = None /\ watchdog' = (watchdog \/ child # None)
      /\ script' = IF child = None THEN script ELSE [script EXCEPT ![child].attached = FALSE]
  BY DEF Imager!CancelCurrentChild
<1>2. stopped \/ watchdog'
  BY <1>1, Zenon DEF OneChild, Imager!WatchdogReturns
<1>3. watchdog' \in BOOLEAN
  BY <1>1, Zenon DEF ScriptType
<1>4. script' \in [Processes -> Scripts \cup {None}] /\ Unheeded'
  BY <1>1, Detached
<1> QED
  BY <1>1, <1>2, <1>3, <1>4, Zenon DEF ScriptType

(* A script is started for a reader that is there, with no other running.  *)
LEMMA StartedAlone ==
  ASSUME ScriptType, OneChild, child = None, NEW kind \in Imager!Kinds,
         Imager!Start(kind), device # None, UNCHANGED <<device, stopped>>
  PROVE  /\ ScriptType' /\ OneChild' /\ phase' = "busy" /\ op' = kind
<1>1. PICK p \in Processes :
        /\ script[p] = None /\ phase' = "busy" /\ op' = kind /\ child' = p
        /\ script' = [script EXCEPT ![p] = [kind |-> kind, attached |-> TRUE]]
        /\ watchdog' = (watchdog /\ kind # "read")
  BY DEF Imager!Start
<1>2. p # None
  BY CompactFlashAssumption DEF CompactFlashAssumption
<1> DEFINE r == [kind |-> kind, attached |-> TRUE]
<1>3. r \in Scripts /\ r.attached /\ r.kind = kind
  BY Zenon DEF Scripts
<1>4. script' \in [Processes -> Scripts \cup {None}]
  BY <1>1, <1>3, Zenon DEF ScriptType
<1>5. watchdog' \in BOOLEAN /\ (~watchdog' /\ ~stopped => kind = "read")
  BY <1>1, Zenon DEF ScriptType, OneChild, Imager!WatchdogReturns
<1> HIDE DEF r
<1>6. ScriptType'
  BY <1>1, <1>4, <1>5, Zenon DEF ScriptType
<1>7. script'[p] = r /\ \A q \in Processes : q # p => script'[q] = script[q]
  BY <1>1 DEF ScriptType, r
<1>8. \A q \in Processes : script[q] # None => ~script[q].attached
  BY CompactFlashAssumption, Zenon DEF CompactFlashAssumption, OneChild
<1>9. script'[p] # None
  BY <1>3, <1>7, CompactFlashAssumption DEF CompactFlashAssumption, Scripts
<1> QED
  BY <1>1, <1>2, <1>3, <1>5, <1>6, <1>7, <1>8, <1>9 DEF OneChild, Imager!WatchdogReturns

LEMMA SameScripts ==
  ASSUME ScriptType, OneChild, UNCHANGED <<child, script, watchdog, stopped>>,
         device' # None \/ device' = device
  PROVE  ScriptType' /\ OneChild'
  BY DEF ScriptType, OneChild, Imager!WatchdogReturns

LEMMA SamePending ==
  ASSUME PendingType, RequestWaits, pending' = pending, child' = child \/ child' = None
  PROVE  PendingType' /\ RequestWaits'
  BY DEF PendingType, RequestWaits

LEMMA ReaderStarts == Imager!Init => ReaderInv
<1> SUFFICES ASSUME Imager!Init
             PROVE  ReaderInv
  OBVIOUS
<1>1. <<>> \in Seq(Findings) /\ <<>> \in Seq(ProbeOf) /\ <<>> \in Seq(RequestOf) /\ Len(<<>>) = 0
  BY EmptySeq
<1>2. MaxPolls \in Nat /\ MaxProbes \in Nat /\ MaxPending \in Nat
  BY CompactFlashAssumption DEF CompactFlashAssumption
<1>3. PollsType /\ ProbesType /\ PendingType
  <2>1. 0 \in 0..2 /\ 0 <= MaxPolls /\ 0 <= MaxProbes /\ 0 <= MaxPending
    BY <1>2
  <2> QED
    BY <1>1, <2>1, Zenon DEF Imager!Init, PollsType, ProbesType, PendingType, Findings
<1>4. ServiceType /\ ScriptType /\ SliceType
  BY Zenon DEF Imager!Init, ServiceType, ScriptType, SliceType, Findings, Imager!Views,
     Imager!Phases, Imager!Media
<1>5. OneChild
  BY CompactFlashAssumption DEF Imager!Init, OneChild, Imager!WatchdogReturns
<1>6. RequestWaits
  BY <1>1, SMT DEF Imager!Init, RequestWaits
<1> QED
  BY <1>3, <1>4, <1>5, <1>6 DEF ReaderInv

(* A poll has answered, and the reader may be lost, or another.            *)
LEMMA PolledKeeps ==
  ASSUME ReaderInv, NEW i \in DOMAIN polls, Imager!Polled(i)
  PROVE  ReaderInv'
<1>1. PollsType /\ ServiceType /\ ProbesType /\ PendingType /\ SliceType /\ ScriptType
      /\ OneChild /\ RequestWaits
  BY DEF ReaderInv
<1>2. /\ arriving < 2 /\ polls' = Imager!RemoveAt(polls, i) /\ lastDevice' = polls[i]
      /\ UNCHANGED <<reader, probes, pending, stopped>>
      /\ \/ UNCHANGED <<device, media, phase, op, arriving, child, script, watchdog,
                        imagerView, overlay>>
         \/ Imager!Lost
         \/ polls[i] # None /\ Imager!Identified(polls[i])
  BY Zenon DEF Imager!Polled, Imager!News
<1>3. /\ polls' \in Seq(Findings) /\ Len(polls') = Len(polls) - 1 /\ Len(polls) \in Nat
      /\ polls[i] \in Findings
  BY <1>1, <1>2, Removed DEF PollsType
<1>4. PollsType'
  BY <1>1, <1>2, <1>3, CompactFlashAssumption DEF PollsType, CompactFlashAssumption
<1>5. CASE UNCHANGED <<device, media, phase, op, arriving, child, script, watchdog,
                       imagerView, overlay>>
  <2>1. ServiceType' /\ ProbesType' /\ SliceType'
    BY <1>1, <1>2, <1>5, Zenon DEF ServiceType, ProbesType, SliceType
  <2> QED
    BY <1>1, <1>2, <1>4, <1>5, <2>1, SameScripts, SamePending DEF ReaderInv
<1>6. CASE Imager!Lost
  <2>1. /\ device' = None /\ phase' = "disconnected" /\ media' = "none"
        /\ Imager!CancelCurrentChild /\ Imager!Show(Imager!OnDisconnected(imagerView))
        /\ UNCHANGED <<op, arriving>>
    BY <1>6 DEF Imager!Lost
  <2>2. child' = None /\ ScriptType' /\ OneChild'
    BY <1>1, <1>2, <2>1, CancelLeavesNone, NoChild
  <2>3. SliceType'
    BY <1>1, <2>1, ViewsKept, Shows DEF SliceType
  <2>4. ServiceType' /\ ProbesType'
    BY <1>1, <1>2, <2>1, Zenon
       DEF ServiceType, ProbesType, Findings, Imager!Media, Imager!Phases
  <2> QED
    BY <1>1, <1>2, <1>4, <2>2, <2>3, <2>4, SamePending DEF ReaderInv
<1>7. CASE polls[i] # None /\ Imager!Identified(polls[i])
  <2>1. /\ device' = polls[i] /\ phase' = "idle" /\ media' = "unknown"
        /\ arriving' = arriving + 1 /\ UNCHANGED <<op, child, script, watchdog>>
        /\ Imager!Show(Imager!OnIdentified(imagerView, polls[i])) /\ device' # None
    BY <1>7 DEF Imager!Identified
  <2>2. polls[i] \in Imager!Paths
    BY <1>3, <1>7 DEF Findings
  <2>3. SliceType'
    BY <1>1, <2>1, <2>2, ViewsKept, Shows DEF SliceType
  <2>4. arriving' \in 0..2
    BY <1>1, <1>2, <2>1, SMT DEF ProbesType
  <2>5. ServiceType' /\ ProbesType'
    BY <1>1, <1>2, <1>3, <2>1, <2>4, Zenon
       DEF ServiceType, ProbesType, Imager!Media, Imager!Phases
  <2> QED
    BY <1>1, <1>2, <1>4, <2>1, <2>3, <2>5, SameScripts, SamePending DEF ReaderInv
<1> QED
  BY <1>2, <1>5, <1>6, <1>7

(* The status of the card is shown if it changed.                          *)
LEMMA MediaShown ==
  ASSUME SliceType, NEW m \in Imager!Media, NEW n, NEW d \in Findings,
         IF m # n THEN Imager!Show(Imager!OnMedia(imagerView, m, d)) ELSE Imager!Quiet
  PROVE  SliceType'
<1>1. CASE m # n
  <2>1. Imager!OnMedia(imagerView, m, d) \in Imager!Views
    BY ViewsKept DEF SliceType
  <2> QED
    BY <1>1, <2>1, Shows
<1>2. CASE m = n
  BY <1>2, Zenon DEF SliceType, Imager!Quiet
<1> QED
  BY <1>1, <1>2

LEMMA ProbesKeep ==
  ASSUME ReaderInv, Imager!Probe \/ \E i \in DOMAIN probes : Imager!Probed(i)
  PROVE  ReaderInv'
<1>1. PollsType /\ ServiceType /\ ProbesType /\ PendingType /\ SliceType /\ ScriptType
      /\ OneChild /\ RequestWaits
  BY DEF ReaderInv
<1>2. UNCHANGED <<reader, lastDevice, polls, device, phase, op, pending, child, script,
                  watchdog, stopped>>
  BY DEF Imager!Probe, Imager!Probed, Imager!discovery
<1>3. PollsType' /\ ScriptType' /\ OneChild' /\ PendingType' /\ RequestWaits'
  BY <1>1, <1>2, SameScripts, SamePending, Zenon DEF PollsType
<1>4. SUFFICES ProbesType' /\ SliceType' /\ media' \in Imager!Media
  BY <1>1, <1>2, <1>3, Zenon DEF ReaderInv, ServiceType
<1>5. /\ arriving \in 0..2 /\ probes \in Seq(ProbeOf) /\ Len(probes) <= MaxProbes
      /\ media \in Imager!Media /\ device \in Findings /\ MaxProbes \in Nat
  BY <1>1, CompactFlashAssumption DEF ProbesType, ServiceType, CompactFlashAssumption
<1>6. CASE Imager!Probe
  <2>1. arriving > 0 /\ arriving' = arriving - 1
    BY <1>6, Zenon DEF Imager!Probe
  <2>2. CASE device = "disk"
    <3>1. /\ Len(probes) < MaxProbes /\ media' = media /\ Imager!Quiet
          /\ probes' = Append(probes, [prev |-> media, card |-> reader = "card"])
      BY <1>6, <2>2, Zenon DEF Imager!Probe
    <3>2. [prev |-> media, card |-> reader = "card"] \in ProbeOf
      BY <1>5, Zenon DEF ProbeOf
    <3>3. ProbesType'
      BY <1>5, <2>1, <3>1, <3>2, Appended DEF ProbesType
    <3> QED
      BY <1>1, <1>5, <3>1, <3>3, Zenon DEF SliceType, Imager!Quiet
  <2>3. CASE device # "disk"
    <3>1. Imager!Answer("none") /\ probes' = probes
      BY <1>6, <2>3, Zenon DEF Imager!Probe
    <3>2. media' = "none" /\ "none" \in Imager!Media
      BY <3>1 DEF Imager!Answer, Imager!Media
    <3>3. IF "none" # media THEN Imager!Show(Imager!OnMedia(imagerView, "none", device))
          ELSE Imager!Quiet
      BY <3>1, Zenon DEF Imager!Answer
    <3>5. SliceType'
      BY <1>1, <1>5, <3>2, <3>3, MediaShown
    <3>4. ProbesType'
      BY <1>5, <2>1, <3>1 DEF ProbesType
    <3> QED
      BY <3>2, <3>4, <3>5
  <2> QED
    BY <2>2, <2>3
<1>7. CASE \E i \in DOMAIN probes : Imager!Probed(i)
  <2>1. PICK i \in DOMAIN probes : Imager!Probed(i)
    BY <1>7
  <2>2. /\ probes' = Imager!RemoveAt(probes, i) /\ arriving' = arriving
        /\ \E m \in Imager!Sizes(probes[i]) : Imager!Size(probes[i], m, device)
    BY <2>1 DEF Imager!Probed
  <2>3. PICK m \in Imager!Sizes(probes[i]) : Imager!Size(probes[i], m, device)
    BY <2>2
  <2>4. m \in Imager!Media /\ media' = m
    BY <2>3 DEF Imager!Sizes, Imager!Size, Imager!Media
  <2>5. SliceType'
    <3>1. IF m # probes[i].prev THEN Imager!Show(Imager!OnMedia(imagerView, m, device))
          ELSE Imager!Quiet
      BY <2>3, Zenon DEF Imager!Size
    <3> QED
      BY <1>1, <1>5, <2>4, <3>1, MediaShown
  <2>6. ProbesType'
    BY <1>5, <2>2, Removed DEF ProbesType
  <2> QED
    BY <2>4, <2>5, <2>6
<1> QED
  BY <1>6, <1>7

(* Two requests are never on their way at once: the hypothesis of all that *)
(* follows about the reader.                                               *)
OneRequest == MaxPending <= 1

(* A request joins those that wait for their probe, or is refused.         *)
LEMMA Joins ==
  ASSUME PendingType, RequestWaits, OneRequest, Len(pending) < MaxPending, child = None,
         NEW kind \in Imager!Kinds, media \in Imager!Media, child' = child,
         pending' = Append(pending, [kind |-> kind, prev |-> media, stage |-> "probe",
                                     card |-> reader = "card"])
  PROVE  PendingType' /\ RequestWaits'
<1> DEFINE r == [kind |-> kind, prev |-> media, stage |-> "probe", card |-> reader = "card"]
<1>1. r \in RequestOf
  BY Zenon DEF RequestOf
<1> HIDE DEF r
<1>2. pending' = Append(pending, r)
  BY DEF r
<1>3. /\ pending' \in Seq(RequestOf) /\ Len(pending') = Len(pending) + 1
      /\ Len(pending) \in Nat /\ MaxPending \in Nat
  BY <1>1, <1>2, Appended, CompactFlashAssumption DEF PendingType, CompactFlashAssumption
<1>4. Len(pending') <= MaxPending /\ Len(pending') <= 1
  BY <1>3 DEF OneRequest
<1> QED
  BY <1>3, <1>4 DEF PendingType, RequestWaits

LEMMA RequestsKeep ==
  ASSUME ReaderInv, OneRequest, Imager!ClientAsks \/ Imager!PaneAsks
  PROVE  ReaderInv'
<1>1. PollsType /\ ServiceType /\ ProbesType /\ PendingType /\ SliceType /\ ScriptType
      /\ OneChild /\ RequestWaits
  BY DEF ReaderInv
<1>2. UNCHANGED <<reader, lastDevice, polls, device, op, arriving, probes, child, script,
                  watchdog, stopped>>
  BY DEF Imager!ClientAsks, Imager!Request, Imager!PaneAsks, Imager!discovery
<1>3. PollsType' /\ ProbesType' /\ ScriptType' /\ OneChild'
  BY <1>1, <1>2, SameScripts, Zenon DEF PollsType, ProbesType
<1>4. SUFFICES ServiceType' /\ SliceType' /\ PendingType' /\ RequestWaits'
  BY <1>3 DEF ReaderInv
<1>5. media \in Imager!Media /\ device \in Findings
  BY <1>1 DEF ServiceType
<1>6. CASE Imager!ClientAsks
  <2>1. PICK kind \in Imager!Kinds : Imager!Request(kind)
    BY <1>6 DEF Imager!ClientAsks
  <2>2. CASE device = None \/ Imager!Busy
    <3>1. Imager!EmitError /\ pending' = pending
      BY <2>1, <2>2, Zenon DEF Imager!Request
    <3> QED
      BY <1>1, <1>2, <3>1, ErrorTypes, SamePending
  <2>3. CASE ~(device = None \/ Imager!Busy) /\ device = "unmounted"
    <3>1. /\ media' = "none" /\ phase' = "error" /\ pending' = pending
          /\ Imager!Show(Imager!OnError(IF media # "none"
                                        THEN Imager!OnMedia(imagerView, "none", device)
                                        ELSE imagerView))
      BY <2>1, <2>3, Zenon DEF Imager!Request
    <3>2. "none" \in Imager!Media /\ "error" \in Imager!Phases
      BY DEF Imager!Media, Imager!Phases
    <3>3. Imager!OnMedia(imagerView, "none", device) \in Imager!Views
      BY <1>1, <1>5, <3>2, ViewsKept DEF SliceType
    <3>4. SliceType'
      <4> DEFINE v == IF media # "none" THEN Imager!OnMedia(imagerView, "none", device)
                      ELSE imagerView
      <4>1. v \in Imager!Views
        BY <1>1, <3>3 DEF SliceType
      <4>2. Imager!OnError(v) \in Imager!Views
        BY <4>1, ViewsKept
      <4> QED
        BY <1>1, <3>1, <4>2, Shows
    <3>5. ServiceType'
      BY <1>1, <1>2, <3>1, <3>2, Zenon DEF ServiceType
    <3> QED
      BY <1>1, <1>2, <3>1, <3>4, <3>5, SamePending
  <2>4. CASE ~(device = None \/ Imager!Busy) /\ device # "unmounted"
    <3>1. /\ Len(pending) < MaxPending
          /\ pending' = Append(pending, [kind |-> kind, prev |-> media, stage |-> "probe",
                                         card |-> reader = "card"])
          /\ UNCHANGED <<media, phase, imagerView, overlay>>
      BY <2>1, <2>4, Zenon DEF Imager!Request, Imager!Quiet
    <3>2. child = None
      BY <2>4 DEF Imager!Busy
    <3> QED
      BY <1>1, <1>2, <1>5, <3>1, <3>2, Joins DEF ServiceType, SliceType
  <2> QED
    BY <2>2, <2>3, <2>4
<1>7. CASE Imager!PaneAsks
  <2>1. /\ ~Imager!Busy /\ Len(pending) < MaxPending /\ overlay' = TRUE
        /\ UNCHANGED <<media, phase, imagerView>>
    BY <1>7 DEF Imager!PaneAsks
  <2>2. PICK kind \in Imager!Kinds :
          pending' = Append(pending, [kind |-> kind, prev |-> media, stage |-> "probe",
                                      card |-> reader = "card"])
    BY <1>7 DEF Imager!PaneAsks
  <2>3. child = None
    BY <2>1 DEF Imager!Busy
  <2> QED
    BY <1>1, <1>2, <1>5, <2>1, <2>2, <2>3, Joins DEF ServiceType, SliceType
<1> QED
  BY <1>6, <1>7

(* The one request there is leaves.                                        *)
LEMMA Leaves ==
  ASSUME PendingType, RequestWaits, NEW i \in DOMAIN pending,
         pending' = Imager!RemoveAt(pending, i)
  PROVE  PendingType' /\ RequestWaits'
<1>1. /\ pending' \in Seq(RequestOf) /\ Len(pending') = Len(pending) - 1
      /\ Len(pending) \in Nat
  BY Removed DEF PendingType
<1>2. Len(pending') = 0 /\ Len(pending') <= MaxPending
  <2>1. i \in 1..Len(pending) /\ Len(pending) <= 1 /\ MaxPending \in Nat
    BY LenProperties, CompactFlashAssumption
    DEF PendingType, RequestWaits, CompactFlashAssumption
  <2> QED
    BY <1>1, <2>1
<1>3. pending' = <<>>
  BY <1>1, <1>2, EmptySeq
<1> QED
  BY <1>1, <1>2, <1>3 DEF PendingType, RequestWaits

LEMMA WaitsNoLonger ==
  ASSUME PendingType, RequestWaits, NEW i \in DOMAIN pending
  PROVE  /\ child = None /\ pending[i] \in RequestOf
         /\ [pending EXCEPT ![i].stage = "stat"] \in Seq(RequestOf)
         /\ Len([pending EXCEPT ![i].stage = "stat"]) = Len(pending)
<1>1. pending \in Seq(RequestOf) /\ i \in 1..Len(pending) /\ Len(pending) \in Nat
  BY LenProperties DEF PendingType
<1>2. pending # <<>>
  BY <1>1, EmptySeq
<1>3. pending[i] \in RequestOf
  BY <1>1, ElementOfSeq
<1>4. [pending[i] EXCEPT !.stage = "stat"] \in RequestOf
  BY <1>3, Zenon DEF RequestOf
<1> DEFINE r == [pending[i] EXCEPT !.stage = "stat"]
<1> HIDE DEF r
<1>5. [pending EXCEPT ![i] = r] \in Seq(RequestOf) /\ Len([pending EXCEPT ![i] = r]) = Len(pending)
  BY <1>1, <1>4, ExceptSeq DEF r
<1> QED
  BY <1>2, <1>3, <1>5 DEF r, RequestWaits

(* The probe of a request has answered.                                    *)
LEMMA RequestProbedKeeps ==
  ASSUME ReaderInv, NEW i \in DOMAIN pending, Imager!RequestProbed(i)
  PROVE  ReaderInv'
<1>1. PollsType /\ ServiceType /\ ProbesType /\ PendingType /\ SliceType /\ ScriptType
      /\ OneChild /\ RequestWaits
  BY DEF ReaderInv
<1>2. UNCHANGED <<reader, lastDevice, polls, device, arriving, probes, stopped>>
  BY DEF Imager!RequestProbed, Imager!discovery
<1>3. PollsType' /\ ProbesType'
  BY <1>1, <1>2, Zenon DEF PollsType, ProbesType
<1>4. SUFFICES ServiceType' /\ SliceType' /\ PendingType' /\ RequestWaits'
               /\ ScriptType' /\ OneChild'
  BY <1>3 DEF ReaderInv
<1> DEFINE r == pending[i]
           told(m) == IF m # r.prev THEN Imager!OnMedia(imagerView, m, device) ELSE imagerView
<1>5. /\ child = None /\ r \in RequestOf
      /\ [pending EXCEPT ![i].stage = "stat"] \in Seq(RequestOf)
      /\ Len([pending EXCEPT ![i].stage = "stat"]) = Len(pending)
  BY <1>1, WaitsNoLonger
<1>6. PICK m \in Imager!Sizes(r) :
       IF m # "present"
       THEN /\ phase' = (IF device = None THEN "disconnected" ELSE "error")
            /\ media' = (IF device = None THEN "none" ELSE m)
            /\ Imager!Show(Imager!OnError(told(m)))
            /\ pending' = Imager!RemoveAt(pending, i)
            /\ UNCHANGED <<op, child, script, watchdog>>
       ELSE /\ media' = m
            /\ IF r.kind = "write"
               THEN /\ pending' = [pending EXCEPT ![i].stage = "stat"]
                    /\ Imager!Show(told(m))
                    /\ UNCHANGED <<phase, op, child, script, watchdog>>
               ELSE /\ pending' = Imager!RemoveAt(pending, i)
                    /\ IF device = None
                       THEN /\ Imager!Show(told(m))
                            /\ UNCHANGED <<phase, op, child, script, watchdog>>
                       ELSE /\ Imager!Start("read")
                            /\ Imager!Show(Imager!OnRunning(told(m), "read"))
  BY Zenon DEF Imager!RequestProbed
<1>7. m \in Imager!Media /\ {"none", "present"} \subseteq Imager!Media
  BY DEF Imager!Sizes, Imager!Media
<1>8. /\ told(m) \in Imager!Views /\ Imager!OnError(told(m)) \in Imager!Views
      /\ Imager!OnRunning(told(m), "read") \in Imager!Views
  <2>1. Imager!OnMedia(imagerView, m, device) \in Imager!Views
    BY <1>1, <1>7, ViewsKept DEF SliceType, ServiceType
  <2>2. told(m) \in Imager!Views
    BY <1>1, <2>1, Zenon DEF SliceType
  <2>3. "read" \in Imager!Kinds
    BY DEF Imager!Kinds
  <2> HIDE DEF told
  <2> QED
    BY <2>2, <2>3, ViewsKept
<1> HIDE DEF told
<1>9. CASE m # "present"
  <2>1. ServiceType'
    BY <1>1, <1>2, <1>6, <1>7, <1>9, Zenon DEF ServiceType, Imager!Phases, Imager!Media
  <2>2. SliceType'
    BY <1>1, <1>6, <1>8, <1>9, Shows
  <2>3. PendingType' /\ RequestWaits'
    BY <1>1, <1>6, <1>9, Leaves
  <2> QED
    BY <1>1, <1>2, <1>6, <1>9, <2>1, <2>2, <2>3, SameScripts
<1>10. CASE m = "present" /\ r.kind = "write"
  <2>1. /\ media' = m /\ pending' = [pending EXCEPT ![i].stage = "stat"]
        /\ Imager!Show(told(m)) /\ UNCHANGED <<phase, op, child, script, watchdog>>
    BY <1>6, <1>10
  <2>2. ServiceType'
    BY <1>1, <1>2, <1>7, <2>1, Zenon DEF ServiceType
  <2>3. SliceType'
    BY <1>1, <1>8, <2>1, Shows
  <2>4. PendingType' /\ RequestWaits'
    BY <1>1, <1>5, <2>1 DEF PendingType, RequestWaits
  <2> QED
    BY <1>1, <1>2, <2>1, <2>2, <2>3, <2>4, SameScripts
<1>11. CASE m = "present" /\ r.kind # "write"
  <2>1. media' = m /\ PendingType' /\ RequestWaits'
    BY <1>1, <1>6, <1>11, Leaves
  <2>2. CASE device = None
    <3>1. Imager!Show(told(m)) /\ UNCHANGED <<phase, op, child, script, watchdog>>
      BY <1>6, <1>11, <2>2
    <3>2. ServiceType'
      BY <1>1, <1>2, <1>7, <2>1, <3>1, Zenon DEF ServiceType
    <3>3. SliceType'
      BY <1>1, <1>8, <3>1, Shows
    <3> QED
      BY <1>1, <1>2, <2>1, <3>1, <3>2, <3>3, SameScripts
  <2>3. CASE device # None
    <3>1. Imager!Start("read") /\ Imager!Show(Imager!OnRunning(told(m), "read"))
      BY <1>6, <1>11, <2>3
    <3>2. "read" \in Imager!Kinds /\ "busy" \in Imager!Phases
      BY DEF Imager!Kinds, Imager!Phases
    <3>3. ScriptType' /\ OneChild' /\ phase' = "busy" /\ op' = "read"
      BY <1>1, <1>2, <1>5, <2>3, <3>1, <3>2, StartedAlone
    <3>4. ServiceType'
      BY <1>1, <1>2, <1>7, <2>1, <3>2, <3>3, Zenon DEF ServiceType
    <3>5. SliceType'
      BY <1>1, <1>8, <3>1, Shows
    <3> QED
      BY <2>1, <3>3, <3>4, <3>5
  <2> QED
    BY <2>2, <2>3
<1> QED
  BY <1>9, <1>10, <1>11

LEMMA ImageKeeps ==
  ASSUME ReaderInv, NEW i \in DOMAIN pending, Imager!ImageFound(i) \/ Imager!ImageMissing(i)
  PROVE  ReaderInv'
<1>1. PollsType /\ ServiceType /\ ProbesType /\ PendingType /\ SliceType /\ ScriptType
      /\ OneChild /\ RequestWaits
  BY DEF ReaderInv
<1>2. /\ UNCHANGED <<reader, lastDevice, polls, device, arriving, probes, stopped>>
      /\ pending' = Imager!RemoveAt(pending, i)
  BY DEF Imager!ImageFound, Imager!ImageMissing, Imager!discovery
<1>3. PollsType' /\ ProbesType' /\ PendingType' /\ RequestWaits'
  BY <1>1, <1>2, Leaves, Zenon DEF PollsType, ProbesType
<1>4. SUFFICES ServiceType' /\ SliceType' /\ ScriptType' /\ OneChild'
  BY <1>3 DEF ReaderInv
<1>5. child = None
  BY <1>1, WaitsNoLonger
<1>6. {"idle", "busy"} \subseteq Imager!Phases /\ "write" \in Imager!Kinds
      /\ "none" \in Imager!Media
  BY DEF Imager!Phases, Imager!Kinds, Imager!Media
<1>7. /\ Imager!OnError(imagerView) \in Imager!Views
      /\ Imager!OnRunning(imagerView, "write") \in Imager!Views
  BY <1>1, <1>6, ViewsKept DEF SliceType
<1>8. CASE Imager!ImageFound(i) /\ device = None
  <2>1. UNCHANGED <<media, phase, op, child, script, watchdog, imagerView, overlay>>
    BY <1>8, Zenon DEF Imager!ImageFound, Imager!Quiet
  <2> QED
    BY <1>1, <1>2, <2>1, SameScripts DEF ServiceType, SliceType
<1>9. CASE Imager!ImageFound(i) /\ device # None
  <2>1. Imager!Start("write") /\ Imager!Show(Imager!OnRunning(imagerView, "write"))
        /\ media' = media
    BY <1>9, Zenon DEF Imager!ImageFound
  <2>2. ScriptType' /\ OneChild' /\ phase' = "busy" /\ op' = "write"
    BY <1>1, <1>2, <1>5, <1>6, <1>9, <2>1, StartedAlone
  <2>3. ServiceType'
    BY <1>1, <1>2, <1>6, <2>1, <2>2, Zenon DEF ServiceType
  <2> QED
    BY <1>1, <1>7, <2>1, <2>2, <2>3, Shows
<1>10. CASE Imager!ImageMissing(i)
  <2>1. /\ phase' = "idle" /\ media' = IF device = None THEN "none" ELSE media
        /\ Imager!Show(Imager!OnError(imagerView)) /\ UNCHANGED <<op, child, script, watchdog>>
    BY <1>10 DEF Imager!ImageMissing
  <2>2. ServiceType'
    BY <1>1, <1>2, <1>6, <2>1, Zenon DEF ServiceType
  <2> QED
    BY <1>1, <1>2, <1>7, <2>1, <2>2, SameScripts, Shows
<1> QED
  BY <1>8, <1>9, <1>10

(* A script tells of its progress, or ends.                                *)
LEMMA ScriptsKeep ==
  ASSUME ReaderInv, NEW p \in Processes, Imager!Progress(p) \/ Imager!Exits(p)
  PROVE  ReaderInv'
<1>1. PollsType /\ ServiceType /\ ProbesType /\ PendingType /\ SliceType /\ ScriptType
      /\ OneChild /\ RequestWaits
  BY DEF ReaderInv
<1>2. /\ UNCHANGED <<reader, lastDevice, polls, device, arriving, probes, pending, stopped>>
      /\ script[p] \in Scripts
  <2>1. script[p] # None
    BY DEF Imager!Progress, Imager!Exits, Imager!Running
  <2> QED
    BY <1>1, <2>1 DEF ScriptType, Imager!Progress, Imager!Exits, Imager!discovery,
       Imager!service
<1>3. PollsType' /\ ProbesType'
  BY <1>1, <1>2, Zenon DEF PollsType, ProbesType
<1>4. CASE Imager!Progress(p)
  <2>1. /\ op = script[p].kind /\ Imager!Show(Imager!OnRunning(imagerView, op))
        /\ UNCHANGED <<media, phase, op, child, script, watchdog>>
    BY <1>4 DEF Imager!Progress, Imager!service
  <2>2. op \in Imager!Kinds
    BY <1>2, <2>1 DEF Scripts
  <2>3. SliceType'
    BY <1>1, <2>1, <2>2, ViewsKept, Shows DEF SliceType
  <2>4. ServiceType'
    BY <1>1, <1>2, <2>1, Zenon DEF ServiceType
  <2> QED
    BY <1>1, <1>2, <1>3, <2>1, <2>3, <2>4, SameScripts, SamePending DEF ReaderInv
<1>5. CASE Imager!Exits(p)
  <2>1. script' = [script EXCEPT ![p] = None]
    BY <1>5 DEF Imager!Exits
  <2>2. /\ script' \in [Processes -> Scripts \cup {None}] /\ script'[p] = None
        /\ \A q \in Processes : q # p => script'[q] = script[q]
    BY <1>1, <2>1 DEF ScriptType
  <2>3. CASE ~script[p].attached
    <3>1. UNCHANGED <<media, phase, op, child, watchdog, imagerView, overlay>>
      BY <1>5, <2>3, Zenon DEF Imager!Exits, Imager!Quiet
    <3>2. child # p
      BY <1>1, <2>3, CompactFlashAssumption DEF OneChild, CompactFlashAssumption
    <3>3. child # None => child \in Processes /\ script'[child] = script[child]
      BY <1>1, <2>2, <3>2 DEF ScriptType
    <3>4. ServiceType' /\ SliceType' /\ ScriptType'
      BY <1>1, <1>2, <2>2, <3>1, Zenon DEF ServiceType, SliceType, ScriptType
    <3>5. OneChild'
      BY <1>1, <1>2, <2>2, <3>1, <3>3 DEF OneChild, Imager!WatchdogReturns
    <3> QED
      BY <1>1, <1>2, <1>3, <3>1, <3>4, <3>5, SamePending DEF ReaderInv
  <2>4. CASE script[p].attached
    <3>1. /\ child' = None /\ op' = None /\ watchdog' = TRUE
          /\ \/ phase' = "idle" /\ Imager!Show(Imager!OnCompleted(imagerView)) /\ media' = media
             \/ Imager!EmitError
      BY <1>5, <2>4, Zenon DEF Imager!Exits
    <3>2. child = p
      BY <1>1, <1>2, <2>4, CompactFlashAssumption
      DEF OneChild, CompactFlashAssumption, Scripts
    <3>3. Unheeded'
      BY <1>1, <2>2, <3>2 DEF OneChild, Unheeded
    <3>4. OneChild' /\ ScriptType'
      BY <2>2, <3>1, <3>3, NoChild DEF ScriptType
    <3>5. /\ Imager!OnCompleted(imagerView) \in Imager!Views
          /\ Imager!OnError(imagerView) \in Imager!Views
      BY <1>1, ViewsKept DEF SliceType
    <3>6. SliceType'
      BY <1>1, <3>1, <3>5, Shows DEF Imager!EmitError
    <3>7. ServiceType'
      BY <1>1, <1>2, <3>1 DEF ServiceType, Imager!EmitError, Imager!Phases, Imager!Media
    <3> QED
      BY <1>1, <1>2, <1>3, <3>1, <3>4, <3>6, <3>7, SamePending DEF ReaderInv
  <2> QED
    BY <2>3, <2>4
<1> QED
  BY <1>4, <1>5
(* The rest: the reader changes, a poll looks at it, the service stops.    *)
LEMMA QuietKeeps ==
  ASSUME ReaderInv, Imager!Change \/ Imager!PollBegin \/ UNCHANGED imagerVars
  PROVE  ReaderInv'
<1>1. PollsType /\ ServiceType /\ ProbesType /\ PendingType /\ SliceType /\ ScriptType
      /\ OneChild /\ RequestWaits
  BY DEF ReaderInv
<1>2. UNCHANGED <<lastDevice, device, media, phase, op, arriving, probes, pending, child,
                  script, watchdog, imagerView, overlay, stopped>>
  BY DEF Imager!Change, Imager!PollBegin, imagerVars, Imager!discovery, Imager!service
<1>3. /\ ServiceType' /\ ProbesType' /\ PendingType' /\ SliceType' /\ ScriptType'
      /\ OneChild' /\ RequestWaits'
  BY <1>1, <1>2, SameScripts, SamePending, Zenon DEF ServiceType, ProbesType, SliceType
<1>4. SUFFICES PollsType'
  BY <1>3 DEF ReaderInv
<1>5. CASE Imager!Change
  <2>1. reader' \in {"gone", "empty", "card"} /\ polls' = polls
    BY <1>5 DEF Imager!Change, Imager!discovery
  <2> QED
    BY <1>1, <1>2, <2>1, Zenon DEF PollsType
<1>6. CASE Imager!PollBegin
  <2>1. Len(polls) < MaxPolls /\ polls' = Append(polls, Imager!Finding) /\ reader' = reader
    BY <1>6 DEF Imager!PollBegin
  <2>2. Imager!Finding \in Findings
    BY Zenon DEF Imager!Finding, Findings, Imager!Paths
  <2>3. /\ polls' \in Seq(Findings) /\ Len(polls') = Len(polls) + 1 /\ Len(polls) \in Nat
    BY <1>1, <2>1, <2>2, Appended DEF PollsType
  <2>4. Len(polls') <= MaxPolls
    BY <2>1, <2>3, CompactFlashAssumption DEF CompactFlashAssumption
  <2> QED
    BY <1>1, <1>2, <2>1, <2>3, <2>4, Zenon DEF PollsType
<1>7. CASE UNCHANGED imagerVars
  BY <1>1, <1>7, Zenon DEF imagerVars, PollsType
<1> QED
  BY <1>5, <1>6, <1>7

LEMMA StopKeeps ==
  ASSUME ReaderInv, Imager!Stop
  PROVE  ReaderInv'
<1>1. PollsType /\ ServiceType /\ ProbesType /\ PendingType /\ SliceType /\ ScriptType
      /\ OneChild /\ RequestWaits
  BY DEF ReaderInv
<1>2. /\ stopped' = TRUE /\ child' = None /\ watchdog' = (child # None)
      /\ script' = IF child = None THEN script ELSE [script EXCEPT ![child].attached = FALSE]
      /\ device' = None /\ phase' = "disconnected" /\ media' = "none"
      /\ IF child = None THEN Imager!Quiet
         ELSE Imager!Show(Imager!OnDisconnected(imagerView))
      /\ lastDevice' = None
      /\ UNCHANGED <<reader, polls, op, arriving, probes, pending>>
  BY DEF Imager!Stop
<1>3. PollsType' /\ ServiceType' /\ ProbesType'
  BY <1>1, <1>2, Zenon DEF PollsType, ServiceType, ProbesType, Findings, Imager!Media,
     Imager!Phases
<1>4. PendingType' /\ RequestWaits'
  BY <1>1, <1>2, SamePending
<1>5. SliceType'
  <2>1. CASE child = None
    BY <1>1, <1>2, <2>1, Zenon DEF SliceType, Imager!Quiet
  <2>2. CASE child # None
    BY <1>1, <1>2, <2>2, ViewsKept, Shows DEF SliceType
  <2> QED
    BY <2>1, <2>2
<1>6. script' \in [Processes -> Scripts \cup {None}] /\ Unheeded'
  BY <1>1, <1>2, Detached
<1>7. ScriptType'
  BY <1>2, <1>6, Zenon DEF ScriptType
<1>8. OneChild'
  BY <1>2, <1>6, NoChild
<1> QED
  BY <1>3, <1>4, <1>5, <1>7, <1>8 DEF ReaderInv

LEMMA ReaderKept ==
  ASSUME ReaderInv, OneRequest, Imager!Next \/ UNCHANGED imagerVars
  PROVE  ReaderInv'
<1>1. CASE Imager!Continue
  BY <1>1, PolledKeeps, ProbesKeep, RequestProbedKeeps, ImageKeeps DEF Imager!Continue
<1>2. CASE Imager!ClientAsks \/ Imager!PaneAsks
  BY <1>2, RequestsKeep
<1>3. CASE Imager!Change \/ Imager!PollBegin \/ UNCHANGED imagerVars
  BY <1>3, QuietKeeps
<1>4. CASE Imager!Stop
  BY <1>4, StopKeeps
<1>5. CASE \E p \in Processes : Imager!Progress(p) \/ Imager!Exits(p)
  BY <1>5, ScriptsKeep
<1>6. CASE Imager!Halted
  <2>1. UNCHANGED imagerVars
    BY <1>6 DEF Imager!Halted, Imager!vars, Imager!discovery, Imager!service, imagerVars
  <2> QED
    BY <2>1, QuietKeeps
<1> QED
  BY <1>1, <1>2, <1>3, <1>4, <1>5, <1>6, Zenon DEF Imager!Next

LEMMA ReaderSound == ReaderInv => ReaderWatched
<1> SUFFICES ASSUME ReaderInv
             PROVE  ReaderWatched
  OBVIOUS
<1>1. Imager!TypeOK
  BY DEF ReaderInv, PollsType, ServiceType, ProbesType, PendingType, SliceType, ScriptType,
     Findings, Scripts, ProbeOf, RequestOf, Imager!TypeOK
<1>2. Imager!WatchdogReturns
  BY DEF ReaderInv, OneChild
<1>3. Imager!NoScriptWithoutReader
  BY CompactFlashAssumption
  DEF CompactFlashAssumption, ReaderInv, OneChild, Imager!NoScriptWithoutReader,
      Imager!Running
<1> QED
  BY <1>1, <1>2, <1>3 DEF ReaderWatched

(* The reader the service holds to be gone runs no script, and the         *)
(* watchdog that looks for it is silent only while a card is read, however *)
(* late the polls and the probes answer - as long as requests come one at  *)
(* a time.  (Two that wait for their probes together start two scripts:    *)
(* see OneOperation.)                                                      *)
THEOREM ReaderIsWatched == OneRequest => (MCSpec => []ReaderWatched)
<1> SUFFICES ASSUME OneRequest
             PROVE  MCSpec => []ReaderWatched
  OBVIOUS
<1>1. MCInit => ReaderInv
  BY ReaderStarts DEF MCInit
<1>2. ReaderInv /\ [MCNext]_<<half, vars, imagerVars>> => ReaderInv'
  BY ReaderKept DEF MCNext
<1> QED
  BY <1>1, <1>2, ReaderSound, PTL DEF MCSpec
-----------------------------------------------------------------------------
(* The files.  Between two commands every table lies beside its own image; *)
(* what a command has found of its files is still so, for it is alone.     *)
OneClient == \A c, d \in Clients : c = d

Matches(s) == part[s] # Nothing => img[s] = part[s]
AllMatch == \A s \in Slots : Matches(s)

(* An image lies in a folder that is there.                                *)
Housed == \A s \in Slots : img[s] # Nothing => DirExists(s[1])

(* Without the watchdog, only a command that publishes is ahead of the view *)
Shown ==
  ~polling =>
    /\ poll = NoPoll
    /\ \A c \in Clients : At(c, "emit") => cmd[c].out = fs
    /\ view # fs => \E c \in Clients : At(c, "emit")

Looked(k) ==
  /\ k.stage \in {"part", "toImg", "toPart", "img", "table"} =>
       k.op \in Renames \cup {"delete"}
  /\ k.stage \in {"toImg", "toPart"} => k.op \in Renames
  /\ k.stage \in {"part", "toImg", "toPart", "img"} => (k.img <=> img[k.from] # Nothing)
  /\ k.stage \in {"toImg", "toPart", "img", "table"} => (k.part <=> part[k.from] # Nothing)
  /\ k.op \in Renames /\ k.stage \in {"toPart", "img"} /\ k.img /\ k.to # k.from =>
       img[k.to] = Nothing

AllLooked == \A c \in Clients : ~Idle(c) => Looked(cmd[c])

(* The image has been dealt with, and its table is still to come.          *)
MovedTo(k) ==
  /\ k.from # k.to /\ DirExists(k.to[1])
  /\ img[k.from] = Nothing /\ part[k.to] = Nothing
  /\ part[k.from] \in {Nothing, img[k.to]}
  /\ \A s \in Slots \ {k.from, k.to} : Matches(s)
HalfWay(k) ==
  IF k.op = "delete"
  THEN img[k.from] = Nothing /\ \A s \in Slots \ {k.from} : Matches(s)
  ELSE \/ MovedTo(k)
       \/ AllMatch /\ (k.from = k.to \/ ~DirExists(k.to[1]) \/ ~k.part)

Tables ==
  faults = 0 =>
    /\ \A c \in Clients : At(c, "table") => HalfWay(cmd[c])
    /\ AllMatch \/ \E c \in Clients : At(c, "table")

FilesInv == TypeOK /\ Housed /\ Shown /\ AllLooked /\ Tables

LEMMA ListingType ==
  ASSUME folders \subseteq Names, NEW d \in Dirs
  PROVE  /\ Listing(d) \in Listings
         /\ \A n \in Names : Found(d, n) \in Listings
<1>1. Listing(d).cwd \in Dirs /\ Listing(d).images \subseteq Slots
      /\ Listing(d).folders \subseteq Names
  BY Zenon DEF Listing
<1>2. Listing(d) \in Listings
  BY DEF Listing, Listings
<1>3. \A n \in Names : Found(d, n) \in Listings
  BY DEF Found, Listings
<1> QED
  BY <1>2, <1>3

(* What becomes of the command in flight.                                  *)
LEMMA Goes ==
  ASSUME TypeOK, NEW c \in Clients, ~Idle(c), NEW s \in Stages, Goto(c, s)
  PROVE  /\ cmd' \in [Clients -> Commands \cup {Nothing}]
         /\ cmd[c] \in Commands /\ cmd'[c] \in Commands /\ ~Idle(c)'
         /\ cmd'[c] = [cmd[c] EXCEPT !.stage = s] /\ cmd'[c].stage = s
         /\ cmd'[c].op = cmd[c].op /\ cmd'[c].from = cmd[c].from /\ cmd'[c].to = cmd[c].to
         /\ cmd'[c].img = cmd[c].img /\ cmd'[c].part = cmd[c].part
<1>1. cmd \in [Clients -> Commands \cup {Nothing}] /\ cmd[c] \in Commands
  BY DEF TypeOK, Idle
<1> DEFINE k == [cmd[c] EXCEPT !.stage = s]
<1>2. /\ k \in Commands /\ k.stage = s /\ k.op = cmd[c].op /\ k.from = cmd[c].from
      /\ k.to = cmd[c].to /\ k.img = cmd[c].img /\ k.part = cmd[c].part
  BY <1>1, Zenon DEF Commands
<1>3. cmd' = [cmd EXCEPT ![c] = k]
  BY DEF Goto
<1> HIDE DEF k
<1>4. cmd' \in [Clients -> Commands \cup {Nothing}] /\ cmd'[c] = k
  BY <1>1, <1>2, <1>3
<1>5. cmd'[c] = [cmd[c] EXCEPT !.stage = s]
  BY <1>4 DEF k
<1> QED
  BY <1>1, <1>2, <1>4, <1>5, CommandsAssumption DEF Idle

LEMMA Emits ==
  ASSUME TypeOK, NEW c \in Clients, ~Idle(c), NEW l \in Listings, Emit(c, l)
  PROVE  /\ cmd' \in [Clients -> Commands \cup {Nothing}] /\ fs' \in Listings
         /\ cmd'[c] \in Commands /\ At(c, "emit")' /\ cmd'[c].out = fs'
         /\ fs' = l
<1>1. cmd \in [Clients -> Commands \cup {Nothing}] /\ cmd[c] \in Commands
  BY DEF TypeOK, Idle
<1> DEFINE k == [cmd[c] EXCEPT !.stage = "emit", !.out = l]
<1>2. "emit" \in Stages
  BY DEF Stages
<1>3. k \in Commands /\ k.stage = "emit" /\ k.out = l
  BY <1>1, <1>2, Zenon DEF Commands
<1>4. cmd' = [cmd EXCEPT ![c] = k] /\ fs' = l
  BY <1>1 DEF Emit
<1> HIDE DEF k
<1> QED
  BY <1>1, <1>3, <1>4, CommandsAssumption DEF Idle, At

LEMMA Ends ==
  ASSUME TypeOK, NEW c \in Clients, Finish(c)
  PROVE  cmd' \in [Clients -> Commands \cup {Nothing}] /\ Idle(c)'
  BY DEF TypeOK, Finish, Idle

LEMMA FilesStart == Init => FilesInv
<1> SUFFICES ASSUME Init
             PROVE  FilesInv
  OBVIOUS
<1>1. img \in Files /\ folders \subseteq Names /\ cwd = Root /\ Root \in Dirs
      /\ fs = Listing(Root) /\ view = fs
  BY DEF Init, Files, Dirs
<1>2. PICK with \in SUBSET {s \in Slots : img[s] # Nothing} :
        part = [s \in Slots |-> IF s \in with THEN img[s] ELSE Nothing]
  BY DEF Init
<1>3. part \in Files /\ AllMatch
  BY <1>1, <1>2 DEF Files, AllMatch, Matches
<1>4. fs \in Listings /\ view \in Listings
  BY <1>1, ListingType
<1>5. cmd \in [Clients -> Commands \cup {Nothing}] /\ \A c \in Clients : Idle(c)
  BY DEF Init, Idle
<1>6. poll = NoPoll /\ poll \in [stage : {"idle", "stat", "publish"}, out : Listings]
  <2>1. Blank \in Listings
    BY DEF Blank, Listings, Dirs
  <2> QED
    BY <2>1 DEF Init, NoPoll
<1>7. polling \in BOOLEAN /\ issued \in 0..MaxCommands /\ faults \in 0..MaxFaults
  BY FilesAssumption DEF FilesAssumption, Init
<1>8. TypeOK
  BY <1>1, <1>3, <1>4, <1>5, <1>6, <1>7 DEF TypeOK
<1>9. Housed
  BY <1>1 DEF Init, Housed, DirExists
<1>10. Shown /\ AllLooked /\ Tables
  BY <1>1, <1>3, <1>5, <1>6, Zenon DEF Shown, AllLooked, Tables, At
<1> QED
  BY <1>8, <1>9, <1>10 DEF FilesInv
(* A step of the one command that touches no file and takes no listing.    *)
LEMMA Walks ==
  ASSUME OneClient, FilesInv, NEW c \in Clients,
         UNCHANGED <<disk, fs, view, poll, polling>>, cwd' \in Dirs,
         faults' \in 0..MaxFaults, faults' # 0 \/ faults' = faults,
         issued' \in 0..MaxCommands, cmd' \in [Clients -> Commands \cup {Nothing}],
         ~At(c, "emit") /\ ~At(c, "table"), ~At(c, "emit")' /\ ~At(c, "table")',
         Idle(c)' \/ Looked(cmd[c])'
  PROVE  FilesInv'
<1>1. TypeOK /\ Housed /\ Shown /\ AllLooked /\ Tables /\ \A d \in Clients : d = c
  BY DEF FilesInv, OneClient
<1>2. UNCHANGED <<img, part, folders>>
  BY DEF disk
<1>3. TypeOK'
  BY <1>1, <1>2, Zenon DEF TypeOK
<1>4. Housed' /\ (AllMatch => AllMatch')
  BY <1>1, <1>2, Zenon DEF Housed, DirExists, AllMatch, Matches
<1>5. \A d \in Clients : /\ ~At(d, "emit") /\ ~At(d, "table")
                         /\ ~At(d, "emit")' /\ ~At(d, "table")'
                         /\ (Idle(d)' \/ Looked(cmd[d])')
  BY <1>1, Zenon
<1>6. Shown'
  BY <1>1, <1>5, Zenon DEF Shown
<1>7. AllLooked'
  BY <1>5, Zenon DEF AllLooked
<1>8. Tables'
  BY <1>1, <1>4, <1>5, Zenon DEF Tables
<1> QED
  BY <1>3, <1>4, <1>6, <1>7, <1>8 DEF FilesInv

(* The command publishes what it has done.                                 *)
LEMMA Publishes ==
  ASSUME OneClient, FilesInv, NEW c \in Clients, ~Idle(c), NEW l \in Listings, Emit(c, l),
         UNCHANGED <<view, poll, polling, issued>>, cwd' \in Dirs,
         img' \in Files, part' \in Files, folders' \subseteq Names,
         faults' \in 0..MaxFaults, Housed', faults' = 0 => AllMatch'
  PROVE  FilesInv'
<1>1. TypeOK /\ Shown /\ \A d \in Clients : d = c
  BY DEF FilesInv, OneClient
<1>2. /\ cmd' \in [Clients -> Commands \cup {Nothing}] /\ fs' \in Listings
      /\ At(c, "emit")' /\ cmd'[c].out = fs'
  BY <1>1, Emits
<1>3. TypeOK'
  BY <1>1, <1>2, Zenon DEF TypeOK
<1>4. Shown'
  BY <1>1, <1>2, Zenon DEF Shown
<1>5. Looked(cmd[c])' /\ ~At(c, "table")'
  BY <1>2 DEF Looked, At
<1>6. AllLooked' /\ Tables'
  BY <1>1, <1>5, Zenon DEF AllLooked, Tables
<1> QED
  BY <1>3, <1>4, <1>6 DEF FilesInv

LEMMA Answered ==
  ASSUME OneClient, FilesInv, NEW c \in Clients, Published(c)
  PROVE  FilesInv'
<1>1. TypeOK /\ Housed /\ Shown /\ AllLooked /\ Tables /\ \A d \in Clients : d = c
  BY DEF FilesInv, OneClient
<1>2. /\ At(c, "emit") /\ view' = cmd[c].out /\ Finish(c)
      /\ UNCHANGED <<img, part, folders, cwd, fs, poll, polling, issued, faults>>
  BY DEF Published, disk
<1>3. cmd' \in [Clients -> Commands \cup {Nothing}] /\ Idle(c)'
  BY <1>1, <1>2, Ends
<1>4. cmd[c] \in Commands /\ ~Idle(c) /\ cmd[c].stage = "emit"
  BY <1>1, <1>2 DEF TypeOK, At, Idle
<1>5. view' \in Listings
  BY <1>2, <1>4 DEF Commands
<1>6. TypeOK'
  BY <1>1, <1>2, <1>3, <1>5, Zenon DEF TypeOK
<1>7. ~At(c, "emit")' /\ ~At(c, "table")' /\ ~At(c, "table")
  <2>1. "emit" # "table"
    OBVIOUS
  <2> QED
    BY <1>3, <1>4, <2>1, Zenon DEF At
<1>8. Shown'
  BY <1>1, <1>2, <1>7, Zenon DEF Shown
<1>9. Housed' /\ AllLooked' /\ Tables'
  <2>1. Housed' /\ (AllMatch => AllMatch')
    BY <1>1, <1>2, Zenon DEF Housed, DirExists, AllMatch, Matches
  <2>2. AllLooked'
    BY <1>1, <1>3, Zenon DEF AllLooked
  <2>3. Tables'
    BY <1>1, <1>2, <1>7, <2>1, Zenon DEF Tables
  <2> QED
    BY <2>1, <2>2, <2>3
<1> QED
  BY <1>6, <1>8, <1>9 DEF FilesInv

LEMMA CommandKeeps ==
  ASSUME OneClient, FilesInv, NEW c \in Clients, Command(c)
  PROVE  FilesInv'
<1>1. TypeOK
  BY DEF FilesInv
<1>2. PICK o \in Ops : \E n, m \in Names, d \in Dirs :
        cmd' = [cmd EXCEPT ![c] = [op |-> o, from |-> <<fs.cwd, n>>, to |-> <<d, m>>,
                                   stage |-> "begin", img |-> FALSE,
                                   part |-> FALSE, out |-> Blank]]
  BY DEF Command
<1>3. PICK n \in Names : \E m \in Names, d \in Dirs :
        cmd' = [cmd EXCEPT ![c] = [op |-> o, from |-> <<fs.cwd, n>>, to |-> <<d, m>>,
                                   stage |-> "begin", img |-> FALSE,
                                   part |-> FALSE, out |-> Blank]]
  BY <1>2
<1>4. PICK m \in Names : \E d \in Dirs :
        cmd' = [cmd EXCEPT ![c] = [op |-> o, from |-> <<fs.cwd, n>>, to |-> <<d, m>>,
                                   stage |-> "begin", img |-> FALSE,
                                   part |-> FALSE, out |-> Blank]]
  BY <1>3
<1>5. PICK d \in Dirs :
        cmd' = [cmd EXCEPT ![c] = [op |-> o, from |-> <<fs.cwd, n>>, to |-> <<d, m>>,
                                   stage |-> "begin", img |-> FALSE,
                                   part |-> FALSE, out |-> Blank]]
  BY <1>4
<1> DEFINE k == [op |-> o, from |-> <<fs.cwd, n>>, to |-> <<d, m>>, stage |-> "begin",
                 img |-> FALSE, part |-> FALSE, out |-> Blank]
<1>6. k \in Commands /\ k.stage = "begin"
  <2>1. <<fs.cwd, n>> \in Slots /\ <<d, m>> \in Slots
    BY <1>1 DEF TypeOK, Listings, Slots
  <2>2. "begin" \in Stages /\ Blank \in Listings
    BY DEF Stages, Blank, Listings, Dirs
  <2> QED
    BY <2>1, <2>2, Zenon DEF Commands
<1> HIDE DEF k
<1>7. cmd' \in [Clients -> Commands \cup {Nothing}] /\ cmd'[c] = k
  BY <1>1, <1>5, <1>6 DEF TypeOK, k
<1>8. ~At(c, "emit")' /\ ~At(c, "table")' /\ Looked(cmd[c])'
  BY <1>6, <1>7 DEF At, Looked
<1>9. ~At(c, "emit") /\ ~At(c, "table")
  BY DEF Command, At
<1>10. /\ UNCHANGED <<disk, fs, view, poll, polling, faults>> /\ cwd' \in Dirs
       /\ issued' \in 0..MaxCommands /\ faults' \in 0..MaxFaults
  BY <1>1, FilesAssumption DEF FilesAssumption, Command, TypeOK
<1> QED
  BY <1>7, <1>8, <1>9, <1>10, Walks

(* Commands that list, and that make a folder.                             *)
LEMMA ListsKeep ==
  ASSUME OneClient, FilesInv, NEW c \in Clients,
         \/ List(c) \/ SearchBegin(c) \/ SearchDone(c)
         \/ CreateFolder(c) \/ CreateElsewhere(c)
  PROVE  FilesInv'
<1>1. TypeOK /\ Housed /\ Tables /\ \A d \in Clients : d = c
  BY DEF FilesInv, OneClient
<1>2. ~Idle(c) /\ cmd[c].stage \in {"begin", "other"}
  BY DEF List, SearchBegin, SearchDone, CreateFolder, CreateElsewhere, At
<1>3. ~At(c, "emit") /\ ~At(c, "table")
  BY <1>2 DEF At
<1>4. UNCHANGED <<img, part, faults, view, poll, polling, issued>>
  BY DEF List, SearchBegin, SearchDone, CreateFolder, CreateElsewhere, disk
<1>5. faults = 0 => AllMatch
  BY <1>1, <1>3, Zenon DEF Tables
<1>6. /\ img' \in Files /\ part' \in Files /\ faults' \in 0..MaxFaults
      /\ issued' \in 0..MaxCommands /\ (faults' = 0 => AllMatch')
  BY <1>1, <1>4, <1>5, Zenon DEF TypeOK, AllMatch, Matches
<1>7. /\ folders \subseteq Names /\ cwd \in Dirs
      /\ cmd[c].to[1] \in Dirs /\ cmd[c].to[2] \in Names
  <2>1. cmd[c] \in Commands
    BY <1>1, <1>2 DEF TypeOK, Idle
  <2> QED
    BY <1>1, <2>1 DEF TypeOK, Commands, Slots
<1>8. CASE List(c)
  <2>1. cwd' = cmd[c].to[1] /\ Emit(c, Listing(cmd[c].to[1])) /\ folders' = folders
    BY <1>8 DEF List, Where, disk
  <2>2. Housed'
    BY <1>1, <1>4, <2>1, Zenon DEF Housed, DirExists
  <2> QED
    BY <1>2, <1>4, <1>6, <1>7, <2>1, <2>2, ListingType, Publishes
<1>9. CASE SearchBegin(c)
  <2>1. cwd' = cmd[c].to[1] /\ Goto(c, "other") /\ UNCHANGED <<disk, fs>>
    BY <1>9 DEF SearchBegin, Where
  <2>2. /\ cmd' \in [Clients -> Commands \cup {Nothing}] /\ cmd'[c].stage = "other"
    <3>1. "other" \in Stages
      BY DEF Stages
    <3> QED
      BY <1>1, <1>2, <2>1, <3>1, Goes
  <2>3. ~At(c, "emit")' /\ ~At(c, "table")' /\ Looked(cmd[c])'
    BY <2>2 DEF At, Looked
  <2> QED
    BY <1>3, <1>4, <1>6, <1>7, <2>1, <2>2, <2>3, Walks
<1>10. CASE SearchDone(c)
  <2>1. Emit(c, Found(cmd[c].to[1], cmd[c].to[2])) /\ UNCHANGED <<folders, cwd>>
    BY <1>10 DEF SearchDone, Where, disk
  <2>2. Housed'
    BY <1>1, <1>4, <2>1, Zenon DEF Housed, DirExists
  <2> QED
    BY <1>2, <1>4, <1>6, <1>7, <2>1, <2>2, ListingType, Publishes
<1>11. CASE CreateFolder(c) /\ cmd[c].to[2] \notin folders
  <2>1. /\ folders' = folders \cup {cmd[c].to[2]} /\ cwd' = cwd
        /\ Emit(c, Listing(Root)')
    BY <1>11 DEF CreateFolder
  <2>2. folders' \subseteq Names
    BY <1>7, <2>1
  <2>3. Housed'
    BY <1>1, <1>4, <2>1 DEF Housed, DirExists
  <2>4. Listing(Root)' \in Listings
    BY <2>2 DEF Listing, Listings, Dirs
  <2> QED
    BY <1>2, <1>4, <1>6, <1>7, <2>1, <2>2, <2>3, <2>4, Publishes
<1>12. CASE (CreateFolder(c) /\ cmd[c].to[2] \in folders) \/ CreateElsewhere(c)
  <2>1. Finish(c) /\ UNCHANGED <<folders, fs, cwd>>
    BY <1>12 DEF CreateFolder, CreateElsewhere, disk
  <2>2. cmd' \in [Clients -> Commands \cup {Nothing}] /\ Idle(c)'
    BY <1>1, <2>1, Ends
  <2>3. ~At(c, "emit")' /\ ~At(c, "table")'
    BY <2>2, Zenon DEF At
  <2>4. UNCHANGED disk
    BY <1>4, <2>1 DEF disk
  <2> QED
    BY <1>3, <1>4, <1>6, <1>7, <2>1, <2>2, <2>3, <2>4, Walks
<1> QED
  BY <1>8, <1>9, <1>10, <1>11, <1>12
(* A command looks at its files, and gives up when it may not go on.       *)
LEMMA LooksKeep ==
  ASSUME OneClient, FilesInv, NEW c \in Clients,
         \/ LookImg(c) \/ LookPart(c) \/ CheckToImg(c) \/ CheckToPart(c)
         \/ MoveNothing(c) \/ RenameImgFails(c)
  PROVE  FilesInv'
<1>1. TypeOK /\ AllLooked
  BY DEF FilesInv
<1>2. /\ ~Idle(c) /\ cmd[c].stage \in {"begin", "part", "toImg", "toPart", "other", "img"}
      /\ UNCHANGED <<img, part, folders, cwd, fs, view, poll, polling, issued>>
  BY DEF LookImg, LookPart, CheckToImg, CheckToPart, MoveNothing, RenameImgFails, At, disk
<1>3. /\ cwd' \in Dirs /\ faults' \in 0..MaxFaults /\ issued' \in 0..MaxCommands
      /\ faults' # 0 \/ faults' = faults
  BY <1>1, FilesAssumption
  DEF FilesAssumption, TypeOK, LookImg, LookPart, CheckToImg, CheckToPart, MoveNothing,
      RenameImgFails, Fault
<1>4. ~At(c, "emit") /\ ~At(c, "table") /\ UNCHANGED disk
  BY <1>2 DEF At, disk
<1>5. Looked(cmd[c]) /\ cmd[c] \in Commands
  BY <1>1, <1>2 DEF AllLooked, TypeOK, Idle
<1>6. CASE Finish(c)
  <2>1. cmd' \in [Clients -> Commands \cup {Nothing}] /\ Idle(c)'
    BY <1>1, <1>6, Ends
  <2>2. ~At(c, "emit")' /\ ~At(c, "table")'
    BY <2>1, Zenon DEF At
  <2> QED
    BY <1>2, <1>3, <1>4, <2>1, <2>2, Walks
<1>7. CASE LookImg(c) /\ ~Finish(c)
  <2> DEFINE k == [cmd[c] EXCEPT !.stage = "part", !.img = (img[cmd[c].from] # Nothing)]
  <2>1. cmd' = [cmd EXCEPT ![c].stage = "part", ![c].img = img[cmd[c].from] # Nothing]
        /\ cmd[c].op \in Renames \cup {"delete"}
    BY <1>7 DEF LookImg
  <2>2. cmd' = [cmd EXCEPT ![c] = k]
    BY <1>1, <2>1 DEF TypeOK
  <2>3. k \in Commands /\ k.stage = "part" /\ k.op = cmd[c].op /\ k.from = cmd[c].from
        /\ (k.img <=> img[k.from] # Nothing)
    <3>1. "part" \in Stages
      BY DEF Stages
    <3> QED
      BY <1>5, <3>1, Zenon DEF Commands
  <2> HIDE DEF k
  <2>4. cmd' \in [Clients -> Commands \cup {Nothing}] /\ cmd'[c] = k
    BY <1>1, <2>2, <2>3 DEF TypeOK
  <2>5. Looked(cmd[c])' /\ ~At(c, "emit")' /\ ~At(c, "table")'
    BY <1>2, <2>1, <2>3, <2>4 DEF Looked, At
  <2> QED
    BY <1>2, <1>3, <1>4, <2>4, <2>5, Walks
<1>8. CASE LookPart(c)
  <2> DEFINE has == part[cmd[c].from] # Nothing
             s == IF cmd[c].img \/ has
                  THEN IF cmd[c].op = "delete" THEN "img" ELSE "toImg"
                  ELSE "other"
             k == [cmd[c] EXCEPT !.part = has, !.stage = s]
  <2>1. cmd' = [cmd EXCEPT ![c].part = has, ![c].stage = s] /\ cmd[c].stage = "part"
    BY <1>8 DEF LookPart, At
  <2>2. cmd' = [cmd EXCEPT ![c] = k]
    BY <1>1, <2>1 DEF TypeOK
  <2>3. /\ s \in {"img", "toImg", "other"} /\ s \in Stages
        /\ s = "toImg" => cmd[c].op # "delete"
        /\ s = "img" => cmd[c].op \notin Renames
    BY DEF Stages, Renames
  <2>4. k \in Commands /\ k.stage = s /\ k.op = cmd[c].op /\ k.from = cmd[c].from
        /\ (k.part <=> part[k.from] # Nothing) /\ (k.img <=> cmd[c].img)
    <3> HIDE DEF s
    <3> QED
      BY <1>5, <2>3, Zenon DEF Commands
  <2>5. (k.img <=> img[k.from] # Nothing) /\ k.op \in Renames \cup {"delete"}
    BY <1>5, <2>1, <2>4, Zenon DEF Looked
  <2> HIDE DEF k, s
  <2>6. cmd' \in [Clients -> Commands \cup {Nothing}] /\ cmd'[c] = k
    BY <1>1, <2>2, <2>4 DEF TypeOK
  <2>7. Looked(cmd[c])' /\ ~At(c, "emit")' /\ ~At(c, "table")'
    BY <1>2, <2>3, <2>4, <2>5, <2>6 DEF Looked, At
  <2> QED
    BY <1>2, <1>3, <1>4, <2>6, <2>7, Walks
<1>9. CASE (CheckToImg(c) \/ CheckToPart(c)) /\ ~Finish(c)
  <2>1. PICK s \in {"toPart", "img"} : Goto(c, s)
    BY <1>9 DEF CheckToImg, CheckToPart
  <2>2. /\ cmd' \in [Clients -> Commands \cup {Nothing}] /\ cmd'[c].stage = s
        /\ cmd'[c].op = cmd[c].op /\ cmd'[c].from = cmd[c].from /\ cmd'[c].to = cmd[c].to
        /\ cmd'[c].img = cmd[c].img /\ cmd'[c].part = cmd[c].part
    <3>1. s \in Stages
      BY DEF Stages
    <3> QED
      BY <1>1, <1>2, <2>1, <3>1, Goes
  <2>3. cmd[c].img /\ cmd[c].to # cmd[c].from => img[cmd[c].to] = Nothing
    <3>1. CASE CheckToImg(c)
      BY <1>9, <3>1, Zenon DEF CheckToImg, TargetTaken
    <3>2. CASE CheckToPart(c)
      <4>1. cmd[c].stage = "toPart"
        BY <3>2, Zenon DEF CheckToPart, At
      <4> QED
        BY <1>5, <4>1, Zenon DEF Looked
    <3> QED
      BY <1>9, <3>1, <3>2
  <2>4. cmd[c].stage \in {"toImg", "toPart"}
    BY <1>9 DEF CheckToImg, CheckToPart, At
  <2>5. Looked(cmd[c])' /\ ~At(c, "emit")' /\ ~At(c, "table")'
    BY <1>2, <1>5, <2>2, <2>3, <2>4 DEF Looked, At
  <2> QED
    BY <1>2, <1>3, <1>4, <2>2, <2>5, Walks
<1> QED
  BY <1>6, <1>7, <1>8, <1>9 DEF MoveNothing, RenameImgFails
(* The image has been dealt with; the table is next.                       *)
LEMMA GoesOn ==
  ASSUME OneClient, FilesInv, NEW c \in Clients, At(c, "img"), Goto(c, "table"),
         UNCHANGED <<part, folders, cwd, fs, view, poll, polling, issued>>,
         img' \in Files, faults' \in 0..MaxFaults, Housed',
         cmd[c].op \in Renames \cup {"delete"}, faults' = 0 => HalfWay(cmd[c])'
  PROVE  FilesInv'
<1>1. TypeOK /\ Shown /\ AllLooked /\ \A d \in Clients : d = c
  BY DEF FilesInv, OneClient
<1>2. ~Idle(c) /\ cmd[c].stage = "img"
  BY DEF At
<1>3. /\ cmd' \in [Clients -> Commands \cup {Nothing}] /\ ~Idle(c)'
      /\ cmd'[c].stage = "table" /\ cmd'[c].op = cmd[c].op
      /\ cmd'[c].from = cmd[c].from /\ cmd'[c].part = cmd[c].part
  <2>1. "table" \in Stages
    BY DEF Stages
  <2> QED
    BY <1>1, <1>2, <2>1, Goes
<1>4. TypeOK'
  BY <1>1, <1>3, Zenon DEF TypeOK
<1>5. ~At(c, "emit") /\ ~At(c, "emit")' /\ At(c, "table")'
  BY <1>2, <1>3 DEF At
<1>6. Shown'
  BY <1>1, <1>5, Zenon DEF Shown
<1>7. Looked(cmd[c])'
  <2>1. cmd[c].part <=> part[cmd[c].from] # Nothing
    BY <1>1, <1>2, Zenon DEF AllLooked, Looked
  <2> QED
    BY <1>3, <2>1 DEF Looked
<1>8. AllLooked' /\ Tables'
  BY <1>1, <1>5, <1>7, Zenon DEF AllLooked, Tables
<1> QED
  BY <1>4, <1>6, <1>8 DEF FilesInv

LEMMA RenamedSame ==
  ASSUME NEW files, NEW s, NEW t, s = t
  PROVE  Renamed(files, s, t) = files
  BY DEF Renamed

LEMMA RenameImgKeeps ==
  ASSUME OneClient, FilesInv, NEW c \in Clients, RenameImg(c)
  PROVE  FilesInv'
<1>1. TypeOK /\ Housed /\ AllLooked /\ Tables /\ \A d \in Clients : d = c
  BY DEF FilesInv, OneClient
<1> DEFINE k == cmd[c]
           does == k.img /\ img[k.from] # Nothing /\ DirExists(k.to[1])
<1>2. /\ At(c, "img") /\ k.op \in Renames /\ Goto(c, "table")
      /\ UNCHANGED <<part, folders, cwd, fs, view, poll, polling, issued, faults>>
      /\ img' = IF does THEN Renamed(img, k.from, k.to) ELSE img
  BY Zenon DEF RenameImg
<1>3. ~Idle(c) /\ k.stage = "img" /\ k \in Commands
  BY <1>1, <1>2 DEF At, TypeOK, Idle
<1>4. /\ k.from \in Slots /\ k.to \in Slots /\ img \in Files /\ part \in Files
      /\ faults \in 0..MaxFaults
  BY <1>1, <1>3 DEF Commands, TypeOK
<1>5. /\ k.img <=> img[k.from] # Nothing
      /\ k.part <=> part[k.from] # Nothing
      /\ k.img /\ k.to # k.from => img[k.to] = Nothing
  BY <1>1, <1>2, <1>3, Zenon DEF AllLooked, Looked
<1>6. faults = 0 => AllMatch
  BY <1>1, <1>3 DEF Tables, At
<1>7. /\ cmd'[c].op = k.op /\ cmd'[c].from = k.from /\ cmd'[c].to = k.to
      /\ cmd'[c].part = k.part
  <2>1. "table" \in Stages
    BY DEF Stages
  <2> QED
    BY <1>1, <1>2, <1>3, <2>1, Goes
<1> HIDE DEF k
<1>8. k.op # "delete"
  BY <1>2 DEF Renames
<1>9. CASE ~does \/ k.from = k.to
  <2>1. img' = img
    BY <1>2, <1>9, RenamedSame, Zenon
  <2>2. Housed'
    BY <1>1, <1>2, <2>1, Zenon DEF Housed, DirExists
  <2>3. AllMatch => k.from = k.to \/ ~DirExists(k.to[1]) \/ ~k.part
    BY <1>4, <1>5, <1>9, Zenon DEF AllMatch, Matches
  <2>4. AllMatch => HalfWay(cmd[c])'
    <3> SUFFICES ASSUME AllMatch
                 PROVE  HalfWay(cmd[c])'
      OBVIOUS
    <3>1. AllMatch'
      BY <1>2, <2>1, Zenon DEF AllMatch, Matches
    <3>2. cmd'[c].from = cmd'[c].to \/ ~DirExists(cmd[c].to[1])' \/ ~cmd'[c].part
      BY <1>2, <1>7, <2>3, Zenon DEF DirExists
    <3> QED
      BY <1>7, <1>8, <3>1, <3>2, Zenon DEF HalfWay
  <2> QED
    BY <1>2, <1>4, <1>6, <2>1, <2>2, <2>4, GoesOn DEF k
<1>10. CASE does /\ k.from # k.to
  <2>1. /\ img' \in Files /\ img'[k.to] = img[k.from] /\ img'[k.from] = Nothing
        /\ \A u \in Slots \ {k.from, k.to} : img'[u] = img[u]
    <3>1. img' = Renamed(img, k.from, k.to) /\ k.from # k.to
      BY <1>2, <1>10
    <3> QED
      BY <1>4, <3>1 DEF Files, Renamed
  <2>2. Housed'
    BY <1>1, <1>2, <1>4, <1>10, <2>1, Zenon DEF Housed, DirExists
  <2>3. AllMatch => HalfWay(cmd[c])'
    <3> SUFFICES ASSUME AllMatch
                 PROVE  MovedTo(cmd[c])'
      BY <1>7, <1>8, Zenon DEF HalfWay
    <3>1. cmd'[c].from # cmd'[c].to /\ DirExists(cmd[c].to[1])'
      BY <1>2, <1>7, <1>10, Zenon DEF DirExists
    <3>2. part'[k.to] = Nothing /\ part'[k.from] \in {Nothing, img'[k.to]}
      BY <1>2, <1>4, <1>5, <1>10, <2>1, Zenon DEF AllMatch, Matches
    <3>3. \A s \in Slots \ {k.from, k.to} : Matches(s)'
      BY <1>2, <2>1, Zenon DEF AllMatch, Matches
    <3> QED
      BY <1>7, <2>1, <3>1, <3>2, <3>3, Zenon DEF MovedTo
  <2> QED
    BY <1>2, <1>4, <1>6, <2>1, <2>2, <2>3, GoesOn DEF k
<1> QED
  BY <1>9, <1>10

LEMMA DeleteImgKeeps ==
  ASSUME OneClient, FilesInv, NEW c \in Clients, DeleteImg(c)
  PROVE  FilesInv'
<1>1. TypeOK /\ Housed /\ AllLooked /\ Tables /\ \A d \in Clients : d = c
  BY DEF FilesInv, OneClient
<1> DEFINE k == cmd[c]
<1>2. /\ At(c, "img") /\ k.op = "delete" /\ Goto(c, "table")
      /\ UNCHANGED <<part, folders, cwd, fs, view, poll, polling, issued>>
  BY DEF DeleteImg
<1>3. ~Idle(c) /\ k.stage = "img" /\ k \in Commands
  BY <1>1, <1>2 DEF At, TypeOK, Idle
<1>4. k.from \in Slots /\ img \in Files /\ faults \in 0..MaxFaults /\ MaxFaults \in Nat
  BY <1>1, <1>3, FilesAssumption DEF Commands, TypeOK, FilesAssumption
<1>5. k.img <=> img[k.from] # Nothing
  BY <1>1, <1>3, Zenon DEF AllLooked, Looked
<1>6. faults = 0 => AllMatch
  BY <1>1, <1>3 DEF Tables, At
<1>7. cmd'[c].op = k.op /\ cmd'[c].from = k.from
  <2>1. "table" \in Stages
    BY DEF Stages
  <2> QED
    BY <1>1, <1>2, <1>3, <2>1, Goes
<1> HIDE DEF k
<1>8. /\ faults' \in 0..MaxFaults /\ (faults' = 0 => faults = 0)
      /\ img' \in {img, [img EXCEPT ![k.from] = Nothing]}
      /\ faults' = 0 => \/ img' = [img EXCEPT ![k.from] = Nothing]
                        \/ img[k.from] = Nothing /\ img' = img
  BY <1>4, <1>5 DEF DeleteImg, Fault, k
<1>9. /\ img' \in Files /\ \A u \in Slots : img'[u] = img[u] \/ img'[u] = Nothing
      /\ \A u \in Slots \ {k.from} : img'[u] = img[u]
      /\ faults' = 0 => img'[k.from] = Nothing
  BY <1>4, <1>8 DEF Files
<1>10. Housed'
  BY <1>1, <1>2, <1>9, Zenon DEF Housed, DirExists
<1>11. faults' = 0 => HalfWay(cmd[c])'
  BY <1>2, <1>6, <1>7, <1>8, <1>9, Zenon DEF HalfWay, AllMatch, Matches
<1> QED
  BY <1>2, <1>8, <1>9, <1>10, <1>11, GoesOn DEF k

LEMMA DeleteTableKeeps ==
  ASSUME OneClient, FilesInv, NEW c \in Clients, DeleteTable(c)
  PROVE  FilesInv'
<1>1. TypeOK /\ Housed /\ AllLooked /\ Tables
  BY DEF FilesInv
<1> DEFINE k == cmd[c]
<1>2. /\ At(c, "table") /\ k.op = "delete" /\ Emit(c, Listing(cwd))
      /\ UNCHANGED <<img, folders, cwd, view, poll, polling, issued>>
  BY DEF DeleteTable
<1>3. ~Idle(c) /\ k.stage = "table" /\ k \in Commands
  BY <1>1, <1>2 DEF At, TypeOK, Idle
<1>4. /\ k.from \in Slots /\ img \in Files /\ part \in Files /\ folders \subseteq Names
      /\ cwd \in Dirs /\ faults \in 0..MaxFaults /\ MaxFaults \in Nat
  BY <1>1, <1>3, FilesAssumption DEF Commands, TypeOK, FilesAssumption
<1>5. k.part <=> part[k.from] # Nothing
  BY <1>1, <1>3, Zenon DEF AllLooked, Looked
<1>6. faults = 0 => HalfWay(k)
  BY <1>1, <1>2 DEF Tables
<1> HIDE DEF k
<1>7. /\ faults' \in 0..MaxFaults /\ (faults' = 0 => faults = 0)
      /\ part' \in {part, [part EXCEPT ![k.from] = Nothing]}
      /\ faults' = 0 => \/ part' = [part EXCEPT ![k.from] = Nothing]
                        \/ part[k.from] = Nothing /\ part' = part
  BY <1>4, <1>5 DEF DeleteTable, Fault, k
<1>8. /\ part' \in Files
      /\ \A u \in Slots \ {k.from} : part'[u] = part[u]
      /\ faults' = 0 => part'[k.from] = Nothing
  BY <1>4, <1>7 DEF Files
<1>9. Housed'
  BY <1>1, <1>2, Zenon DEF Housed, DirExists
<1>10. faults' = 0 => AllMatch'
  BY <1>2, <1>6, <1>7, <1>8, Zenon DEF HalfWay, AllMatch, Matches
<1> QED
  BY <1>2, <1>3, <1>4, <1>7, <1>8, <1>9, <1>10, ListingType, Publishes DEF k

LEMMA RenameTableKeeps ==
  ASSUME OneClient, FilesInv, NEW c \in Clients, RenameTable(c) \/ RenameTableFails(c)
  PROVE  FilesInv'
<1>1. TypeOK /\ Housed /\ AllLooked /\ Tables
  BY DEF FilesInv
<1> DEFINE k == cmd[c]
           does == k.part /\ part[k.from] # Nothing /\ DirExists(k.to[1])
<1>2. /\ At(c, "table") /\ k.op \in Renames /\ Emit(c, Listing(cwd))
      /\ UNCHANGED <<img, folders, cwd, view, poll, polling, issued>>
  BY DEF RenameTable, RenameTableFails, disk
<1>3. ~Idle(c) /\ k.stage = "table" /\ k \in Commands
  BY <1>1, <1>2 DEF At, TypeOK, Idle
<1>4. /\ k.from \in Slots /\ k.to \in Slots /\ img \in Files /\ part \in Files
      /\ folders \subseteq Names /\ cwd \in Dirs
      /\ faults \in 0..MaxFaults /\ MaxFaults \in Nat
  BY <1>1, <1>3, FilesAssumption DEF Commands, TypeOK, FilesAssumption
<1>5. k.part <=> part[k.from] # Nothing
  BY <1>1, <1>3, Zenon DEF AllLooked, Looked
<1>6. faults = 0 => HalfWay(k)
  BY <1>1, <1>2 DEF Tables
<1>7. Housed'
  BY <1>1, <1>2, Zenon DEF Housed, DirExists
<1>8. CASE RenameTableFails(c)
  <2>1. part' = part /\ faults' \in 0..MaxFaults /\ faults' # 0
    BY <1>4, <1>8 DEF RenameTableFails, Fault, disk
  <2> QED
    BY <1>2, <1>3, <1>4, <1>7, <2>1, ListingType, Publishes DEF k
<1>9. CASE RenameTable(c)
  <2>1. /\ part' = IF does THEN Renamed(part, k.from, k.to) ELSE part
        /\ faults' = faults
    BY <1>9, Zenon DEF RenameTable
  <2> HIDE DEF k
  <2>2. part' \in Files
    <3>1. CASE does /\ k.from # k.to
      BY <1>4, <2>1, <3>1 DEF Files, Renamed
    <3>2. CASE ~(does /\ k.from # k.to)
      BY <1>4, <2>1, <3>2, RenamedSame, Zenon
    <3> QED
      BY <3>1, <3>2
  <2>3. ASSUME faults = 0
        PROVE  AllMatch'
    <3>1. k.op # "delete"
      BY <1>2 DEF Renames, k
    <3>2. CASE MovedTo(k)
      <4>1. /\ k.from # k.to /\ img[k.from] = Nothing /\ part[k.to] = Nothing
            /\ part[k.from] \in {Nothing, img[k.to]} /\ DirExists(k.to[1])
            /\ \A s \in Slots \ {k.from, k.to} : Matches(s)
        BY <3>2, Zenon DEF MovedTo
      <4>2. /\ part'[k.from] = Nothing /\ part'[k.to] = part[k.from]
            /\ \A u \in Slots \ {k.from, k.to} : part'[u] = part[u]
        <5>1. CASE does
          <6>1. part' = Renamed(part, k.from, k.to)
            BY <2>1, <5>1
          <6> QED
            BY <1>4, <4>1, <6>1 DEF Files, Renamed
        <5>2. CASE ~does
          BY <1>5, <2>1, <4>1, <5>2, Zenon
        <5> QED
          BY <5>1, <5>2
      <4> QED
        BY <1>2, <4>1, <4>2, Zenon DEF AllMatch, Matches
    <3>3. CASE AllMatch /\ (k.from = k.to \/ ~DirExists(k.to[1]) \/ ~k.part)
      <4>1. part' = part
        BY <1>5, <2>1, <3>3, RenamedSame, Zenon
      <4> QED
        BY <1>2, <3>3, <4>1, Zenon DEF AllMatch, Matches
    <3> QED
      BY <1>6, <2>3, <3>1, <3>2, <3>3, Zenon DEF HalfWay
  <2> QED
    BY <1>2, <1>3, <1>4, <1>7, <2>1, <2>2, <2>3, ListingType, Publishes DEF k
<1> QED
  BY <1>8, <1>9
(* A folder takes its images and their tables along.                       *)
Taken(files, from, to) ==
  [s \in Slots |-> IF s[1] = to THEN files[<<from, s[2]>>]
                  ELSE IF s[1] = from THEN Nothing ELSE files[s]]
Emptied(files, gone) == [s \in Slots |-> IF s[1] = gone THEN Nothing ELSE files[s]]

LEMMA FoldersMove ==
  ASSUME NEW files \in Files, NEW from \in Names, NEW to \in Names, from # to
  PROVE  /\ Taken(files, from, to) \in Files
         /\ \A s \in Slots : s[1] = to => /\ <<from, s[2]>> \in Slots
                                         /\ Taken(files, from, to)[s] = files[<<from, s[2]>>]
         /\ \A s \in Slots : s[1] = from => /\ Taken(files, from, to)[s] = Nothing
                                           /\ <<to, s[2]>> \in Slots
                                           /\ Taken(files, from, to)[<<to, s[2]>>] = files[s]
         /\ \A s \in Slots : s[1] \notin {from, to} => Taken(files, from, to)[s] = files[s]
<1>1. \A s \in Slots : /\ s = <<s[1], s[2]>> /\ s[2] \in Names
                       /\ <<from, s[2]>> \in Slots /\ <<to, s[2]>> \in Slots
  BY DEF Slots, Dirs
<1>2. \A s \in Slots : files[s] \in Images \cup {Nothing}
  BY DEF Files
<1> DEFINE all == Taken(files, from, to)
<1>3. \A s \in Slots : all[s] = IF s[1] = to THEN files[<<from, s[2]>>]
                                ELSE IF s[1] = from THEN Nothing ELSE files[s]
  BY DEF Taken
<1>4. all \in Files
  BY <1>1, <1>2 DEF Taken, Files
<1> HIDE DEF all
<1>5. \A s \in Slots : s[1] = from => all[<<to, s[2]>>] = files[s]
  <2> SUFFICES ASSUME NEW s \in Slots, s[1] = from
               PROVE  all[<<to, s[2]>>] = files[s]
    OBVIOUS
  <2>1. <<to, s[2]>>[1] = to /\ <<to, s[2]>>[2] = s[2]
    OBVIOUS
  <2>2. all[<<to, s[2]>>] = files[<<from, s[2]>>]
    BY <1>1, <1>3, <2>1
  <2> QED
    BY <1>1, <2>2
<1>6. \A s \in Slots : s[1] = from => all[s] = Nothing
  BY <1>3
<1> QED
  BY <1>1, <1>3, <1>4, <1>5, <1>6, Zenon DEF all

LEMMA RenameFolderKeeps ==
  ASSUME OneClient, FilesInv, NEW c \in Clients, RenameFolder(c)
  PROVE  FilesInv'
<1>1. TypeOK /\ Housed /\ Tables /\ \A d \in Clients : d = c
  BY DEF FilesInv, OneClient
<1> DEFINE from == cmd[c].from[2]
           to == cmd[c].to[2]
           goes == cmd[c].from[1] = Root /\ from \in folders /\ to \notin folders
<1>2. /\ At(c, "other") /\ UNCHANGED <<cwd, view, poll, polling, issued, faults>>
      /\ IF goes
         THEN /\ folders' = (folders \ {from}) \cup {to}
              /\ img' = Taken(img, from, to) /\ part' = Taken(part, from, to)
              /\ Emit(c, Listing(cwd)')
         ELSE Finish(c) /\ UNCHANGED <<disk, fs>>
  BY Zenon DEF RenameFolder, Taken
<1>3. ~Idle(c) /\ cmd[c].stage = "other"
  BY <1>2 DEF At
<1>4. /\ ~At(c, "emit") /\ ~At(c, "table") /\ cwd' \in Dirs /\ faults' \in 0..MaxFaults
      /\ issued' \in 0..MaxCommands /\ folders \subseteq Names
      /\ img \in Files /\ part \in Files /\ from \in Names /\ to \in Names
  <2>1. cmd[c] \in Commands
    BY <1>1, <1>3 DEF TypeOK, Idle
  <2> QED
    BY <1>1, <1>2, <1>3, <2>1 DEF TypeOK, At, Commands, Slots
<1> HIDE DEF from, to
<1>5. CASE ~goes
  <2>1. cmd' \in [Clients -> Commands \cup {Nothing}] /\ Idle(c)'
    BY <1>1, <1>2, <1>5, Ends
  <2>2. ~At(c, "emit")' /\ ~At(c, "table")'
    BY <2>1, Zenon DEF At
  <2> QED
    BY <1>2, <1>4, <1>5, <2>1, <2>2, Walks
<1>6. CASE goes
  <2>1. /\ from \in folders /\ to \notin folders /\ from # to
        /\ folders' = (folders \ {from}) \cup {to}
        /\ img' = Taken(img, from, to) /\ part' = Taken(part, from, to)
        /\ Emit(c, Listing(cwd)')
    BY <1>2, <1>6
  <2>2. folders' \subseteq Names
    BY <1>4, <2>1
  <2>3. Listing(cwd)' \in Listings
    BY <1>4, <2>2 DEF Listing, Listings
  <2>4. /\ img' \in Files /\ part' \in Files
        /\ \A s \in Slots :
             /\ s[1] = to => /\ <<from, s[2]>> \in Slots
                             /\ img'[s] = img[<<from, s[2]>>] /\ part'[s] = part[<<from, s[2]>>]
             /\ s[1] = from => img'[s] = Nothing /\ part'[s] = Nothing
             /\ s[1] \notin {from, to} => img'[s] = img[s] /\ part'[s] = part[s]
    <3>1. ASSUME NEW files \in Files
          PROVE  LET new == Taken(files, from, to) IN
                 /\ new \in Files
                 /\ \A s \in Slots :
                      /\ s[1] = to => <<from, s[2]>> \in Slots /\ new[s] = files[<<from, s[2]>>]
                      /\ s[1] = from => new[s] = Nothing
                      /\ s[1] \notin {from, to} => new[s] = files[s]
      <4>1. from \in Names /\ to \in Names /\ from # to
        BY <1>4, <2>1
      <4> DEFINE new == Taken(files, from, to)
      <4>2. /\ new \in Files
            /\ \A s \in Slots : s[1] = to => /\ <<from, s[2]>> \in Slots
                                            /\ new[s] = files[<<from, s[2]>>]
            /\ \A s \in Slots : s[1] = from => /\ new[s] = Nothing
                                              /\ <<to, s[2]>> \in Slots
                                              /\ new[<<to, s[2]>>] = files[s]
            /\ \A s \in Slots : s[1] \notin {from, to} => new[s] = files[s]
        BY <3>1, <4>1, FoldersMove
      <4> HIDE DEF new
      <4> QED
        BY <4>2, Zenon DEF new
    <3> QED
      BY <1>4, <2>1, <3>1
  <2>5. Housed'
    BY <1>1, <2>1, <2>4 DEF Housed, DirExists
  <2>6. faults' = 0 => AllMatch'
    <3>1. faults' = 0 => AllMatch
      BY <1>1, <1>2, <1>4 DEF Tables
    <3>2. ASSUME AllMatch, NEW s \in Slots
          PROVE  Matches(s)'
      <4>1. CASE s[1] = to
        BY <2>4, <3>2, <4>1, Zenon DEF AllMatch, Matches
      <4>2. CASE s[1] = from
        BY <2>4, <4>2, Zenon DEF Matches
      <4>3. CASE s[1] \notin {from, to}
        BY <2>4, <3>2, <4>3, Zenon DEF AllMatch, Matches
      <4> QED
        BY <4>1, <4>2, <4>3
    <3>3. AllMatch => AllMatch'
      BY <3>2, Zenon DEF AllMatch
    <3> QED
      BY <3>1, <3>3
  <2> QED
    BY <1>2, <1>3, <1>4, <2>1, <2>2, <2>3, <2>4, <2>5, <2>6, Publishes
<1> QED
  BY <1>5, <1>6

LEMMA DeleteFolderKeeps ==
  ASSUME OneClient, FilesInv, NEW c \in Clients, DeleteFolder(c)
  PROVE  FilesInv'
<1>1. TypeOK /\ Housed /\ Tables /\ \A d \in Clients : d = c
  BY DEF FilesInv, OneClient
<1> DEFINE gone == cmd[c].from[2]
<1>2. /\ At(c, "other") /\ UNCHANGED <<cwd, view, poll, polling, issued, faults>>
      /\ Emit(c, Listing(cwd)')
      /\ \/ /\ folders' = folders \ {gone} /\ img' = Emptied(img, gone)
            /\ part' = Emptied(part, gone)
         \/ UNCHANGED <<folders, img, part>>
  BY Zenon DEF DeleteFolder, Emptied, disk
<1>3. ~Idle(c) /\ cmd[c].stage = "other"
  BY <1>2 DEF At
<1>4. /\ ~At(c, "table") /\ cwd' \in Dirs /\ faults' \in 0..MaxFaults
      /\ folders \subseteq Names /\ img \in Files /\ part \in Files
  BY <1>1, <1>2, <1>3 DEF TypeOK, At
<1> HIDE DEF gone
<1>5. folders' \subseteq Names
  BY <1>2, <1>4
<1>6. Listing(cwd)' \in Listings
  BY <1>4, <1>5 DEF Listing, Listings
<1>7. /\ img' \in Files /\ part' \in Files
      /\ \A s \in Slots : \/ img'[s] = Nothing /\ part'[s] = Nothing
                          \/ /\ img'[s] = img[s] /\ part'[s] = part[s]
                             /\ s[1] # gone \/ folders' = folders
  <2>1. CASE UNCHANGED <<folders, img, part>>
    BY <1>4, <2>1
  <2>2. CASE img' = Emptied(img, gone) /\ part' = Emptied(part, gone)
    BY <1>4, <2>2 DEF Emptied, Files
  <2> QED
    BY <1>2, <2>1, <2>2
<1>8. Housed'
  BY <1>1, <1>2, <1>7 DEF Housed, DirExists
<1>9. faults' = 0 => AllMatch'
  <2>1. faults' = 0 => AllMatch
    BY <1>1, <1>2, <1>4 DEF Tables
  <2>2. AllMatch => AllMatch'
    BY <1>7, Zenon DEF AllMatch, Matches
  <2> QED
    BY <2>1, <2>2
<1> QED
  BY <1>2, <1>3, <1>4, <1>5, <1>6, <1>7, <1>8, <1>9, Publishes

LEMMA PollKeeps ==
  ASSUME FilesInv, Poll
  PROVE  FilesInv'
<1>1. TypeOK /\ Housed /\ Shown /\ AllLooked /\ Tables
  BY DEF FilesInv
<1>2. UNCHANGED <<img, part, folders, cmd, polling, issued, faults>>
  BY DEF Poll, PollBegin, PollLook, PollPublish, disk
<1>3. Housed' /\ AllLooked' /\ Tables'
  BY <1>1, <1>2, Zenon
  DEF Housed, DirExists, AllLooked, Idle, Looked, Tables, At, HalfWay, MovedTo, AllMatch, Matches
<1>4. polling'
  <2>1. poll # NoPoll \/ polling
    BY DEF Poll, PollBegin, PollLook, PollPublish, NoPoll
  <2> QED
    BY <1>1, <1>2, <2>1, Zenon DEF Shown
<1>5. TypeOK'
  <2> DEFINE P == [stage : {"idle", "stat", "publish"}, out : Listings]
  <2>1. poll \in P /\ NoPoll \in P
    <3>1. Blank \in Listings
      BY DEF Blank, Listings, Dirs
    <3> QED
      BY <1>1, <3>1 DEF TypeOK, NoPoll
  <2>2. \A d \in Dirs : Listing(d) \in Listings
    BY <1>1, ListingType DEF TypeOK
  <2>3. poll' \in P /\ cwd' \in Dirs /\ fs' \in Listings /\ view' \in Listings
    <3>1. CASE PollBegin
      BY <1>1, <2>1, <3>1 DEF PollBegin, TypeOK
    <3>2. CASE PollLook
      <4>1. Home \in Dirs /\ cwd' = Home
        BY <1>1, <3>2 DEF PollLook, Home, TypeOK, Dirs
      <4>2. /\ view' = view
            /\ \/ poll' = NoPoll /\ fs' = fs
               \/ fs' = Listing(cwd') /\ poll' = [stage |-> "publish", out |-> fs']
        BY <3>2 DEF PollLook
      <4>3. fs' \in Listings
        BY <1>1, <2>2, <4>1, <4>2 DEF TypeOK
      <4> QED
        BY <1>1, <2>1, <4>1, <4>2, <4>3 DEF TypeOK
    <3>3. CASE PollPublish
      BY <1>1, <2>1, <3>3 DEF PollPublish, TypeOK
    <3> QED
      BY <3>1, <3>2, <3>3 DEF Poll
  <2> QED
    BY <1>1, <1>2, <2>3, Zenon DEF TypeOK
<1> QED
  BY <1>3, <1>4, <1>5, Zenon DEF FilesInv, Shown

LEMMA FilesKept ==
  ASSUME OneClient, FilesInv, Next \/ UNCHANGED vars
  PROVE  FilesInv'
<1>1. CASE UNCHANGED vars
  <2>1. UNCHANGED <<img, part, folders, cwd, fs, view, cmd, poll, polling, issued, faults>>
    BY <1>1 DEF vars, disk
  <2>2. TypeOK' /\ Housed'
    BY <2>1, Zenon DEF FilesInv, TypeOK, Housed, DirExists
  <2>3. Shown' /\ AllLooked'
    BY <2>1, Zenon DEF FilesInv, Shown, AllLooked, Idle, Looked, At
  <2>4. Tables'
    BY <2>1, Zenon
    DEF FilesInv, Tables, At, Idle, HalfWay, MovedTo, DirExists, AllMatch, Matches
  <2> QED
    BY <2>2, <2>3, <2>4 DEF FilesInv
<1>2. CASE Poll
  BY <1>2, PollKeeps
<1>3. ASSUME NEW c \in Clients, Command(c) \/ Step(c)
      PROVE  FilesInv'
  <2>1. CASE Command(c)
    BY <2>1, CommandKeeps
  <2>2. CASE Step(c)
    BY <2>2, Answered, ListsKeep, LooksKeep, RenameImgKeeps, RenameTableKeeps,
       DeleteImgKeeps, DeleteTableKeeps, RenameFolderKeeps, DeleteFolderKeeps DEF Step
  <2> QED
    BY <1>3, <2>1, <2>2
<1> QED
  BY <1>1, <1>2, <1>3 DEF Next
LEMMA FilesInvariant == OneClient => (MCSpec => []FilesInv)
<1> SUFFICES ASSUME OneClient
             PROVE  MCSpec => []FilesInv
  OBVIOUS
<1>1. MCInit => FilesInv
  BY FilesStart DEF MCInit
<1>2. FilesInv /\ [MCNext]_<<half, vars, imagerVars>> => FilesInv'
  BY FilesKept DEF MCNext
<1> QED
  BY <1>1, <1>2, PTL DEF MCSpec

LEMMA FilesSound == OneClient /\ FilesInv => FilesAgree
<1> SUFFICES ASSUME OneClient, FilesInv
             PROVE  FilesAgree
  OBVIOUS
<1>1. TypeOK /\ Shown /\ AllLooked /\ Tables
  BY DEF FilesInv
<1>2. AnswersInOrder
  BY <1>1, Zenon DEF Shown, AnswersInOrder, At
<1>3. TablesMatch
  <2> SUFFICES ASSUME faults = 0, NEW s \in Slots, img[s] # Nothing, part[s] # Nothing
               PROVE  img[s] = part[s]
    BY DEF TablesMatch
  <2>1. CASE AllMatch
    BY <2>1 DEF AllMatch, Matches
  <2>2. ASSUME NEW c \in Clients, At(c, "table")
        PROVE  img[s] = part[s]
    <3>1. HalfWay(cmd[c])
      BY <1>1, <2>2 DEF Tables
    <3> QED
      BY <3>1 DEF HalfWay, MovedTo, AllMatch, Matches
  <2> QED
    BY <1>1, <2>1, <2>2 DEF Tables
<1> QED
  BY <1>1, <1>2, <1>3 DEF FilesAgree

(* As long as no table was left behind, the table beside an image is its   *)
(* own - in the middle of a rename too, when the image has gone ahead of   *)
(* it - and without the watchdog a client that waits for its answers is    *)
(* shown what the service has.  One client at a time: of two, one can take *)
(* the target that the other has found free.                               *)
THEOREM TablesStayTheirOwn == OneClient => (MCSpec => []FilesAgree)
<1> SUFFICES ASSUME OneClient
             PROVE  MCSpec => []FilesAgree
  OBVIOUS
<1> QED
  BY FilesInvariant, FilesSound, PTL

LEMMA KeepsImages ==
  ASSUME OneClient, FilesInv, Next \/ UNCHANGED vars, NEW i \in Images, Present(i),
         ~Deleting
  PROVE  Present(i)'
<1>1. TypeOK /\ Housed /\ AllLooked
  BY DEF FilesInv
<1>2. PICK s \in Slots : img[s] = i
  BY DEF Present
<1>3. i # Nothing
  BY FilesAssumption DEF FilesAssumption
<1>4. CASE UNCHANGED img
  BY <1>2, <1>4 DEF Present
<1>5. ASSUME NEW c \in Clients, RenameImg(c)
      PROVE  Present(i)'
  <2> DEFINE k == cmd[c]
             does == k.img /\ img[k.from] # Nothing /\ DirExists(k.to[1])
  <2>1. /\ At(c, "img") /\ k.op \in Renames
        /\ img' = IF does THEN Renamed(img, k.from, k.to) ELSE img
    BY <1>5, Zenon DEF RenameImg
  <2>2. ~Idle(c) /\ k.stage = "img" /\ k \in Commands
    BY <1>1, <2>1 DEF At, TypeOK, Idle
  <2>3. k.from \in Slots /\ k.to \in Slots /\ img \in Files
    BY <1>1, <2>2 DEF Commands, TypeOK
  <2>4. k.img /\ k.to # k.from => img[k.to] = Nothing
    BY <1>1, <2>1, <2>2, Zenon DEF AllLooked, Looked
  <2> HIDE DEF k
  <2>5. CASE img' = img
    BY <1>4, <2>5
  <2>6. CASE k.img /\ k.from # k.to /\ img' = Renamed(img, k.from, k.to)
    <3>1. k.from # k.to /\ img[k.to] = Nothing /\ img' = Renamed(img, k.from, k.to)
      BY <2>4, <2>6
    <3>2. /\ img'[k.to] = img[k.from]
          /\ \A u \in Slots \ {k.from, k.to} : img'[u] = img[u]
      BY <2>3, <3>1 DEF Files, Renamed
    <3>3. s # k.to
      BY <1>2, <1>3, <3>1
    <3> QED
      BY <1>2, <2>3, <3>2, <3>3 DEF Present
  <2> QED
    <3>1. CASE k.from = k.to
      BY <2>1, <2>5, <3>1, RenamedSame, Zenon
    <3>2. CASE k.from # k.to
      BY <2>1, <2>5, <2>6, <3>2
    <3> QED
      BY <3>1, <3>2
<1>6. ASSUME NEW c \in Clients, RenameFolder(c)
      PROVE  Present(i)'
  <2> DEFINE from == cmd[c].from[2]
             to == cmd[c].to[2]
  <2>1. /\ At(c, "other")
        /\ \/ /\ from \in folders /\ to \notin folders /\ img' = Taken(img, from, to)
           \/ img' = img
    BY <1>6, Zenon DEF RenameFolder, Taken, disk
  <2>2. from \in Names /\ to \in Names /\ img \in Files
    <3>1. cmd[c] \in Commands
      BY <1>1, <2>1 DEF At, TypeOK, Idle
    <3> QED
      BY <1>1, <3>1 DEF Commands, TypeOK, Slots
  <2> HIDE DEF from, to
  <2>3. CASE img' = img
    BY <1>4, <2>3
  <2>4. CASE from \in folders /\ to \notin folders /\ img' = Taken(img, from, to)
    <3>1. from # to /\ img' = Taken(img, from, to)
      BY <2>4
    <3>2. s[1] # to
      BY <1>1, <1>2, <1>3, <2>2, <2>4, FilesAssumption DEF FilesAssumption, Housed, DirExists
    <3>3. CASE s[1] = from
      <4>1. <<to, s[2]>> \in Slots /\ img'[<<to, s[2]>>] = img[s]
        BY <2>2, <3>1, <3>3, FoldersMove
      <4> QED
        BY <1>2, <4>1 DEF Present
    <3>4. CASE s[1] # from
      <4>1. img'[s] = img[s]
        BY <2>2, <3>1, <3>2, <3>4, FoldersMove
      <4> QED
        BY <1>2, <4>1 DEF Present
    <3> QED
      BY <3>3, <3>4
  <2> QED
    BY <2>1, <2>3, <2>4
<1>7. \A c \in Clients : ~DeleteImg(c) /\ ~DeleteFolder(c)
  BY DEF Deleting, DeleteImg, DeleteFolder, At
<1>8. CASE UNCHANGED vars \/ Poll
  <2>1. UNCHANGED img
    BY <1>8 DEF vars, disk, Poll, PollBegin, PollLook, PollPublish
  <2> QED
    BY <1>4, <2>1
<1>9. ASSUME NEW c \in Clients, Command(c) \/ Step(c)
      PROVE  Present(i)'
  <2>1. \/ RenameImg(c) \/ RenameFolder(c) \/ DeleteImg(c) \/ DeleteFolder(c)
        \/ UNCHANGED img
    BY <1>9 DEF Command, Step, Published, List, SearchBegin, SearchDone, CreateFolder,
       CreateElsewhere, LookImg, LookPart, CheckToImg, CheckToPart, RenameImgFails,
       RenameTable, RenameTableFails, DeleteTable, MoveNothing, disk
  <2> QED
    BY <1>4, <1>5, <1>6, <1>7, <2>1
<1> QED
  BY <1>8, <1>9 DEF Next

(* No rename or move loses an image, whatever fails in between; only a     *)
(* delete does.                                                            *)
THEOREM ImagesAreKept == OneClient => (MCSpec => NothingLost)
<1> SUFFICES ASSUME OneClient
             PROVE  MCSpec => NothingLost
  OBVIOUS
<1>1. FilesInv /\ [MCNext]_<<half, vars, imagerVars>> =>
        [\A i \in Images : Present(i) /\ ~Present(i)' => Deleting]_vars
  <2> SUFFICES ASSUME FilesInv, [MCNext]_<<half, vars, imagerVars>>,
                      NEW i \in Images, Present(i), ~Present(i)', ~Deleting
               PROVE  FALSE
    OBVIOUS
  <2>1. Next \/ UNCHANGED vars
    BY DEF MCNext
  <2> QED
    BY <2>1, KeepsImages
<1> QED
  BY <1>1, FilesInvariant, PTL DEF MCSpec, NothingLost
=============================================================================
