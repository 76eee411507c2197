--------------------------- MODULE SerialDiscovery ---------------------------
(***************************************************************************)
(* Serial discovery (core/serial/SerialDiscoveryService.ts) with the part  *)
(* of plugins/serial.ts that turns its events into device records and      *)
(* calls to the device services.                                           *)
(*                                                                         *)
(* A scan is an async function that nothing serialises: the interval timer *)
(* starts one whether or not the last has ended, so Scans may be in flight *)
(* together, each at its own await.  A step is the code between two        *)
(* awaits.  The operating system lets one owner at a time hold a port.     *)
(* Every path has one device behind it, plugged or not: a board that       *)
(* answers identify with a token some matcher names, or one that its       *)
(* vendor and product name (an exact static match).                        *)
(***************************************************************************)
EXTENDS Naturals

CONSTANTS
  Scans,         \* calls of scanOnce that may be in flight together
  Boards,        \* paths of boards that answer identify with a known token
  Statics,       \* paths of devices matched by vendor and product alone
  Retries,       \* identify.retries
  None, Service, Leak, Stop,
  MaxPlugs,      \* bound: devices plugged or unplugged
  MaxFaults,     \* bound: opens and answers that fail for no reason modelled
  MaxOverlaps    \* bound: scans started while another is in flight

Paths == Boards \cup Statics

ASSUME DiscoveryAssumption ==
  /\ Boards \cap Statics = {}
  /\ Retries \in Nat \ {0}
  /\ {None, Service, Leak, Stop} \cap Scans = {}
  /\ None \notin {Service, Leak, Stop} /\ Service \notin {Leak, Stop} /\ Leak # Stop
  /\ None \notin Paths
  /\ MaxPlugs \in Nat /\ MaxFaults \in Nat /\ MaxOverlaps \in Nat

VARIABLES
  rescan,     \* rescanIntervalMs > 0
  phase,      \* "new", "started", "stopping" or "stopped"
  \* the machine
  plugged,    \* paths SerialPort.list() would name
  lock,       \* lock[p]: who has the port open; Leak is a handle nobody knows
  \* SerialDiscoveryService
  tracked,    \* keys of openPorts
  claimed,    \* claimedPaths, and the keys of claimedIdByPath
  closer,     \* closer[p]: whose close() of the handle is under way
  pc,         \* pc[s]: where a scan waits
  at,         \* at[s]: the path it is at
  attempt,    \* attempt[s]: in readIdentityToken
  seen,       \* seen[s]: the list it works from
  todo,       \* todo[s]: paths still to lose or to probe
  \* plugins/serial.ts
  ready,      \* paths with a device record "ready"
  probe,      \* probe[p]: status of the record of kind "unknown"
  told,       \* paths whose device service was last told "identified"
  plugs, faults, overlaps   \* bounded by MaxPlugs, MaxFaults, MaxOverlaps

machine == <<plugged, lock>>
scanVars == <<pc, at, attempt, seen, todo>>
records == <<ready, probe, told>>
counters == <<plugs, faults, overlaps>>
vars == <<rescan, phase, machine, tracked, claimed, closer, scanVars, records, counters>>

(* Where a scan goes when the close it waits for is done.                  *)
After == [closeLost  |-> "unclaim", closeStale |-> "open",  closeToken |-> "closeClaim",
          closeFailed |-> "pause",  closeClaim |-> "claim", closeAfter |-> "next"]

Init ==
  /\ rescan \in BOOLEAN /\ phase = "new"
  /\ plugged \in SUBSET Paths
  /\ lock = [p \in Paths |-> None]
  /\ tracked = {} /\ claimed = {}
  /\ closer = [p \in Paths |-> None]
  /\ pc = [s \in Scans |-> "idle"]
  /\ at = [s \in Scans |-> None]
  /\ attempt = [s \in Scans |-> 0]
  /\ seen = [s \in Scans |-> {}]
  /\ todo = [s \in Scans |-> {}]
  /\ ready = {} /\ told = {}
  /\ probe = [p \in Paths |-> "none"]
  /\ plugs = 0 /\ faults = 0 /\ overlaps = 0

(* at[s] is kept only while the scan is at a path.                         *)
Goto(s, label) ==
  /\ pc' = [pc EXCEPT ![s] = label]
  /\ at' = IF label \in {"idle", "listed", "lost", "next"} THEN [at EXCEPT ![s] = None] ELSE at

GotoPath(s, p, label) ==
  /\ pc' = [pc EXCEPT ![s] = label]
  /\ at' = [at EXCEPT ![s] = p]

Fault == faults < MaxFaults /\ faults' = faults + 1

-----------------------------------------------------------------------------
(* The machine: external                                                   *)

Plug(p) ==
  /\ p \notin plugged /\ plugs < MaxPlugs
  /\ plugged' = plugged \cup {p} /\ plugs' = plugs + 1
  /\ UNCHANGED <<rescan, phase, lock, tracked, claimed, closer, scanVars, records, faults, overlaps>>

(* The handle on the device dies with it, and its close event drops it     *)
(* from openPorts.                                                         *)
Unplug(p) ==
  /\ p \in plugged /\ plugs < MaxPlugs
  /\ plugged' = plugged \ {p} /\ plugs' = plugs + 1
  /\ IF closer[p] = None
     THEN lock' = [lock EXCEPT ![p] = None] /\ tracked' = tracked \ {p}
     ELSE UNCHANGED <<lock, tracked>>
  /\ UNCHANGED <<rescan, phase, claimed, closer, scanVars, records, faults, overlaps>>

(* A device service opens the port it was told of, and closes it when told *)
(* the device is lost, or on an error of its own.                          *)
ServiceOpens(p) ==
  /\ p \in told /\ p \in plugged /\ lock[p] = None
  /\ lock' = [lock EXCEPT ![p] = Service]
  /\ UNCHANGED <<rescan, phase, plugged, tracked, claimed, closer, scanVars, records, counters>>

ServiceCloses(p) ==
  /\ lock[p] = Service
  /\ p \notin told \/ faults < MaxFaults
  /\ faults' = IF p \in told THEN faults + 1 ELSE faults
  /\ lock' = [lock EXCEPT ![p] = None]
  /\ UNCHANGED <<rescan, phase, plugged, tracked, claimed, closer, scanVars, records, plugs, overlaps>>

-----------------------------------------------------------------------------
(* start, the interval timer and stop                                      *)

(* scanOnce, as far as SerialPort.list(); what it returns may be old news  *)
(* when the scan goes on.                                                  *)
ScanOnce(s) ==
  /\ pc[s] = "idle"
  /\ seen' = [seen EXCEPT ![s] = plugged]
  /\ Goto(s, "listed")
  /\ UNCHANGED <<rescan, machine, tracked, claimed, closer, attempt, todo, records, plugs, faults>>

Start(s) ==
  /\ phase = "new" /\ phase' = "started"
  /\ ScanOnce(s)
  /\ UNCHANGED overlaps

Rescan(s) ==
  /\ phase = "started" /\ rescan
  /\ IF \A t \in Scans : pc[t] = "idle" THEN UNCHANGED overlaps
     ELSE overlaps < MaxOverlaps /\ overlaps' = overlaps + 1
  /\ ScanOnce(s)
  /\ UNCHANGED phase

(* stop() closes what openPorts holds, waits, and forgets everything.      *)
(* Scans in flight are not told.                                           *)
StopBegins ==
  /\ phase = "started" /\ phase' = "stopping"
  /\ closer' = [p \in Paths |-> IF p \in tracked /\ closer[p] = None THEN Stop ELSE closer[p]]
  /\ UNCHANGED <<rescan, machine, tracked, claimed, scanVars, records, counters>>

StopEnds ==
  /\ phase = "stopping" /\ phase' = "stopped"
  /\ \A p \in Paths : closer[p] # Stop
  /\ tracked' = {} /\ claimed' = {}
  /\ UNCHANGED <<rescan, machine, closer, scanVars, records, counters>>

-----------------------------------------------------------------------------
(* safeClose(path), and closeNow(path, port) at "closeToken"               *)

(* A close() of a handle that is closing or closed calls back at once.     *)
Closable(s) ==
  /\ closer[at[s]] = None
  /\ IF pc[s] = "closeToken" THEN lock[at[s]] = s ELSE at[s] \in tracked

SafeClose(s) ==
  /\ pc[s] \in DOMAIN After /\ closer[at[s]] # s
  /\ IF Closable(s)
     THEN closer' = [closer EXCEPT ![at[s]] = s] /\ UNCHANGED <<pc, at, tracked>>
     ELSE /\ Goto(s, After[pc[s]])
          /\ tracked' = IF pc[s] = "closeToken" /\ lock[at[s]] # s
                        THEN tracked ELSE tracked \ {at[s]}
          /\ UNCHANGED closer
  /\ UNCHANGED <<rescan, phase, machine, claimed, attempt, seen, todo, records, counters>>

CloseDone(p) ==
  /\ closer[p] # None
  /\ lock' = [lock EXCEPT ![p] = None]
  /\ tracked' = tracked \ {p}
  /\ closer' = [closer EXCEPT ![p] = None]
  /\ IF closer[p] \in Scans THEN Goto(closer[p], After[pc[closer[p]]]) ELSE UNCHANGED <<pc, at>>
  /\ UNCHANGED <<rescan, phase, plugged, claimed, attempt, seen, todo, records, counters>>

-----------------------------------------------------------------------------
(* Lost devices *)

(* The list is in, and some paths are lost: on with the probing when none. *)
BeginWith(s, gone) ==
  /\ pc[s] = "listed"
  /\ IF gone = {}
     THEN todo' = [todo EXCEPT ![s] = seen[s]] /\ seen' = [seen EXCEPT ![s] = {}] /\ Goto(s, "next")
     ELSE todo' = [todo EXCEPT ![s] = gone] /\ Goto(s, "lost") /\ UNCHANGED seen
  /\ UNCHANGED <<rescan, phase, machine, tracked, claimed, closer, attempt, records, counters>>

(* Mutant: an empty list of ports ends the scan's look for lost devices.   *)
ListedUnlessEmpty(s) == BeginWith(s, IF seen[s] = {} THEN {} ELSE claimed \ seen[s])

(* The claimed paths the list does not name are lost.                      *)
Listed(s) == BeginWith(s, claimed \ seen[s])

Lose(s, p) ==
  /\ pc[s] = "lost" /\ p \in todo[s]
  /\ todo' = [todo EXCEPT ![s] = @ \ {p}]
  /\ GotoPath(s, p, "closeLost")
  /\ UNCHANGED <<rescan, phase, machine, tracked, claimed, closer, attempt, seen, records, counters>>

(* Mutant: the claim is dropped and device:lost is not emitted.            *)
UnclaimQuietly(s) ==
  /\ pc[s] = "unclaim"
  /\ claimed' = claimed \ {at[s]}
  /\ Goto(s, "lost")
  /\ UNCHANGED <<rescan, phase, machine, tracked, closer, attempt, seen, todo, records, counters>>

(* device:lost: the plugin removes the record and tells the service.  A    *)
(* path two scans lose has no id the second time, and nothing is found.    *)
Unclaim(s) ==
  /\ pc[s] = "unclaim"
  /\ claimed' = claimed \ {at[s]}
  /\ IF at[s] \in claimed
     THEN ready' = ready \ {at[s]} /\ told' = told \ {at[s]}
     ELSE UNCHANGED <<ready, told>>
  /\ Goto(s, "lost")
  /\ UNCHANGED <<rescan, phase, machine, tracked, closer, attempt, seen, todo, probe, counters>>

AllLost(s) ==
  /\ pc[s] = "lost" /\ todo[s] = {}
  /\ todo' = [todo EXCEPT ![s] = seen[s]] /\ seen' = [seen EXCEPT ![s] = {}]
  /\ Goto(s, "next")
  /\ UNCHANGED <<rescan, phase, machine, tracked, claimed, closer, attempt, records, counters>>

-----------------------------------------------------------------------------
(* Probing *)

(* Mutant: a path some scan has claimed is probed again.                   *)
NextPathAnyway(s, p) ==
  /\ pc[s] = "next" /\ p \in todo[s]
  /\ todo' = [todo EXCEPT ![s] = @ \ {p}]
  /\ probe' = [probe EXCEPT ![p] = "identifying"]
  /\ attempt' = [attempt EXCEPT ![s] = 1]
  /\ GotoPath(s, p, IF p \in Statics THEN "closeClaim" ELSE "closeStale")
  /\ UNCHANGED <<rescan, phase, machine, tracked, claimed, closer, seen, ready, told, counters>>

(* The next path of the list: claimed ones are passed over; an exact       *)
(* static match is recognised without a probe.                             *)
NextPath(s, p) ==
  /\ pc[s] = "next" /\ p \in todo[s]
  /\ todo' = [todo EXCEPT ![s] = @ \ {p}]
  /\ IF p \in claimed
     THEN UNCHANGED <<probe, at, attempt, pc>>
     ELSE /\ probe' = [probe EXCEPT ![p] = "identifying"]
          /\ attempt' = [attempt EXCEPT ![s] = IF p \in Statics THEN 0 ELSE 1]
          /\ GotoPath(s, p, IF p \in Statics THEN "closeClaim" ELSE "closeStale")
  /\ UNCHANGED <<rescan, phase, machine, tracked, claimed, closer, seen, ready, told, counters>>

(* The scan returns.                                                       *)
ScanEnds(s) ==
  /\ pc[s] = "next" /\ todo[s] = {}
  /\ Goto(s, "idle")
  /\ UNCHANGED <<rescan, phase, machine, tracked, claimed, closer, attempt, seen, todo, records, counters>>

(* Mutant: the open handle is not put in openPorts.                        *)
OpenSucceedsUntracked(s) ==
  /\ pc[s] = "open"
  /\ at[s] \in plugged /\ lock[at[s]] = None
  /\ lock' = [lock EXCEPT ![at[s]] = s]
  /\ Goto(s, "ask")
  /\ UNCHANGED <<rescan, phase, plugged, tracked, claimed, closer, attempt, seen, todo,
                 records, counters>>

(* openPort, once a port discovery had open there is closed.               *)
OpenSucceeds(s) ==
  /\ pc[s] = "open"
  /\ at[s] \in plugged /\ lock[at[s]] = None
  /\ lock' = [lock EXCEPT ![at[s]] = s]
  /\ tracked' = tracked \cup {at[s]}
  /\ Goto(s, "ask")
  /\ UNCHANGED <<rescan, phase, plugged, claimed, closer, attempt, seen, todo, records, counters>>

OpenFails(s) ==
  /\ pc[s] = "open"
  /\ IF at[s] \in plugged /\ lock[at[s]] = None THEN Fault ELSE UNCHANGED faults
  /\ Goto(s, "closeFailed")
  /\ UNCHANGED <<rescan, phase, machine, tracked, claimed, closer, attempt, seen, todo,
                 records, plugs, overlaps>>

(* The open outlasts its 3 s timer and succeeds after it: the handle is in *)
(* nobody's books.                                                         *)
OpenTimesOut(s) ==
  /\ pc[s] = "open" /\ Fault
  /\ at[s] \in plugged /\ lock[at[s]] = None
  /\ lock' = [lock EXCEPT ![at[s]] = Leak]
  /\ Goto(s, "closeFailed")
  /\ UNCHANGED <<rescan, phase, plugged, tracked, claimed, closer, attempt, seen, todo,
                 records, plugs, overlaps>>

(* requestIdentify: an answer needs the scan's own handle, still open.     *)
Hears(s) == lock[at[s]] = s /\ closer[at[s]] = None

Answered(s) ==
  /\ pc[s] = "ask" /\ Hears(s)
  /\ attempt' = [attempt EXCEPT ![s] = 0]
  /\ Goto(s, "closeToken")
  /\ UNCHANGED <<rescan, phase, machine, tracked, claimed, closer, seen, todo,
                 records, counters>>

Unanswered(s) ==
  /\ pc[s] = "ask"
  /\ IF Hears(s) THEN Fault ELSE UNCHANGED faults
  /\ Goto(s, "closeFailed")
  /\ UNCHANGED <<rescan, phase, machine, tracked, claimed, closer, attempt, seen, todo,
                 records, plugs, overlaps>>

(* Mutant: retries are not counted.                                        *)
RetryForever(s) ==
  /\ pc[s] = "pause"
  /\ attempt' = [attempt EXCEPT ![s] = @ + 1]
  /\ Goto(s, "closeStale")
  /\ UNCHANGED <<rescan, phase, machine, tracked, claimed, closer, seen, todo, records, counters>>

Retry(s) ==
  /\ pc[s] = "pause" /\ attempt[s] < Retries
  /\ attempt' = [attempt EXCEPT ![s] = @ + 1]
  /\ Goto(s, "closeStale")
  /\ UNCHANGED <<rescan, phase, machine, tracked, claimed, closer, seen, todo, records, counters>>

(* Out of attempts and not a static: device:error, then the finally block. *)
GiveUp(s) ==
  /\ pc[s] = "pause" /\ attempt[s] >= Retries
  /\ probe' = [probe EXCEPT ![at[s]] = "error"]
  /\ attempt' = [attempt EXCEPT ![s] = 0]
  /\ Goto(s, IF at[s] \in claimed THEN "next" ELSE "closeAfter")
  /\ UNCHANGED <<rescan, phase, machine, tracked, claimed, closer, seen, todo,
                 ready, told, counters>>

(* onRecognized after its close: the claim, and device:identified, on      *)
(* which the plugin prunes the probe record, files a ready one and calls   *)
(* the device's service.                                                   *)
Claim(s) ==
  /\ pc[s] = "claim"
  /\ claimed' = claimed \cup {at[s]}
  /\ ready' = ready \cup {at[s]}
  /\ told' = told \cup {at[s]}
  /\ probe' = [probe EXCEPT ![at[s]] = IF @ = "identifying" THEN "none" ELSE @]
  /\ Goto(s, "next")
  /\ UNCHANGED <<rescan, phase, machine, tracked, closer, attempt, seen, todo, counters>>

ScanStep(s) ==
  \/ SafeClose(s) \/ Listed(s) \/ Unclaim(s) \/ AllLost(s) \/ ScanEnds(s)
  \/ OpenSucceeds(s) \/ OpenFails(s) \/ OpenTimesOut(s)
  \/ Answered(s) \/ Unanswered(s) \/ Retry(s) \/ GiveUp(s) \/ Claim(s)
  \/ \E p \in Paths : Lose(s, p) \/ NextPath(s, p)

Next ==
  \/ \E p \in Paths : Plug(p) \/ Unplug(p) \/ ServiceOpens(p) \/ ServiceCloses(p) \/ CloseDone(p)
  \/ \E s \in Scans : Start(s) \/ Rescan(s) \/ ScanStep(s)
  \/ StopBegins \/ StopEnds

Spec == Init /\ [][Next]_vars

(* Timers fire, awaited calls come back, services close what they lost.    *)
FairSpec ==
  /\ Spec
  /\ \A s \in Scans : WF_vars(ScanStep(s)) /\ WF_vars(Rescan(s)) /\ WF_vars(Start(s))
  /\ \A p \in Paths : WF_vars(CloseDone(p)) /\ WF_vars(ServiceCloses(p) /\ p \notin told)

-----------------------------------------------------------------------------
(* Properties *)

Labels == {"idle", "listed", "lost", "unclaim", "next", "open", "ask", "pause", "claim"} \cup DOMAIN After

TypeOK ==
  /\ rescan \in BOOLEAN /\ phase \in {"new", "started", "stopping", "stopped"}
  /\ plugged \subseteq Paths
  /\ lock \in [Paths -> Scans \cup {None, Service, Leak}]
  /\ tracked \subseteq Paths /\ claimed \subseteq Paths
  /\ closer \in [Paths -> Scans \cup {None, Stop}]
  /\ pc \in [Scans -> Labels]
  /\ at \in [Scans -> Paths \cup {None}]
  /\ \A s \in Scans : pc[s] \notin {"idle", "listed", "lost", "next"} => at[s] \in Paths
  /\ attempt \in [Scans -> 0 .. Retries]
  /\ seen \in [Scans -> SUBSET Paths] /\ todo \in [Scans -> SUBSET Paths]
  /\ ready \subseteq Paths /\ told \subseteq Paths
  /\ probe \in [Paths -> {"none", "identifying", "error"}]
  /\ plugs \in 0 .. MaxPlugs /\ faults \in 0 .. MaxFaults /\ overlaps \in 0 .. MaxOverlaps

(* While discovery runs, the claims it keeps, the ready records /ready and *)
(* the state report, and what the services were last told agree, whatever  *)
(* scans overlap (scanOnce, onRecognized, the plugin's handlers).          *)
ClaimsAreAnnounced == phase \in {"new", "started"} => ready = claimed /\ told = claimed

(* An identified device is not shown as being identified again beside its  *)
(* ready record: its probe record is pruned and none comes back.           *)
IdentifiedOnce == \A p \in claimed : probe[p] # "identifying"

(* Between scans discovery has no port open, whatever failed, was closed   *)
(* by another scan or was unplugged: the boards' own services can open     *)
(* them.  (A leaked handle is nobody's: see OpenTimesOut.)                 *)
QuietHoldsNothing ==
  (phase = "started" /\ \A s \in Scans : pc[s] = "idle")
    => tracked = {} /\ \A p \in Paths : lock[p] \notin Scans

(* With rescans, a device that stays plugged ends up claimed and its       *)
(* service told, for good, however stale the list some scan works from,    *)
(* unless its port leaked (scanOnce, setInterval in start).                *)
PresenceIsNoticed ==
  \A p \in Boards \cup Statics :
    <>[](rescan /\ phase = "started" /\ p \in plugged /\ lock[p] # Leak) => <>[](p \in claimed /\ p \in told)

(* With rescans, a device that stays away ends up lost for good: unclaimed,*)
(* and its service told.                                                   *)
AbsenceIsNoticed ==
  \A p \in Paths :
    <>[](rescan /\ phase = "started" /\ p \notin plugged) => <>[](p \notin claimed /\ p \notin told)

(* Whatever stays as it is, plugged or away, is noticed in the end.        *)
DevicesAreNoticed == PresenceIsNoticed /\ AbsenceIsNoticed

(* "SerialDiscoveryService must NOT keep active/token-first ports open     *)
(* after identification.  Dedicated device services must own those ports   *)
(* exclusively" (SerialDiscoveryService.ts:19): it has no such port open   *)
(* that it is not closing.  A second scan in flight goes on probing a      *)
(* board the first has identified.                                         *)
ServicesOwnTheirPorts ==
  phase = "started" =>
    \A p \in claimed \cap Boards : lock[p] \in Scans => closer[p] # None
=============================================================================
