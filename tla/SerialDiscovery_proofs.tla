----------------------- MODULE SerialDiscovery_proofs ------------------------
(***************************************************************************)
(* Proofs about SerialDiscovery, for any number of scans in flight and any *)
(* paths: its types; that claims, records and what services were told      *)
(* agree; that an identified device is not probed beside its record; and   *)
(* that between scans discovery has no port open.                          *)
(***************************************************************************)
EXTENDS SerialDiscovery, TLAPS

Running == phase \in {"new", "started"}

(* Where a scan has a handle of its own open.                              *)
Holding == {"ask", "closeToken", "closeFailed"}

(* A handle that is open and not closing is tracked, and its scan is at    *)
(* the path, before the step that will close it.                           *)
HandlesAreHeld ==
  Running => \A p \in Paths : closer[p] = None =>
    /\ lock[p] \in Scans => p \in tracked
    /\ p \in tracked => \E s \in Scans : lock[p] = s /\ at[s] = p /\ pc[s] \in Holding

(* Whoever closes a handle waits for it; only stop() closes unawaited.     *)
ClosersWait ==
  \A p \in Paths :
    /\ closer[p] \in Scans => at[closer[p]] = p /\ pc[closer[p]] \in DOMAIN After
    /\ Running => closer[p] # Stop

-----------------------------------------------------------------------------
(* Each step keeps the types.                                              *)
LEMMA TypeStep ==
  TypeOK /\ ClosersWait /\ [Next]_vars => TypeOK'
<1> SUFFICES ASSUME TypeOK, ClosersWait, [Next]_vars PROVE TypeOK'
  OBVIOUS
<1> USE DiscoveryAssumption DEF DiscoveryAssumption, machine, scanVars, records, counters,
             Labels, After, TypeOK, ClosersWait
<1>1. ASSUME NEW p \in Paths, Plug(p) PROVE TypeOK'
  BY <1>1 DEF Plug
<1>2. ASSUME NEW p \in Paths, Unplug(p) PROVE TypeOK'
  BY <1>2 DEF Unplug
<1>3. ASSUME NEW p \in Paths, ServiceOpens(p) \/ ServiceCloses(p) PROVE TypeOK'
  BY <1>3 DEF ServiceOpens, ServiceCloses
<1>4. ASSUME NEW p \in Paths, CloseDone(p) PROVE TypeOK'
  BY <1>4 DEF CloseDone, Goto
<1>5. ASSUME NEW s \in Scans, Start(s) \/ Rescan(s) PROVE TypeOK'
  BY <1>5 DEF Start, Rescan, ScanOnce, Goto
<1>6. ASSUME NEW s \in Scans, SafeClose(s) PROVE TypeOK'
  BY <1>6 DEF SafeClose, Closable, Goto
<1>7. ASSUME NEW s \in Scans, Listed(s) PROVE TypeOK'
  BY <1>7 DEF Listed, BeginWith, Goto
<1>8. ASSUME NEW s \in Scans, Unclaim(s) \/ AllLost(s) \/ ScanEnds(s) PROVE TypeOK'
  BY <1>8 DEF Unclaim, AllLost, ScanEnds, Goto
<1>9. ASSUME NEW s \in Scans, OpenSucceeds(s) \/ OpenFails(s) \/ OpenTimesOut(s) PROVE TypeOK'
  BY <1>9 DEF OpenSucceeds, OpenFails, OpenTimesOut, Fault, Goto
<1>10. ASSUME NEW s \in Scans, Answered(s) \/ Unanswered(s) PROVE TypeOK'
  BY <1>10 DEF Answered, Unanswered, Fault, Goto
<1>11. ASSUME NEW s \in Scans, Retry(s) \/ GiveUp(s) \/ Claim(s) PROVE TypeOK'
  BY <1>11 DEF Retry, GiveUp, Claim, Goto
<1>12. ASSUME NEW s \in Scans, NEW p \in Paths, Lose(s, p) PROVE TypeOK'
  BY <1>12 DEF Lose, GotoPath
<1>13. ASSUME NEW s \in Scans, NEW p \in Paths, NextPath(s, p) PROVE TypeOK'
  BY <1>13 DEF NextPath, GotoPath
<1>14. CASE StopBegins \/ StopEnds
  BY <1>14 DEF StopBegins, StopEnds
<1>15. CASE UNCHANGED vars
  BY <1>15 DEF vars
<1>16. QED
  BY <1>1, <1>2, <1>3, <1>4, <1>5, <1>6, <1>7, <1>8, <1>9, <1>10, <1>11, <1>12, <1>13, <1>14,
     <1>15 DEF Next, ScanStep

-----------------------------------------------------------------------------
(* A scan that closes a handle stays until the close is done.              *)
LEMMA ClosersStep ==
  TypeOK /\ ClosersWait /\ [Next]_vars => ClosersWait'
<1> SUFFICES ASSUME TypeOK, ClosersWait, [Next]_vars PROVE ClosersWait'
  OBVIOUS
<1> USE DiscoveryAssumption DEF DiscoveryAssumption, machine, scanVars, records, counters,
             Labels, After, TypeOK, ClosersWait, Running
<1>1. ASSUME NEW p \in Paths, Plug(p) PROVE ClosersWait'
  BY <1>1 DEF Plug
<1>2. ASSUME NEW p \in Paths, Unplug(p) PROVE ClosersWait'
  BY <1>2 DEF Unplug
<1>3. ASSUME NEW p \in Paths, ServiceOpens(p) \/ ServiceCloses(p) PROVE ClosersWait'
  BY <1>3 DEF ServiceOpens, ServiceCloses
<1>4. ASSUME NEW p \in Paths, CloseDone(p) PROVE ClosersWait'
  BY <1>4 DEF CloseDone, Goto
<1>5. ASSUME NEW s \in Scans, Start(s) \/ Rescan(s) PROVE ClosersWait'
  BY <1>5 DEF Start, Rescan, ScanOnce, Goto
<1>6. ASSUME NEW s \in Scans, SafeClose(s) PROVE ClosersWait'
  BY <1>6 DEF SafeClose, Closable, Goto
<1>7. ASSUME NEW s \in Scans, Listed(s) PROVE ClosersWait'
  BY <1>7 DEF Listed, BeginWith, Goto
<1>8. ASSUME NEW s \in Scans, Unclaim(s) \/ AllLost(s) \/ ScanEnds(s) PROVE ClosersWait'
  BY <1>8 DEF Unclaim, AllLost, ScanEnds, Goto
<1>9. ASSUME NEW s \in Scans, OpenSucceeds(s) \/ OpenFails(s) \/ OpenTimesOut(s) PROVE ClosersWait'
  BY <1>9 DEF OpenSucceeds, OpenFails, OpenTimesOut, Fault, Goto
<1>10. ASSUME NEW s \in Scans, Answered(s) \/ Unanswered(s) PROVE ClosersWait'
  BY <1>10 DEF Answered, Unanswered, Fault, Goto
<1>11. ASSUME NEW s \in Scans, Retry(s) \/ GiveUp(s) \/ Claim(s) PROVE ClosersWait'
  BY <1>11 DEF Retry, GiveUp, Claim, Goto
<1>12. ASSUME NEW s \in Scans, NEW p \in Paths, Lose(s, p) PROVE ClosersWait'
  BY <1>12 DEF Lose, GotoPath
<1>13. ASSUME NEW s \in Scans, NEW p \in Paths, NextPath(s, p) PROVE ClosersWait'
  BY <1>13 DEF NextPath, GotoPath
<1>14. CASE StopBegins \/ StopEnds
  BY <1>14 DEF StopBegins, StopEnds
<1>15. CASE UNCHANGED vars
  BY <1>15 DEF vars
<1>16. QED
  BY <1>1, <1>2, <1>3, <1>4, <1>5, <1>6, <1>7, <1>8, <1>9, <1>10, <1>11, <1>12, <1>13, <1>14,
     <1>15 DEF Next, ScanStep

-----------------------------------------------------------------------------
(* Handles that are open and not closing stay in the books.                *)
LEMMA HandlesStep ==
  TypeOK /\ ClosersWait /\ HandlesAreHeld /\ [Next]_vars => HandlesAreHeld'
<1> SUFFICES ASSUME TypeOK, ClosersWait, HandlesAreHeld, [Next]_vars PROVE HandlesAreHeld'
  OBVIOUS
<1> USE DiscoveryAssumption DEF DiscoveryAssumption, machine, scanVars, records, counters,
             Labels, After, TypeOK, ClosersWait, HandlesAreHeld, Holding, Running
<1>1. ASSUME NEW p \in Paths, Plug(p) PROVE HandlesAreHeld'
  BY <1>1 DEF Plug
<1>2. ASSUME NEW p \in Paths, Unplug(p) PROVE HandlesAreHeld'
  BY <1>2 DEF Unplug
<1>3. ASSUME NEW p \in Paths, ServiceOpens(p) \/ ServiceCloses(p) PROVE HandlesAreHeld'
  BY <1>3 DEF ServiceOpens, ServiceCloses
<1>4. ASSUME NEW p \in Paths, CloseDone(p) PROVE HandlesAreHeld'
  BY <1>4 DEF CloseDone, Goto
<1>5. ASSUME NEW s \in Scans, Start(s) \/ Rescan(s) PROVE HandlesAreHeld'
  BY <1>5 DEF Start, Rescan, ScanOnce, Goto
<1>6. ASSUME NEW s \in Scans, SafeClose(s) PROVE HandlesAreHeld'
  BY <1>6 DEF SafeClose, Closable, Goto
<1>7. ASSUME NEW s \in Scans, Listed(s) PROVE HandlesAreHeld'
  BY <1>7 DEF Listed, BeginWith, Goto
<1>8. ASSUME NEW s \in Scans, Unclaim(s) \/ AllLost(s) \/ ScanEnds(s) PROVE HandlesAreHeld'
  BY <1>8 DEF Unclaim, AllLost, ScanEnds, Goto
<1>9. ASSUME NEW s \in Scans, OpenSucceeds(s) \/ OpenFails(s) \/ OpenTimesOut(s) PROVE HandlesAreHeld'
  BY <1>9 DEF OpenSucceeds, OpenFails, OpenTimesOut, Fault, Goto
<1>10. ASSUME NEW s \in Scans, Answered(s) \/ Unanswered(s) PROVE HandlesAreHeld'
  BY <1>10 DEF Answered, Unanswered, Fault, Goto
<1>11. ASSUME NEW s \in Scans, Retry(s) \/ GiveUp(s) \/ Claim(s) PROVE HandlesAreHeld'
  BY <1>11 DEF Retry, GiveUp, Claim, Goto
<1>12. ASSUME NEW s \in Scans, NEW p \in Paths, Lose(s, p) PROVE HandlesAreHeld'
  BY <1>12 DEF Lose, GotoPath
<1>13. ASSUME NEW s \in Scans, NEW p \in Paths, NextPath(s, p) PROVE HandlesAreHeld'
  BY <1>13 DEF NextPath, GotoPath
<1>14. CASE StopBegins \/ StopEnds
  BY <1>14 DEF StopBegins, StopEnds
<1>15. CASE UNCHANGED vars
  BY <1>15 DEF vars
<1>16. QED
  BY <1>1, <1>2, <1>3, <1>4, <1>5, <1>6, <1>7, <1>8, <1>9, <1>10, <1>11, <1>12, <1>13, <1>14,
     <1>15 DEF Next, ScanStep

-----------------------------------------------------------------------------
(* The steps that leave claims, records and the phase alone.               *)
LEMMA QuietSteps ==
  ASSUME NEW s \in Scans,
         \/ SafeClose(s) \/ Listed(s) \/ AllLost(s) \/ ScanEnds(s) \/ Answered(s) \/ Unanswered(s)
         \/ OpenSucceeds(s) \/ OpenFails(s) \/ OpenTimesOut(s) \/ Retry(s)
         \/ \E p \in Paths : Lose(s, p)
  PROVE  UNCHANGED <<phase, claimed, records>>
BY DEF SafeClose, Listed, BeginWith, AllLost, ScanEnds, Answered, Unanswered, OpenSucceeds,
       OpenFails, OpenTimesOut, Retry, Lose, records

(* The machine, the services and the timer leave claims and records alone. *)
LEMMA QuietWorld ==
  ASSUME \/ \E p \in Paths : \/ Plug(p) \/ Unplug(p) \/ ServiceOpens(p)
                            \/ ServiceCloses(p) \/ CloseDone(p)
         \/ \E s \in Scans : Start(s) \/ Rescan(s)
         \/ StopBegins
  PROVE  /\ UNCHANGED <<claimed, records>>
         /\ phase' = phase \/ phase' = "stopping" \/ (phase = "new" /\ phase' = "started")
BY DEF Plug, Unplug, ServiceOpens, ServiceCloses, CloseDone, Start, Rescan, ScanOnce, StopBegins,
       records

(* A claim changes with its record and with what its service was told.     *)
LEMMA AnnouncedStep ==
  ClaimsAreAnnounced /\ [Next]_vars => ClaimsAreAnnounced'
<1> SUFFICES ASSUME ClaimsAreAnnounced, [Next]_vars PROVE ClaimsAreAnnounced'
  OBVIOUS
<1> USE DEF ClaimsAreAnnounced
<1>1. ASSUME NEW s \in Scans, Unclaim(s) PROVE ClaimsAreAnnounced'
  <2>1. at[s] \notin claimed => claimed \ {at[s]} = claimed
    OBVIOUS
  <2>2. QED
    BY <1>1, <2>1 DEF Unclaim
<1>2. ASSUME NEW s \in Scans, Claim(s) PROVE ClaimsAreAnnounced'
  BY <1>2 DEF Claim
<1>3. ASSUME NEW s \in Scans, GiveUp(s) \/ \E p \in Paths : NextPath(s, p)
      PROVE  ClaimsAreAnnounced'
  BY <1>3 DEF GiveUp, NextPath
<1>4. CASE StopEnds
  BY <1>4 DEF StopEnds
<1>5. CASE UNCHANGED vars
  BY <1>5 DEF vars, records
<1>6. QED
  BY <1>1, <1>2, <1>3, <1>4, <1>5, QuietSteps, QuietWorld DEF Next, ScanStep, records

(* A probe record comes only to a path that is not claimed.                *)
LEMMA IdentifiedStep ==
  TypeOK /\ IdentifiedOnce /\ [Next]_vars => IdentifiedOnce'
<1> SUFFICES ASSUME TypeOK, IdentifiedOnce, [Next]_vars PROVE IdentifiedOnce'
  OBVIOUS
<1> USE DEF IdentifiedOnce, TypeOK
<1>1. ASSUME NEW s \in Scans, Unclaim(s) PROVE IdentifiedOnce'
  BY <1>1 DEF Unclaim
<1>2. ASSUME NEW s \in Scans, Claim(s) PROVE IdentifiedOnce'
  BY <1>2 DEF Claim
<1>3. ASSUME NEW s \in Scans, GiveUp(s) PROVE IdentifiedOnce'
  BY <1>3 DEF GiveUp
<1>4. ASSUME NEW s \in Scans, NEW p \in Paths, NextPath(s, p) PROVE IdentifiedOnce'
  BY <1>4 DEF NextPath
<1>5. CASE StopEnds
  BY <1>5 DEF StopEnds
<1>6. CASE UNCHANGED vars
  BY <1>6 DEF vars, records
<1>7. QED
  BY <1>1, <1>2, <1>3, <1>4, <1>5, <1>6, QuietSteps, QuietWorld DEF Next, ScanStep, records
-----------------------------------------------------------------------------
(* The variables keep their types; closers wait.                           *)
LEMMA DiscoveryInvariance == Spec => [](TypeOK /\ ClosersWait)
<1>1. Init => TypeOK /\ ClosersWait
  BY DiscoveryAssumption
  DEF DiscoveryAssumption, Init, TypeOK, ClosersWait, Paths, Labels, After, Running
<1>2. TypeOK /\ ClosersWait /\ [Next]_vars => TypeOK' /\ ClosersWait'
  BY TypeStep, ClosersStep
<1>3. QED
  BY <1>1, <1>2, PTL DEF Spec

(* The variables keep their types, for any scans and paths.                *)
THEOREM DiscoveryTypeCorrect == Spec => []TypeOK
BY DiscoveryInvariance, PTL

(* Claims, ready records and what services were told agree while discovery *)
(* runs, however many scans overlap.                                       *)
THEOREM ClaimsAnnounced == Spec => []ClaimsAreAnnounced
<1>1. Init => ClaimsAreAnnounced
  BY DEF Init, ClaimsAreAnnounced
<1>2. QED
  BY <1>1, DiscoveryTypeCorrect, AnnouncedStep, PTL DEF Spec

(* A claimed path has no record of a probe under way.                      *)
THEOREM IdentifiedPathsNotProbed == Spec => []IdentifiedOnce
<1>1. Init => IdentifiedOnce
  BY DEF Init, IdentifiedOnce
<1>2. QED
  BY <1>1, DiscoveryTypeCorrect, IdentifiedStep, PTL DEF Spec

(* Between scans discovery has no port open.                               *)
THEOREM QuietReleasesPorts == Spec => []QuietHoldsNothing
<1>1. Init => HandlesAreHeld
  BY DiscoveryAssumption DEF DiscoveryAssumption, Init, HandlesAreHeld
<1>2. TypeOK /\ ClosersWait /\ HandlesAreHeld => QuietHoldsNothing
  <2> SUFFICES ASSUME TypeOK, ClosersWait, HandlesAreHeld,
                      phase = "started", \A s \in Scans : pc[s] = "idle"
               PROVE  tracked = {} /\ \A p \in Paths : lock[p] \notin Scans
    BY DEF QuietHoldsNothing
  <2>1. \A p \in Paths : closer[p] = None
    BY DEF TypeOK, ClosersWait, Running, After
  <2>2. \A p \in Paths : p \notin tracked
    BY <2>1 DEF HandlesAreHeld, Running, Holding
  <2>3. QED
    BY <2>1, <2>2 DEF HandlesAreHeld, Running, TypeOK
<1>3. QED
  BY <1>1, <1>2, DiscoveryInvariance, HandlesStep, PTL DEF Spec
=============================================================================
