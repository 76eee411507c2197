------------------------------ MODULE MCDevices -----------------------------
(***************************************************************************)
(* Model checking the serial power meter, the serial printer and the       *)
(* Atlona controller, services that share nothing but the way the serial   *)
(* plugin hands them their device.  A behaviour is one of one service,     *)
(* named by part; the other two rest in an initial state.                  *)
(***************************************************************************)
EXTENDS PowerMeter

CONSTANTS PrinterPorts, MaxQueued, MaxJobs, MaxPrinterFaults,
          AtlonaPorts, Switches, MaxWrites, MaxAtlonaFaults

ASSUME DevicesAssumption ==
  /\ {MaxQueued, MaxJobs, MaxPrinterFaults, MaxAtlonaFaults} \subseteq Nat
  /\ None \notin AtlonaPorts

VARIABLES
  part,
  pPlugged, pAnnounced, pReconnect, pHandle, pPort, pState, pKnown, buffer, stale,
  job, nextJob, idleTimer, pTimer, queue, history, pView, pStopped, pFaults,
  aPlugged, aAnnounced, aHandle, aPort, aKnown, identified, asking, writes,
  switchState, aTimer, firmware, aView, reopened, aFaults

Printer == INSTANCE SerialPrinter WITH
  Ports <- PrinterPorts, MaxFaults <- MaxPrinterFaults,
  plugged <- pPlugged, announced <- pAnnounced, reconnect <- pReconnect,
  handle <- pHandle, port <- pPort, state <- pState, known <- pKnown,
  reconnectTimer <- pTimer, view <- pView, stopped <- pStopped, faults <- pFaults

Atlona == INSTANCE AtlonaController WITH
  Ports <- AtlonaPorts, MaxFaults <- MaxAtlonaFaults,
  plugged <- aPlugged, announced <- aAnnounced, handle <- aHandle, port <- aPort,
  known <- aKnown, reconnectTimer <- aTimer, view <- aView, faults <- aFaults

printerVars ==
  <<pPlugged, pAnnounced, pReconnect, pHandle, pPort, pState, pKnown, buffer, stale,
    job, nextJob, idleTimer, pTimer, queue, history, pView, pStopped, pFaults>>
atlonaVars ==
  <<aPlugged, aAnnounced, aHandle, aPort, aKnown, identified, asking, writes,
    switchState, aTimer, firmware, aView, reopened, aFaults>>

Parts == {"meter", "printer", "atlona"}

(* What rests rests in one state, so that it adds none to the others.      *)
MCInit ==
  /\ part \in Parts
  /\ Init /\ Printer!Init /\ Atlona!Init
  /\ part # "meter" => plugged /\ reconnect /\ soft
  /\ part # "printer" => pPlugged /\ pReconnect
  /\ part # "atlona" => aPlugged

MCNext ==
  \/ part = "meter" /\ Next /\ UNCHANGED <<part, printerVars, atlonaVars>>
  \/ part = "printer" /\ Printer!Next /\ UNCHANGED <<part, vars, atlonaVars>>
  \/ part = "atlona" /\ Atlona!Next /\ UNCHANGED <<part, vars, printerVars>>

MCSpec == MCInit /\ [][MCNext]_<<part, vars, printerVars, atlonaVars>>

-----------------------------------------------------------------------------
(* No timer is forgotten or left over: a meter never has a reconnect       *)
(* pending beside a process that runs, which it would kill; a print job    *)
(* that is being received always has the silence timer that ends it.       *)
TimersAccounted ==
  /\ TypeOK /\ Printer!TypeOK /\ Atlona!TypeOK
  /\ NoStrayTimer /\ Printer!ReceivingWillEnd

(* What the operator is told is so: no stream of samples is shown that no  *)
(* process feeds, a recording with a silence in it is judged poor, and the *)
(* switches shown as held are those the controller's service believes      *)
(* held, through errors, losses and reconnects.                            *)
OperatorIsToldTrue ==
  MeterNeverOverclaims /\ GapsAreJudged /\ Atlona!SwitchesShown

(* A device that stays plugged in is in use again, however it was lost:    *)
(* the meter streams or has spent its attempts, the printer and the        *)
(* controller are held open, each under the fairness of its service.       *)
DevicesReturn ==
  /\ part = "meter" => (Fairness => MeterSettles)
  /\ part = "printer" => (Printer!Fairness => Printer!PrinterReturns)
  /\ part = "atlona" => (Atlona!Fairness => Atlona!ControllerReturns)
=============================================================================
