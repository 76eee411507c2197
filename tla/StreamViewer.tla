----------------------------- MODULE StreamViewer -----------------------------
(***************************************************************************)
(* The viewer of the stream pane (apps/web, components/panes/Stream.vue):  *)
(* the sidecar's health, fetched every second while the pane shows the     *)
(* stream or its controls, and the cap on frames a second that follows it. *)
(* Health reaches the pane through the orchestrator (streamProxy.ts).      *)
(***************************************************************************)
EXTENDS Naturals, FiniteSetsExt

Levels == {2, 4, 8, 15, 20, 30, 60}
Modes == {"auto", "fixed"}  \* fixed: to one of the levels
StableTicks == 5

VARIABLES
  enabled, showControls,
  fpsMode, autoMaxFps, stableImproveTicks,
  load,          \* the cap the sidecar's figures suggest (suggestFpsFromDiag)
  high,          \* its backlog or its buffers call for a resync
  polling,       \* healthPollTimer
  inFlight,      \* healthInFlight
  recent,        \* lastResyncTs is less than 1.5 seconds ago
  reloadKey      \* modulo 2: an image that is loaded anew

controls == <<enabled, showControls>>
sidecar == <<load, high>>
fetch == <<polling, inFlight>>
vars == <<controls, fpsMode, autoMaxFps, stableImproveTicks, sidecar, fetch, recent,
          reloadKey>>

(* Figures that call for a resync suggest 20 frames at most.               *)
Figures(l, h) == l \in Levels /\ h \in BOOLEAN /\ (h => l <= 20)

Init ==
  /\ enabled = TRUE /\ showControls = FALSE
  /\ fpsMode = "auto" /\ autoMaxFps = 30 /\ stableImproveTicks = 0
  /\ load \in Levels /\ high \in BOOLEAN /\ Figures(load, high)
  /\ polling = TRUE /\ inFlight = TRUE
  /\ recent = FALSE /\ reloadKey = 0

-----------------------------------------------------------------------------
(* requestStreamResync, when asked: at most once in 1.5 seconds            *)
Resync(asked) ==
  IF asked /\ enabled /\ ~recent THEN recent' = TRUE /\ reloadKey' = 1 - reloadKey
  ELSE UNCHANGED <<recent, reloadKey>>

(* nextHigherFps: the first level that is not below                        *)
NextHigher(current) == Min({l \in Levels : current <= l} \cup {60})

(* Mutant: a lower cap waits for stable ticks too.                         *)
MaybeAutoAdjustLate ==
  LET ticks == stableImproveTicks + 1
  IN  IF load > autoMaxFps
      THEN /\ stableImproveTicks' = ticks % StableTicks
           /\ autoMaxFps' = IF ticks = StableTicks THEN NextHigher(autoMaxFps) ELSE autoMaxFps
           /\ Resync(high \/ ticks = StableTicks)
      ELSE /\ stableImproveTicks' = 0
           /\ UNCHANGED autoMaxFps
           /\ Resync(high)

(* maybeAutoAdjust: down at once, up after five better ticks in a row      *)
MaybeAutoAdjust ==
  LET ticks == stableImproveTicks + 1
      up == load > autoMaxFps /\ ticks = StableTicks
  IN  /\ stableImproveTicks' = IF load > autoMaxFps /\ ~up THEN ticks ELSE 0
      /\ autoMaxFps' = IF load < autoMaxFps THEN load
                       ELSE IF up THEN NextHigher(autoMaxFps) ELSE autoMaxFps
      /\ Resync(high \/ load < autoMaxFps \/ up)

-----------------------------------------------------------------------------
(* loadHealth of a tick: not while a fetch is out                          *)
Poll ==
  /\ polling /\ ~inFlight
  /\ inFlight' = TRUE
  /\ UNCHANGED <<controls, fpsMode, autoMaxFps, stableImproveTicks, sidecar, polling, recent,
                 reloadKey>>

(* Figures come with the answer, and the watcher of health adjusts.        *)
Answered ==
  /\ inFlight /\ inFlight' = FALSE
  /\ IF enabled /\ fpsMode = "auto" THEN MaybeAutoAdjust
     ELSE UNCHANGED <<autoMaxFps, stableImproveTicks, recent, reloadKey>>
  /\ UNCHANGED <<controls, fpsMode, sidecar, polling>>

(* The fetch fails, or brings health without figures of the stream.        *)
AnsweredWithout ==
  /\ inFlight /\ inFlight' = FALSE
  /\ UNCHANGED <<controls, fpsMode, autoMaxFps, stableImproveTicks, sidecar, polling, recent,
                 reloadKey>>

(* setHealthPollingActive; a poll that starts fetches at once, and so do   *)
(* controls that open.                                                     *)
Polls(active, opened) ==
  /\ polling' = active
  /\ inFlight' = (inFlight \/ (active /\ ~polling) \/ opened)

(* onEnabledChange: the image of a pane that shows again is loaded anew.   *)
SetEnabled(on) ==
  /\ on # enabled /\ enabled' = on
  /\ reloadKey' = IF on THEN 1 - reloadKey ELSE reloadKey
  /\ Polls(on \/ showControls, FALSE)
  /\ UNCHANGED <<showControls, fpsMode, autoMaxFps, stableImproveTicks, sidecar, recent>>

ToggleControls ==
  /\ showControls' = ~showControls
  /\ Polls(enabled \/ showControls', showControls')
  /\ UNCHANGED <<enabled, fpsMode, autoMaxFps, stableImproveTicks, sidecar, recent,
                 reloadKey>>

(* The watchers of fpsMode and effectiveMaxFps: one resync in all          *)
SetMode(mode) ==
  /\ fpsMode = "auto" => mode = "fixed"
  /\ fpsMode' = mode
  /\ Resync(TRUE)
  /\ UNCHANGED <<controls, autoMaxFps, stableImproveTicks, sidecar, fetch>>

Elapses ==
  /\ recent /\ recent' = FALSE
  /\ UNCHANGED <<controls, fpsMode, autoMaxFps, stableImproveTicks, sidecar, fetch, reloadKey>>

(* The network and the viewers of the sidecar change its figures.          *)
LoadChanges(l, h) ==
  /\ Figures(l, h)
  /\ load' = l /\ high' = h
  /\ UNCHANGED <<controls, fpsMode, autoMaxFps, stableImproveTicks, fetch, recent, reloadKey>>

Next ==
  \/ Poll \/ Answered \/ AnsweredWithout
  \/ \E on \in BOOLEAN : SetEnabled(on)
  \/ ToggleControls
  \/ \E mode \in Modes : SetMode(mode)
  \/ Elapses
  \/ \E l \in Levels, h \in BOOLEAN : LoadChanges(l, h)

(* An answer comes, and figures are in infinitely many.                    *)
Fairness == WF_vars(Poll) /\ SF_vars(Answered) /\ WF_vars(Elapses)

Spec == Init /\ [][Next]_vars /\ Fairness

-----------------------------------------------------------------------------
(* Types of the variables of Stream.vue's script; the poll runs exactly    *)
(* while the stream or its controls show.                                  *)
TypeOK ==
  /\ {enabled, showControls, polling, inFlight, recent, high} \subseteq BOOLEAN
  /\ fpsMode \in Modes /\ autoMaxFps \in Levels /\ load \in Levels
  /\ stableImproveTicks \in 0..(StableTicks - 1)
  /\ reloadKey \in {0, 1}
  /\ polling = (enabled \/ showControls)

Steady(l) == load = l /\ enabled /\ fpsMode = "auto"

(* A stream that stays overloaded is capped to what the sidecar's figures  *)
(* suggest, whatever was answered, refused or switched before.             *)
OverloadIsCapped == \A l \in Levels : <>[]Steady(l) => <>[](autoMaxFps <= l)

(* The automatic cap uses the health figures to keep the stream live (the  *)
(* comments at the FPS menu and at autoMaxFps): it rises with a load that  *)
(* allows more.  It fails: nextHigherFps returns the level it is given.    *)
CapRises == \A l \in Levels : <>[]Steady(l) => <>(autoMaxFps >= l)
=============================================================================
