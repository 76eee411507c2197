------------------------------- MODULE MCServer ------------------------------
(***************************************************************************)
(* Model checking what the server keeps for its browsers: the application  *)
(* state it streams to their mirrors, in memory, and their layout profiles *)
(* on disk.  The two share nothing, so a behaviour is one of the part      *)
(* named by part and the other rests.                                      *)
(***************************************************************************)
EXTENDS StateStream

CONSTANTS Requests, Ids, Names, None, MaxCrashes

ASSUME ProfilesAssumption == None \notin Ids \cup Names /\ MaxCrashes \in Nat

VARIABLES part, file, tmp, req, used, acked, overlapped, crashes

Profiles == INSTANCE Layouts

profileVars == <<file, tmp, req, used, acked, overlapped, crashes>>

MCInit == part \in {"stream", "profiles"} /\ Init /\ Profiles!Init

MCNext ==
  \/ part = "stream" /\ Next /\ UNCHANGED <<part, profileVars>>
  \/ part = "profiles" /\ Profiles!Next /\ UNCHANGED <<part, vars>>

MCSpec == MCInit /\ [][MCNext]_<<part, vars, profileVars>>

-----------------------------------------------------------------------------
(* The file of layout profiles is never left without a sound store on the  *)
(* way to it: the default is a profile there is, however requests          *)
(* interleave and whenever the server crashes, and a profile whose         *)
(* creation was answered stays, unless two changes overlap                 *)
(* (routes/layouts.ts).                                                    *)
LayoutsSound ==
  Profiles!TypeOK /\ Profiles!DefaultExists /\ Profiles!AcknowledgedKept

(* The mirror of a browser that stays connected becomes equal to the state *)
(* once that stops changing, although no client asks for the patches it    *)
(* missed: under the fairness of the stream (StateStream!Fairness).        *)
MirrorCatchesUp == Fairness => MirrorConverges
=============================================================================
