--------------------------- MODULE OperationQueue ---------------------------
(***************************************************************************)
(* What a device service promises of its operations: they wait in line in  *)
(* the order of their arrival; one at a time is in execution, taken from   *)
(* the front of the line; one that has begun ends before another begins.   *)
(* Waiting operations may be cancelled, any of them at any time, and a     *)
(* call that cancels some may add one, and begin the first, in one step.   *)
(***************************************************************************)
CONSTANT Ops

VARIABLES line,      \* the waiting operations, each with those ahead of it
          running    \* the operation in execution, if there is one

EmptyLine == [o \in {} |-> {}]

(* The line without some operations, and with one more at its end          *)
Leaving(l, gone) == [o \in DOMAIN l \ gone |-> l[o] \ gone]
Joined(l, new) == [o \in DOMAIN l \cup new |-> IF o \in new THEN DOMAIN l ELSE l[o]]
First(l) == {o \in DOMAIN l : l[o] = {}}

Init == line = EmptyLine /\ running = {}

(* l is the line as a call leaves it; it may also begin the first of it.   *)
Rearranges(l) == line' = l /\ running' = running

Begins(l) ==
  /\ running = {}
  /\ \E o \in First(l) : running' = {o} /\ line' = Leaving(l, {o})

(* Some leave, and one that is not in use may join.                        *)
Turn ==
  \E gone \in SUBSET DOMAIN line, new \in {{}} \cup {{o} : o \in Ops \ running} :
    /\ new \cap (DOMAIN line \ gone) = {}
    /\ LET l == Joined(Leaving(line, gone), new) IN Rearranges(l) \/ Begins(l)

Ends == running # {} /\ running' = {} /\ line' = line

Next == Turn \/ Ends

Spec == Init /\ [][Next]_<<line, running>>
=============================================================================
