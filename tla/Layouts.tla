------------------------------- MODULE Layouts -------------------------------
(***************************************************************************)
(* The layout profiles of the browser: routes/layouts.ts keeps them in one *)
(* JSON file, which every request reads whole and every change writes      *)
(* whole, through one temporary file and a rename.                         *)
(*                                                                         *)
(* A request runs from await to await; requests interleave there, and the  *)
(* process can crash there.  A profile is its id and its name.             *)
(***************************************************************************)
EXTENDS Naturals, FiniteSets

CONSTANTS Requests,   \* requests that can be in flight together
          Ids,        \* what uid() returns
          Names,      \* names of profiles
          None,       \* no profile, no default, no request
          MaxCrashes  \* bound: crashes of the orchestrator

Stores == [default : Ids \cup {None}, items : [Ids -> Names \cup {None}]]
EmptyStore == [default |-> None, items |-> [i \in Ids |-> None]]

(* What a file holds: a store, nothing yet, or bytes of two writers.       *)
Unreadable == {"absent", "truncated", "garbled"}
Contents == [store : Stores, text : {"json"}] \cup [store : {EmptyStore}, text : Unreadable]
Json(s) == [store |-> s, text |-> "json"]
Bad(t) == [store |-> EmptyStore, text |-> t]

VARIABLES
  file, tmp,    \* layouts.json and layouts.json.tmp
  req,          \* per request: its change, the store, its stage, its file
  used,         \* ids handed out
  acked,        \* profiles whose creation was answered and deletion not asked
  overlapped,   \* two changes have overlapped
  crashes

vars == <<file, tmp, req, used, acked, overlapped, crashes>>

Init ==
  /\ file = Bad("absent") /\ tmp = Bad("absent")
  /\ req = [r \in Requests |-> None]
  /\ used = {} /\ acked = {} /\ overlapped = FALSE /\ crashes = 0

Idle(r) == req[r] = None
Has(s, i) == s.items[i] # None

(* readJson: whatever cannot be read is an empty store.                    *)
readJson == file.store

-----------------------------------------------------------------------------
(* The changes: each answers with the store it will write and the profiles *)
(* it creates.                                                             *)
Put(s, i, n) == [s EXCEPT !.items[i] = n]

(* POST /api/layouts                                                       *)
Posts(s) ==
  {[store |-> Put(s, i, n), made |-> {i}] : i \in Ids \ used, n \in Names}

(* PUT /api/layouts/default, with an id or a layout                        *)
PutsDefault(s) ==
  {[store |-> [s EXCEPT !.default = i], made |-> {}] : i \in {j \in Ids : Has(s, j)}}
  \cup {[store |-> [Put(s, i, n) EXCEPT !.default = i], made |-> {i}] :
          i \in Ids \ used, n \in Names}

(* PUT /api/layouts/:id                                                    *)
Updates(s) ==
  {[store |-> Put(s, i, n), made |-> {}] : i \in {j \in Ids : Has(s, j)}, n \in Names}

(* Mutant: the default is kept when its profile is deleted.                *)
WithoutProfile(s, i) == [s EXCEPT !.items[i] = None]

(* DELETE /api/layouts/:id                                                 *)
Without(s, i) ==
  [s EXCEPT !.items[i] = None, !.default = IF @ = i THEN None ELSE @]

(* The first profile of a name: what was there stands before what comes.   *)
ByName(s, new, n) ==
  LET old == {i \in Ids \ new : s.items[i] = n}
  IN  IF old # {} THEN old ELSE {i \in new : s.items[i] = n}

(* The profiles of a payload are added under their new ids.                *)
Imported(s, new, name) ==
  [s EXCEPT !.items = [i \in Ids |-> IF i \in new THEN name[i] ELSE s.items[i]]]

(* The default in the payload is looked up by its name; without one, the   *)
(* first profile becomes the default if there is none.                     *)
Defaults(s, t, new) ==
  (UNION {ByName(t, new, n) : n \in Names}) \cup {s.default}
  \cup (IF s.default = None THEN {i \in Ids : Has(t, i)} ELSE {})

(* POST /api/layouts/import                                                *)
Imports(s) ==
  UNION {{[store |-> [Imported(s, new, name) EXCEPT !.default = d], made |-> new] :
            d \in Defaults(s, Imported(s, new, name), new)} :
         new \in {x \in SUBSET (Ids \ used) : Cardinality(x) \in 1..2},
         name \in [Ids -> Names]}

-----------------------------------------------------------------------------
(* A request *)

(* The file has been read: the change is made to what it held.  Mode       *)
(* "replace" of an import reads nothing.                                   *)
Answering(r, change, gone) ==
  /\ req' = [req EXCEPT ![r] = [store |-> change.store, made |-> change.made,
                                stage |-> "open", fd |-> "none"]]
  /\ used' = used \cup change.made
  /\ acked' = acked \ gone
  /\ overlapped' = (overlapped \/ \E q \in Requests : ~Idle(q))
  /\ UNCHANGED <<file, tmp, crashes>>

Change(r) ==
  /\ Idle(r)
  /\ \/ \E c \in Posts(readJson) \cup PutsDefault(readJson) \cup Updates(readJson)
                 \cup Imports(readJson) :
          Answering(r, c, {})
     \/ \E i \in Ids : /\ Has(readJson, i)
                       /\ Answering(r, [store |-> Without(readJson, i), made |-> {}], {i})
     \/ \E c \in Imports(EmptyStore) : Answering(r, c, acked)

(* writeJson: writeFile opens the temporary file, and truncates it.        *)
Open(r) ==
  /\ ~Idle(r) /\ req[r].stage = "open"
  /\ tmp' = Bad("truncated")
  /\ req' = [req EXCEPT ![r].stage = "write", ![r].fd = "tmp"]
  /\ UNCHANGED <<file, used, acked, overlapped, crashes>>

(* The text goes to the file that was opened, whatever its name is now; on *)
(* top of another's text it may leave the end of that.                     *)
Written(old, s) == {Json(s)} \cup (IF old.text = "truncated" THEN {} ELSE {Bad("garbled")})

Write(r) ==
  /\ ~Idle(r) /\ req[r].stage = "write"
  /\ CASE req[r].fd = "tmp" -> tmp' \in Written(tmp, req[r].store) /\ UNCHANGED file
       [] req[r].fd = "file" -> file' \in Written(file, req[r].store) /\ UNCHANGED tmp
       [] OTHER -> UNCHANGED <<file, tmp>>
  /\ req' = [req EXCEPT ![r].stage = "rename"]
  /\ UNCHANGED <<used, acked, overlapped, crashes>>

(* rename and the answer.                                                  *)
Rename(r) ==
  /\ ~Idle(r) /\ req[r].stage = "rename" /\ tmp.text # "absent"
  /\ file' = tmp /\ tmp' = Bad("absent")
  /\ req' = [q \in Requests |->
               IF q = r THEN None
               ELSE IF Idle(q) THEN None
               ELSE [req[q] EXCEPT !.fd = CASE @ = "tmp" -> "file" [] @ = "file" -> "lost"
                                            [] OTHER -> @]]
  /\ acked' = acked \cup req[r].made
  /\ UNCHANGED <<used, overlapped, crashes>>

(* Another request has renamed the temporary file away: 500.               *)
RenameFails(r) ==
  /\ ~Idle(r) /\ req[r].stage = "rename" /\ tmp.text = "absent"
  /\ req' = [req EXCEPT ![r] = None]
  /\ UNCHANGED <<file, tmp, used, acked, overlapped, crashes>>

(* The orchestrator crashes and is started again; the files stay.          *)
Crash ==
  /\ crashes < MaxCrashes
  /\ crashes' = crashes + 1
  /\ req' = [r \in Requests |-> None]
  /\ UNCHANGED <<file, tmp, used, acked, overlapped>>

Next ==
  \/ Crash
  \/ \E r \in Requests : Change(r) \/ Open(r) \/ Write(r) \/ Rename(r) \/ RenameFails(r)

Spec == Init /\ [][Next]_vars

-----------------------------------------------------------------------------
(* Properties *)

(* Every variable keeps to the values the code gives it.                   *)
TypeOK ==
  /\ file \in Contents /\ tmp \in Contents
  /\ \A r \in Requests :
       \/ Idle(r)
       \/ req[r] \in [store : Stores, made : SUBSET Ids, stage : {"open", "write", "rename"},
                      fd : {"none", "tmp", "file", "lost"}]
  /\ used \subseteq Ids /\ acked \subseteq Ids
  /\ overlapped \in BOOLEAN /\ crashes \in 0..MaxCrashes

Sound(s) == s.default # None => Has(s, s.default)

(* The default layout is a profile there is, in the file and in every      *)
(* store on its way there, however requests interleave, with or without    *)
(* crashes: GET /api/layouts/default never points at nothing.              *)
DefaultExists ==
  /\ Sound(file.store) /\ Sound(tmp.store)
  /\ \A r \in Requests : ~Idle(r) => Sound(req[r].store)

(* As long as no two changes overlapped, a profile whose creation was      *)
(* answered is in the file until its deletion is asked for, whenever the   *)
(* process crashes: the rename is what makes a change.                     *)
AcknowledgedKept == ~overlapped => \A i \in acked : Has(file.store, i)

(* The same of overlapping changes.                                        *)
OverlappingKept == \A i \in acked : Has(file.store, i)
=============================================================================
