------------------------------- MODULE CfFiles -------------------------------
(***************************************************************************)
(* The image library of CfImagerService: the files under CF_IMAGER_ROOT,   *)
(* the commands of plugins/ws.ts that list, search, rename, move and       *)
(* delete them, and the watchdog that polls the current directory          *)
(* (devices/cf-imager/CfImagerService.ts, utils.ts).                       *)
(*                                                                         *)
(* An image is two files: <name>.img and, beside it, <name>.part with its  *)
(* partition table, which the write script applies.  The browser shows and *)
(* sends names without extensions.  A file's content is the image it was   *)
(* made from.  Folders are one level deep.                                 *)
(*                                                                         *)
(* A command runs from await to await; commands of several clients, and a  *)
(* poll, interleave there.                                                 *)
(***************************************************************************)
EXTENDS Naturals, FiniteSets, Sequences

CONSTANTS Clients,      \* commands that can be in flight together
          Names,        \* what an image or a folder can be called
          Images,       \* contents
          Nothing,      \* no such file, no command, no listing
          Root,         \* the root directory
          MaxCommands,  \* bound: commands
          MaxFaults     \* bound: file system calls that fail

ASSUME FilesAssumption ==
  /\ Root \notin Names /\ Nothing \notin Images
  /\ MaxCommands \in Nat /\ MaxFaults \in Nat

Dirs == {Root} \cup Names
Slots == Dirs \X Names
Files == [Slots -> Images \cup {Nothing}]

(* A listing: of which directory, the images and the folders it shows.     *)
Listings == [cwd : Dirs, images : SUBSET Slots, folders : SUBSET Names]
Blank == [cwd |-> Root, images |-> {}, folders |-> {}]

Ops == {"list", "search", "create", "rename", "move", "delete"}
Stages == {"begin", "part", "toImg", "toPart", "img", "table", "other", "emit"}

(* A command in flight: what it has found of its files, what it will say.  *)
Commands == [op : Ops, from : Slots, to : Slots, stage : Stages,
             img : BOOLEAN, part : BOOLEAN, out : Listings]
ASSUME CommandsAssumption == Nothing \notin Commands

VARIABLES
  img, part,   \* the .img and the .part files
  folders,     \* the folders in the root
  cwd,         \* cwdAbs
  fs,          \* this.state.fs
  view,        \* fs in the cfImager slice
  cmd,         \* per client: the command's operation, files and stage
  poll,        \* pollFsOnce: its stage, and the listing it will publish
  polling,     \* the watchdog is configured and not paused
  issued, faults

disk == <<img, part, folders>>
vars == <<disk, cwd, fs, view, cmd, poll, polling, issued, faults>>

DirExists(d) == d = Root \/ d \in folders

(* listDirectoryState: a directory that cannot be read shows nothing.      *)
Listing(d) ==
  [cwd |-> d,
   images |-> {s \in Slots : s[1] = d /\ DirExists(d) /\ img[s] # Nothing},
   folders |-> IF d = Root THEN folders ELSE {}]

(* search(): what lies under a directory and matches a name.               *)
Found(d, n) ==
  [cwd |-> d,
   images |-> {s \in Slots : s[2] = n /\ img[s] # Nothing
                             /\ (s[1] = d \/ (d = Root /\ s[1] \in folders))},
   folders |-> IF d = Root THEN folders \cap {n} ELSE {}]

NoPoll == [stage |-> "idle", out |-> Blank]

Init ==
  /\ img \in [Slots -> Images \cup {Nothing}]
  /\ \A s, t \in Slots : img[s] = img[t] /\ img[s] # Nothing => s = t
  /\ \A s \in Slots : img[s] # Nothing => s[1] = Root
  /\ part \in {[s \in Slots |-> IF s \in with THEN img[s] ELSE Nothing] :
                 with \in SUBSET {s \in Slots : img[s] # Nothing}}
  /\ folders \in SUBSET Names
  /\ cwd = Root
  /\ fs = Listing(Root) /\ view = fs
  /\ cmd = [c \in Clients |-> Nothing]
  /\ poll = NoPoll /\ polling \in BOOLEAN
  /\ issued = 0 /\ faults = 0

Idle(c) == cmd[c] = Nothing
At(c, stage) == ~Idle(c) /\ cmd[c].stage = stage
Goto(c, stage) == cmd' = [cmd EXCEPT ![c].stage = stage]
Finish(c) == cmd' = [cmd EXCEPT ![c] = Nothing]
Fault == faults < MaxFaults /\ faults' = faults + 1

(* Mutant: what is published is the listing before.                        *)
EmitBefore(c, listing) ==
  /\ fs' = listing
  /\ cmd' = [cmd EXCEPT ![c].stage = "emit", ![c].out = fs]

(* emitFsUpdated up to its await: the listing is taken now and published   *)
(* when df has answered.                                                   *)
Emit(c, listing) ==
  /\ fs' = listing
  /\ cmd' = [cmd EXCEPT ![c].stage = "emit", ![c].out = listing]

Published(c) ==
  /\ At(c, "emit")
  /\ view' = cmd[c].out
  /\ Finish(c)
  /\ UNCHANGED <<disk, cwd, fs, poll, polling, issued, faults>>

-----------------------------------------------------------------------------
(* A command arrives: names are resolved against the directory the service *)
(* is in, whatever the client is looking at.                               *)
Command(c) ==
  /\ Idle(c) /\ issued < MaxCommands
  /\ issued' = issued + 1
  /\ \E op \in Ops, n, m \in Names, d \in Dirs :
       /\ op = "rename" => d = fs.cwd
       /\ op \in {"list", "search", "create", "delete"} => m = n
       /\ op \in {"create", "delete"} => d = Root
       /\ op = "move" => m = n
       /\ cmd' = [cmd EXCEPT ![c] = [op |-> op, from |-> <<fs.cwd, n>>, to |-> <<d, m>>,
                                     stage |-> "begin", img |-> FALSE,
                                     part |-> FALSE, out |-> Blank]]
  /\ UNCHANGED <<disk, cwd, fs, view, poll, polling, faults>>

Where(c) == cmd[c].to[1]

(* changeDirectory, changeDirUp, and search with an empty query.           *)
List(c) ==
  /\ At(c, "begin") /\ cmd[c].op = "list"
  /\ cwd' = Where(c)
  /\ Emit(c, Listing(Where(c)))
  /\ UNCHANGED <<disk, view, poll, polling, issued, faults>>

(* search() sets the current directory first and its results when it has   *)
(* walked the tree.                                                        *)
SearchBegin(c) ==
  /\ At(c, "begin") /\ cmd[c].op = "search"
  /\ cwd' = Where(c)
  /\ Goto(c, "other")
  /\ UNCHANGED <<disk, fs, view, poll, polling, issued, faults>>

SearchDone(c) ==
  /\ At(c, "other") /\ cmd[c].op = "search"
  /\ Emit(c, Found(Where(c), cmd[c].to[2]))
  /\ UNCHANGED <<disk, cwd, view, poll, polling, issued, faults>>

(* createFolder; one that exists is dropped in silence.                    *)
CreateFolder(c) ==
  /\ At(c, "begin") /\ cmd[c].op = "create" /\ cwd = Root
  /\ UNCHANGED <<img, cwd>>
  /\ IF cmd[c].to[2] \in folders
     THEN Finish(c) /\ UNCHANGED <<folders, fs>>
     ELSE folders' = folders \cup {cmd[c].to[2]} /\ Emit(c, Listing(Root)')
  /\ UNCHANGED <<part, view, poll, polling, issued, faults>>

CreateElsewhere(c) ==
  /\ At(c, "begin") /\ cmd[c].op = "create" /\ cwd # Root
  /\ Finish(c)
  /\ UNCHANGED <<disk, cwd, fs, view, poll, polling, issued, faults>>

Renames == {"rename", "move"}

(* renamePath, movePath, deletePath: is there an image of this name?       *)
LookImg(c) ==
  /\ At(c, "begin") /\ cmd[c].op \in Renames \cup {"delete"}
  /\ IF cmd[c].op = "move" /\ ~DirExists(cmd[c].to[1])
     THEN Finish(c)
     ELSE cmd' = [cmd EXCEPT ![c].stage = "part", ![c].img = img[cmd[c].from] # Nothing]
  /\ UNCHANGED <<disk, cwd, fs, view, poll, polling, issued, faults>>

(* And a partition table?  With neither, it is a folder or a plain file.   *)
LookPart(c) ==
  /\ At(c, "part")
  /\ LET has == part[cmd[c].from] # Nothing
     IN  cmd' = [cmd EXCEPT ![c].part = has,
                            ![c].stage = IF cmd[c].img \/ has
                                         THEN IF cmd[c].op = "delete" THEN "img" ELSE "toImg"
                                         ELSE "other"]
  /\ UNCHANGED <<disk, cwd, fs, view, poll, polling, issued, faults>>

(* Mutant: the target is not looked at.                                    *)
TargetTakenNever(c, files) == FALSE

(* A target that exists, and is not the source itself, stops the command.  *)
TargetTaken(c, files) == cmd[c].to # cmd[c].from /\ files[cmd[c].to] # Nothing

CheckToImg(c) ==
  /\ At(c, "toImg")
  /\ IF cmd[c].img /\ TargetTaken(c, img) THEN Finish(c) ELSE Goto(c, "toPart")
  /\ UNCHANGED <<disk, cwd, fs, view, poll, polling, issued, faults>>

CheckToPart(c) ==
  /\ At(c, "toPart")
  /\ IF cmd[c].part /\ TargetTaken(c, part) THEN Finish(c) ELSE Goto(c, "img")
  /\ UNCHANGED <<disk, cwd, fs, view, poll, polling, issued, faults>>

(* rename(2): what was at the target is gone.                              *)
Renamed(files, s, t) == IF s = t THEN files ELSE [files EXCEPT ![t] = files[s], ![s] = Nothing]

RenameImg(c) ==
  /\ At(c, "img") /\ cmd[c].op \in Renames
  /\ IF cmd[c].img /\ img[cmd[c].from] # Nothing /\ DirExists(cmd[c].to[1])
     THEN img' = Renamed(img, cmd[c].from, cmd[c].to)
     ELSE UNCHANGED img
  /\ Goto(c, "table")
  /\ UNCHANGED <<part, folders, cwd, fs, view, poll, polling, issued, faults>>

(* The .img cannot be renamed: the command ends with an error.             *)
RenameImgFails(c) ==
  /\ At(c, "img") /\ cmd[c].op \in Renames /\ cmd[c].img
  /\ Fault
  /\ Finish(c)
  /\ UNCHANGED <<disk, cwd, fs, view, poll, polling, issued>>

RenameTable(c) ==
  /\ At(c, "table") /\ cmd[c].op \in Renames
  /\ part' = IF cmd[c].part /\ part[cmd[c].from] # Nothing /\ DirExists(cmd[c].to[1])
             THEN Renamed(part, cmd[c].from, cmd[c].to) ELSE part
  /\ Emit(c, Listing(cwd))
  /\ UNCHANGED <<img, folders, cwd, view, poll, polling, issued, faults>>

(* The .part cannot be renamed: it is left behind, and nobody is told.     *)
RenameTableFails(c) ==
  /\ At(c, "table") /\ cmd[c].op \in Renames /\ cmd[c].part
  /\ Fault
  /\ Emit(c, Listing(cwd))
  /\ UNCHANGED <<disk, cwd, view, poll, polling, issued>>

(* deletePath of an image; a failure to unlink is ignored.                 *)
DeleteImg(c) ==
  /\ At(c, "img") /\ cmd[c].op = "delete"
  /\ \/ cmd[c].img /\ img' = [img EXCEPT ![cmd[c].from] = Nothing] /\ UNCHANGED faults
     \/ ~cmd[c].img /\ UNCHANGED <<img, faults>>
     \/ cmd[c].img /\ Fault /\ UNCHANGED img
  /\ Goto(c, "table")
  /\ UNCHANGED <<part, folders, cwd, fs, view, poll, polling, issued>>

DeleteTable(c) ==
  /\ At(c, "table") /\ cmd[c].op = "delete"
  /\ \/ cmd[c].part /\ part' = [part EXCEPT ![cmd[c].from] = Nothing] /\ UNCHANGED faults
     \/ ~cmd[c].part /\ UNCHANGED <<part, faults>>
     \/ cmd[c].part /\ Fault /\ UNCHANGED part
  /\ Emit(c, Listing(cwd))
  /\ UNCHANGED <<img, folders, cwd, view, poll, polling, issued>>

(* A folder is renamed, or deleted with all it holds.  (Moving it into     *)
(* another one would make a second level.)                                 *)
RenameFolder(c) ==
  LET from == cmd[c].from[2]
      to   == cmd[c].to[2]
      Moved(files) ==
        [s \in Slots |-> IF s[1] = to THEN files[<<from, s[2]>>]
                         ELSE IF s[1] = from THEN Nothing ELSE files[s]]
  IN  /\ At(c, "other") /\ cmd[c].op = "rename"
      /\ UNCHANGED cwd
      /\ IF cmd[c].from[1] = Root /\ from \in folders /\ to \notin folders
         THEN /\ folders' = (folders \ {from}) \cup {to}
              /\ img' = Moved(img) /\ part' = Moved(part)
              /\ Emit(c, Listing(cwd)')
         ELSE Finish(c) /\ UNCHANGED <<disk, fs>>
      /\ UNCHANGED <<view, poll, polling, issued, faults>>

DeleteFolder(c) ==
  LET gone == cmd[c].from[2]
      Emptied(files) == [s \in Slots |-> IF s[1] = gone THEN Nothing ELSE files[s]]
  IN  /\ At(c, "other") /\ cmd[c].op = "delete"
      /\ UNCHANGED cwd
      /\ IF cmd[c].from[1] = Root
         THEN folders' = folders \ {gone} /\ img' = Emptied(img) /\ part' = Emptied(part)
         ELSE UNCHANGED disk
      /\ Emit(c, Listing(cwd)')
      /\ UNCHANGED <<view, poll, polling, issued, faults>>

MoveNothing(c) ==
  /\ At(c, "other") /\ cmd[c].op = "move"
  /\ Finish(c)
  /\ UNCHANGED <<disk, cwd, fs, view, poll, polling, issued, faults>>

-----------------------------------------------------------------------------
(* The watchdog *)

PollBegin ==
  /\ polling /\ poll = NoPoll
  /\ poll' = [poll EXCEPT !.stage = "stat"]
  /\ UNCHANGED <<disk, cwd, fs, view, cmd, polling, issued, faults>>

(* Mutant: a directory that is gone is looked for again.                   *)
HomeStays == cwd

Home == IF DirExists(cwd) THEN cwd ELSE Root

(* A directory that is gone sends the service back to the root; a listing  *)
(* that equals the last one ends the poll.                                 *)
PollLook ==
  /\ poll.stage = "stat"
  /\ cwd' = Home
  /\ IF DirExists(cwd) /\ Listing(cwd) = fs
     THEN poll' = NoPoll /\ UNCHANGED fs
     ELSE fs' = Listing(cwd') /\ poll' = [stage |-> "publish", out |-> fs']
  /\ UNCHANGED <<disk, view, cmd, polling, issued, faults>>

PollPublish ==
  /\ poll.stage = "publish"
  /\ view' = poll.out /\ poll' = NoPoll
  /\ UNCHANGED <<disk, cwd, fs, cmd, polling, issued, faults>>

-----------------------------------------------------------------------------
Step(c) ==
  \/ Published(c) \/ List(c) \/ SearchBegin(c) \/ SearchDone(c)
  \/ CreateFolder(c) \/ CreateElsewhere(c) \/ LookImg(c) \/ LookPart(c)
  \/ CheckToImg(c) \/ CheckToPart(c) \/ RenameImg(c) \/ RenameImgFails(c)
  \/ RenameTable(c) \/ RenameTableFails(c) \/ DeleteImg(c) \/ DeleteTable(c)
  \/ RenameFolder(c) \/ DeleteFolder(c) \/ MoveNothing(c)

Poll == PollBegin \/ PollLook \/ PollPublish

Next == Poll \/ \E c \in Clients : Command(c) \/ Step(c)

(* Fairness: node answers every file system call and runs its intervals.   *)
Fairness == WF_vars(Poll) /\ \A c \in Clients : WF_vars(Step(c))

Spec == Init /\ [][Next]_vars /\ Fairness

-----------------------------------------------------------------------------
(* Properties *)

(* Every variable keeps to the values the code gives it.                   *)
TypeOK ==
  /\ img \in Files /\ part \in Files /\ folders \subseteq Names
  /\ cwd \in Dirs /\ fs \in Listings /\ view \in Listings
  /\ cmd \in [Clients -> Commands \cup {Nothing}]
  /\ poll \in [stage : {"idle", "stat", "publish"}, out : Listings] /\ polling \in BOOLEAN
  /\ issued \in 0..MaxCommands /\ faults \in 0..MaxFaults

Present(i) == \E s \in Slots : img[s] = i
Deleting == \E c \in Clients : ~Idle(c) /\ cmd[c].op = "delete"

(* As long as no table was left behind, the table beside an image is its   *)
(* own: the write script never partitions a card by another image's table. *)
TablesMatch ==
  faults = 0 =>
    \A s \in Slots : img[s] # Nothing /\ part[s] # Nothing => img[s] = part[s]

(* No rename or move loses an image; only a delete does.                   *)
NothingLost ==
  [][\A i \in Images : Present(i) /\ ~Present(i)' => Deleting]_vars

(* Without the watchdog, a client that waits for its answer is shown what  *)
(* the service has: commands alone never publish out of order.             *)
AnswersInOrder ==
  ~polling /\ (\A c \in Clients : Idle(c)) => view = fs

(* With the watchdog, the service comes back from a directory that has     *)
(* been deleted or renamed.                                                *)
LeavesLostDirectory == polling /\ ~DirExists(cwd) ~> DirExists(cwd)

(* "Emit cf-fs-updated only when the snapshot actually differs from the    *)
(* last known state": when nothing is under way, the last listing the      *)
(* browser was given is the last one the service took.                     *)
ViewSettles ==
  (\A c \in Clients : Idle(c)) /\ poll = NoPoll => view = fs

(* "If the .part rename fails ... worst case, the sidecar is left behind": *)
(* it never comes to lie beside another image.                             *)
StrayTablesAreHarmless ==
  \A s \in Slots : img[s] # Nothing /\ part[s] # Nothing => img[s] = part[s]
=============================================================================
