------------------------------- MODULE GpoLife -------------------------------
(***************************************************************************)
(* The life of a policy (src/backend/samadcon/gpo/container.py,            *)
(* transfer.py, sysvol.py, api/v1/gpos.py): creation with its rollback,    *)
(* copy, backup, restore, status and deletion.                             *)
(*                                                                         *)
(* A policy is an object in the directory and a folder on SYSVOL, and      *)
(* nothing but the order of the calls keeps the two together.  An          *)
(* operation is a plan of calls to the domain controller, one step each;   *)
(* between two steps other sessions' calls arrive.  A call may fail, or    *)
(* be carried out and reported as failed: its answer is lost, or the       *)
(* connection was dropped and the SMB client repeated it on a new one.     *)
(***************************************************************************)
EXTENDS FiniteSets, Sequences, SequencesExt, Naturals

CONSTANTS
  LAdmin,      \* sessions
  Guid,      \* identifiers, the ones of new policies included
  LName,       \* display names
  Gpos,    \* the policies at the start: identifier -> object
  Folders,     \* their folders: identifier -> path -> entry
  Archives,    \* backups at hand at the start
  LAsked,      \* the requests sessions may make
  Faults,      \* subset of {"call", "answer"}: how a call may fail
  MaxFaults,   \* bound: how many do
  Meddling,    \* whether a policy still in the making may be deleted or edited
  MaxLevels,   \* MAX_DEPTH: how deep a folder is copied
  MaxFiles,    \* how many files a backup may hold: MAX_BACKUP_BYTES
  MaxLifeOps   \* bound: operations begun

Half == {"machine", "user"}
Ini == <<"GPT.INI">>
Top == <<>>
Folder(h) == IF h = "machine" THEN <<"Machine">> ELSE <<"User">>

(* off: the halves disabled in flags; exts: the halves with extensions     *)
(* registered.  A version stands for both halves' counters.                *)
Gpc == [name : LName, version : Nat, off : SUBSET Half, exts : SUBSET Half]
(* What is at a path.  GPT.INI's data is its version.  An entry made in a   *)
(* folder inherits that folder's permissions: the share's, or the ones     *)
(* derived from the policy's object.                                       *)
SysvolEntry == [directory : BOOLEAN, data : Nat, acl : {"share", "derived"}]
(* manifest: whether the backup says what the policy was; safe: the paths  *)
(* that stay in the policy's folder.                                       *)
IsArchive(b) ==
  /\ DOMAIN b = {"files", "exts", "manifest", "object", "unsafe"}
  /\ b.exts \in SUBSET Half /\ b.manifest \in BOOLEAN /\ b.object \in Gpc

LRequest ==
  [do : {"create", "copy", "backup", "restore", "delete", "status", "edit"},
   policy : Guid, name : LName \cup {"of the backup"}, off : SUBSET Half, on : SUBSET Half]

ASSUME LifeConstants ==
  /\ LAsked \subseteq LRequest /\ DOMAIN Gpos \subseteq Guid
  /\ \A b \in Archives : IsArchive(b)
  /\ Faults \subseteq {"call", "answer"} /\ MaxFaults \in Nat /\ Meddling \in BOOLEAN
  /\ MaxLevels \in Nat \ {0} /\ MaxFiles \in Nat /\ MaxLifeOps \in Nat

(* At the start every folder has its object and the permissions derived    *)
(* from it.  A file's folder is the policy's own or one of its parents,    *)
(* which any path of names is.  "none" is no identifier.                   *)
Parents(path) == {SubSeq(path, 1, n) : n \in 1..(Len(path) - 1)}
IsPath(path) == Front(path) = Top \/ Front(path) \in Parents(path)
ASSUME LifeStart ==
  /\ "none" \notin Guid
  /\ DOMAIN Folders \subseteq DOMAIN Gpos
  /\ \A id \in DOMAIN Folders :
       /\ Top \in DOMAIN Folders[id]
       /\ \A p \in DOMAIN Folders[id] :
            IsPath(p) /\ Folders[id][p] \in SysvolEntry /\ Folders[id][p].acl = "derived"
  /\ \A b \in Archives : \A p \in DOMAIN b.files : IsPath(p)

VARIABLES
  gpcs,      \* the directory's policies: identifier -> object
  sysvol,    \* the share's policy folders: identifier -> path -> entry
  backups,   \* archives taken or at hand
  doing,     \* per session, its operation
  used,      \* identifiers given out
  faults,    \* calls that failed, against the bound
  lifeOps    \* operations begun, against the bound

lifeVars == <<gpcs, sysvol, backups, doing, used, faults, lifeOps>>
LIdle(why) == [do |-> "none", todo |-> <<>>, result |-> why]

LifeInit ==
  /\ gpcs = Gpos /\ sysvol = Folders /\ backups = Archives
  /\ doing = [a \in LAdmin |-> LIdle("ok")]
  /\ used = DOMAIN Gpos /\ faults = 0 /\ lifeOps = 0

Underway(a) == doing[a].todo # <<>>
Drop(f, x) == [y \in DOMAIN f \ {x} |-> f[y]]
Put(f, x, e) == [y \in DOMAIN f \cup {x} |-> IF y = x THEN e ELSE f[y]]
\* f, and g where f has nothing.
FilledUp(f, g) == [y \in DOMAIN f \cup DOMAIN g |-> IF y \in DOMAIN f THEN f[y] ELSE g[y]]
Files(folder) == {p \in DOMAIN folder : ~folder[p].directory}
FolderOf(id) == IF id \in DOMAIN sysvol THEN sysvol[id] ELSE <<>>
NameTaken(name) == \E id \in DOMAIN gpcs : gpcs[id].name = name

(***************************************************************************)
(* Plans                                                                   *)
(***************************************************************************)
CreateStampedLast == <<"names", "object", "children", "folder", "machine", "user", "ini", "stamp", "made">>

\* The permissions come before the content, which inherits them.
Create == <<"names", "object", "children", "folder", "stamp", "machine", "user", "ini", "made">>
LifePlan(do) ==
  CASE do = "create"  -> Create
    [] do = "copy"    -> <<"source">> \o Create \o <<"list", "files", "attributes", "version", "shown">>
    [] do = "restore" -> <<"backup">> \o Create \o <<"files", "attributes", "version", "shown">>
    [] do = "backup"  -> <<"source", "list", "files", "pack">>
    [] do = "delete"  -> <<"source", "tree", "gone">>
    [] do = "status"  -> <<"source", "flags">>
    [] do = "edit"    -> <<"source", "parents", "save", "bump", "restamp">>

Makes(a) == doing[a].do \in {"create", "copy", "restore"}
InTheMaking(id) == \E a \in LAdmin : Makes(a) /\ doing[a].id = id
NoArchive == [files |-> <<>>, exts |-> {}, manifest |-> FALSE, object |-> [name |-> "none"], unsafe |-> {}]

LBegin(a) ==
  /\ ~Underway(a) /\ lifeOps < MaxLifeOps
  /\ \E r \in LAsked :
       /\ r.do \in {"delete", "status", "edit"} => r.policy \in used /\ (Meddling \/ ~InTheMaking(r.policy))
       /\ doing' = [doing EXCEPT ![a] =
            [do |-> r.do, todo |-> LifePlan(r.do), result |-> "none", source |-> r.policy,
             id |-> IF r.do \in {"create", "copy", "restore"} THEN "none" ELSE r.policy, name |-> r.name, off |-> r.off, on |-> r.on,
             undo |-> "none", folder |-> FALSE, left |-> {}, of |-> [name |-> "none"],
             archive |-> NoArchive, why |-> "none", faulty |-> FALSE,
             nth |-> lifeOps + 1, alone |-> \A b \in LAdmin \ {a} : ~Underway(b)]]
  /\ lifeOps' = lifeOps + 1
  /\ UNCHANGED <<gpcs, sysvol, backups, used, faults>>

AtCall(a, step) == Underway(a) /\ Head(doing[a].todo) = step
Next1(op) == IF Len(op.todo) > 1 THEN [op EXCEPT !.todo = Tail(@)]
             ELSE IF op.why = "none" THEN LIdle("ok") ELSE LIdle(op.why)

FailedKeeps(op, why) ==
  CASE op.undo = "create" ->
         [op EXCEPT !.undo = "rollback", !.why = why,
                    !.todo = (IF op.folder THEN <<"untree">> ELSE <<>>) \o <<"unobject">>]
    [] op.undo = "rollback" -> Next1(op)
    [] OTHER -> LIdle(IF op.why = "none" THEN why ELSE op.why)

FailedObjectOnly(op, why) ==
  CASE op.undo = "create"   -> [op EXCEPT !.undo = "rollback", !.why = why, !.todo = <<"unobject">>]
    [] op.undo = "rollback" -> Next1(op)
    [] op.undo = "delete"   -> [op EXCEPT !.undo = "none", !.why = why, !.todo = <<"mine", "tree", "gone">>]
    [] OTHER                -> LIdle(IF op.why = "none" THEN why ELSE op.why)

(* A creation that fails takes back what it made, whatever that meets; a   *)
(* copy or a restore that fails later deletes its policy as an             *)
(* administrator would, and stops where that fails.                        *)
Failed(op, why) ==
  CASE op.undo = "create" ->
         [op EXCEPT !.undo = "rollback", !.why = why,
                    !.todo = (IF op.folder THEN <<"untree">> ELSE <<>>) \o <<"unobject">>]
    [] op.undo = "rollback" -> Next1(op)
    [] op.undo = "delete" ->
         [op EXCEPT !.undo = "none", !.why = why, !.todo = <<"mine", "tree", "gone">>]
    [] OTHER -> LIdle(IF op.why = "none" THEN why ELSE op.why)

Continues(a, op) == doing' = [doing EXCEPT ![a] = op]
LifeRefuses(a, why) == Continues(a, Failed(doing[a], why)) /\ UNCHANGED <<gpcs, sysvol, faults>>
(* A step that is carried out: gs and fs are the objects and folders after *)
(* it, op the operation; or its answer is lost.                            *)
Carries(a, op, gs, fs) ==
  /\ gpcs' = gs /\ sysvol' = fs
  /\ \/ Continues(a, Next1(op)) /\ UNCHANGED faults
     \/ /\ "answer" \in Faults /\ faults < MaxFaults
        /\ Continues(a, Failed([doing[a] EXCEPT !.faulty = TRUE], "failed"))
        /\ faults' = faults + 1
Looks(a, op) == Continues(a, Next1(op)) /\ UNCHANGED <<gpcs, sysvol, faults>>
Keeps == UNCHANGED <<backups, used, lifeOps>>

CallFails(a) ==
  /\ "call" \in Faults /\ faults < MaxFaults /\ Underway(a)
  /\ Continues(a, Failed([doing[a] EXCEPT !.faulty = TRUE], "failed"))
  /\ faults' = faults + 1
  /\ UNCHANGED <<gpcs, sysvol>> /\ Keeps

(***************************************************************************)
(* Creating                                                                *)
(***************************************************************************)
TakenName(a) ==
  /\ AtCall(a, "names")
  /\ IF NameTaken(doing[a].name) THEN LifeRefuses(a, "refused") ELSE Looks(a, doing[a])
  /\ Keeps

AddObject(a) ==
  LET op == doing[a] IN
  /\ AtCall(a, "object")
  /\ \E id \in Guid \ used :
       /\ used' = used \cup {id}
       /\ Carries(a, [op EXCEPT !.id = id, !.undo = "create"],
                  Put(gpcs, id, [name |-> op.name, version |-> 0, off |-> {}, exts |-> {}]), sysvol)
  /\ UNCHANGED <<backups, lifeOps>>

AddChildren(a) ==
  /\ AtCall(a, "children")
  /\ IF doing[a].id \in DOMAIN gpcs THEN Looks(a, doing[a]) ELSE LifeRefuses(a, "failed")
  /\ Keeps

Made(folder, path, directory, data) ==
  Put(folder, path, [directory |-> directory, data |-> data, acl |-> folder[Front(path)].acl])
NewFolder == [p \in {Top} |-> [directory |-> TRUE, data |-> 0, acl |-> "share"]]
FolderOrNew(id) == IF id \in DOMAIN sysvol THEN sysvol[id] ELSE NewFolder
MakeFolder(a) ==
  LET op == doing[a] IN
  /\ AtCall(a, "folder")
  /\ Carries(a, [op EXCEPT !.folder = TRUE], gpcs,
             Put(sysvol, op.id, NewFolder))
  /\ Keeps

\* Setting a folder's permissions does not reach what is already in it.
StampTree(a) ==
  LET op == doing[a] IN
  /\ AtCall(a, "stamp")
  /\ IF op.id \notin DOMAIN gpcs \/ op.id \notin DOMAIN sysvol THEN LifeRefuses(a, "failed")
     ELSE Carries(a, op, gpcs, [sysvol EXCEPT ![op.id][Top].acl = "derived"])
  /\ Keeps

MakeHalf(a) ==
  \E h \in Half :
    LET op == doing[a]  path == Folder(h) IN
    /\ AtCall(a, h)
    /\ IF op.id \notin DOMAIN sysvol \/ path \in DOMAIN FolderOf(op.id) THEN LifeRefuses(a, "failed")
       ELSE Carries(a, op, gpcs, [sysvol EXCEPT ![op.id] = Made(@, path, TRUE, 0)])
    /\ Keeps

\* Overwriting a file keeps the permissions it has.
WrittenFile(folder, path, data) ==
  IF path \in DOMAIN folder THEN [folder EXCEPT ![path].data = data] ELSE Made(folder, path, FALSE, data)
WriteIni(a, step, version) ==
  LET op == doing[a] IN
  /\ AtCall(a, step)
  /\ IF op.id \notin DOMAIN sysvol THEN LifeRefuses(a, "failed")
     ELSE Carries(a, op, gpcs, [sysvol EXCEPT ![op.id] = WrittenFile(@, Ini, version)])
  /\ Keeps
NewIni(a) == WriteIni(a, "ini", 0)

\* Read back, outside of the rollback's scope; what follows has one of its own.
ReadBack(a) ==
  LET op == doing[a]  done == [op EXCEPT !.undo = IF op.do = "create" THEN "none" ELSE "delete"] IN
  /\ AtCall(a, "made")
  /\ IF op.id \in DOMAIN gpcs THEN Looks(a, done)
     ELSE Continues(a, LIdle("failed")) /\ UNCHANGED <<gpcs, sysvol, faults>>
  /\ Keeps

(***************************************************************************)
(* Copying, backing up and restoring                                       *)
(***************************************************************************)
ReadSource(a) ==
  LET op == doing[a] IN
  /\ AtCall(a, "source")
  /\ IF op.source \in DOMAIN gpcs THEN Looks(a, [op EXCEPT !.of = gpcs[op.source]]) ELSE LifeRefuses(a, "refused")
  /\ Keeps

TooDeep(folder) == \E p \in DOMAIN folder : Len(p) > MaxLevels
ListFolder(a) ==
  LET op == doing[a]  folder == FolderOf(op.source) IN
  /\ AtCall(a, "list")
  /\ IF TooDeep(folder) \/ folder = <<>> THEN LifeRefuses(a, "refused")
     ELSE Looks(a, [op EXCEPT !.left = DOMAIN folder \ {Top}])
  /\ Keeps

\* Folders before what is in them, in no other order that matters.
NextPaths(op) == {p \in op.left : Front(p) \notin op.left}
Arrived(op, folder, path, entry) ==
  IF entry.directory /\ path \in DOMAIN folder THEN folder
  ELSE IF entry.directory THEN Made(folder, path, TRUE, 0) ELSE WrittenFile(folder, path, entry.data)
\* A restore makes the folders a file's name calls for.
LastParent(folder, path) ==
  IF Len(path) = 1 THEN <<>>
  ELSE [p \in {Front(path)} |-> [directory |-> TRUE, data |-> 0, acl |-> folder[Top].acl]]

WithParents(folder, path) ==
  [p \in Parents(path) |-> [directory |-> TRUE, data |-> 0, acl |-> folder[Top].acl]]

CopyFile(a) ==
  LET op == doing[a]  from == FolderOf(op.source) IN
  /\ AtCall(a, "files") /\ op.do = "copy" /\ op.left # {}
  /\ \E path \in NextPaths(op) :
       IF path \notin DOMAIN from \/ op.id \notin DOMAIN sysvol \/ Front(path) \notin DOMAIN sysvol[op.id]
       THEN LifeRefuses(a, "failed")
       ELSE /\ sysvol' = [sysvol EXCEPT ![op.id] = Arrived(op, @, path, from[path])]
            /\ Continues(a, [op EXCEPT !.left = @ \ {path}])
            /\ UNCHANGED <<gpcs, faults>>
  /\ Keeps

PackFile(a) ==
  LET op == doing[a]  from == FolderOf(op.source) IN
  /\ AtCall(a, "files") /\ op.do = "backup" /\ op.left # {}
  /\ \E path \in NextPaths(op) :
       IF path \notin DOMAIN from THEN LifeRefuses(a, "failed")
       ELSE IF from[path].directory THEN Continues(a, [op EXCEPT !.left = @ \ {path}]) /\ UNCHANGED <<gpcs, sysvol, faults>>
       ELSE IF Cardinality(DOMAIN op.archive.files) >= MaxFiles THEN LifeRefuses(a, "refused")
       ELSE /\ Continues(a, [op EXCEPT !.left = @ \ {path}, !.archive.files = Put(@, path, from[path].data)])
            /\ UNCHANGED <<gpcs, sysvol, faults>>
  /\ Keeps

(* Any member that is not a plain relative path is passed over; the        *)
(* folders above one are made where they are missing, the policy's own     *)
(* too if it has gone.                                                     *)
UnpackFile(a) ==
  LET op == doing[a]  files == op.archive.files IN
  /\ AtCall(a, "files") /\ op.do = "restore" /\ op.left # {}
  /\ \E path \in op.left :
       LET full == Cardinality(DOMAIN files \ (op.left \cup op.archive.unsafe)) >= MaxFiles
           gone == op.id \notin DOMAIN sysvol
           folder == FolderOrNew(op.id)
       IN /\ IF path \in op.archive.unsafe THEN UNCHANGED sysvol /\ Continues(a, [op EXCEPT !.left = @ \ {path}])
             ELSE IF full \/ (gone /\ Len(path) = 1) THEN UNCHANGED sysvol /\ Continues(a, Failed(op, "failed"))
             ELSE /\ sysvol' = Put(sysvol, op.id, WrittenFile(FilledUp(folder, WithParents(folder, path)), path, files[path]))
                  /\ Continues(a, [op EXCEPT !.left = @ \ {path}])
          /\ UNCHANGED <<gpcs, faults>>
  /\ Keeps

FilesDone(a) ==
  /\ AtCall(a, "files") /\ doing[a].left = {}
  /\ Looks(a, doing[a])
  /\ Keeps

Unversioned(op, object) == [object EXCEPT !.exts = op.of.exts, !.off = op.of.off]

\* What is empty is not written: the new object has none of it.
Attributed(op, object) == [object EXCEPT !.exts = op.of.exts, !.version = op.of.version, !.off = op.of.off]
WriteAttributes(a) ==
  LET op == doing[a]  empty == op.of.version = 0 /\ op.of.exts = {} /\ op.of.off = {} IN
  /\ AtCall(a, "attributes")
  /\ IF empty THEN Looks(a, op)
     ELSE IF op.id \notin DOMAIN gpcs THEN LifeRefuses(a, "failed")
     ELSE Carries(a, op, [gpcs EXCEPT ![op.id] = Attributed(op, @)], sysvol)
  /\ Keeps
WriteVersionNever(a) == AtCall(a, "version") /\ Looks(a, doing[a]) /\ Keeps

WriteVersion(a) ==
  \/ doing[a].todo # <<>> /\ doing[a].of.name # "none" /\ doing[a].of.version # 0
       /\ WriteIni(a, "version", doing[a].of.version)
  \/ AtCall(a, "version") /\ doing[a].of.version = 0 /\ Looks(a, doing[a]) /\ Keeps
ShowMade(a) ==
  LET op == doing[a] IN
  /\ AtCall(a, "shown")
  /\ IF op.id \in DOMAIN gpcs THEN Looks(a, op) ELSE Continues(a, LIdle("failed")) /\ UNCHANGED <<gpcs, sysvol, faults>>
  /\ Keeps

Pack(a) ==
  LET op == doing[a] IN
  /\ AtCall(a, "pack")
  /\ backups' = backups \cup {[op.archive EXCEPT !.exts = op.of.exts, !.manifest = TRUE, !.object = op.of]}
  /\ Looks(a, op)
  /\ UNCHANGED <<used, lifeOps>>

(* A backup another tool took has no manifest: no name, no version and no  *)
(* flags, and the name has to be given.                                    *)
OpenBackup(a) ==
  LET op == doing[a] IN
  /\ AtCall(a, "backup")
  /\ \E b \in backups :
       LET name == IF op.name = "of the backup" THEN b.object.name ELSE op.name
           object == [name |-> name, version |-> IF b.manifest THEN b.object.version ELSE 0,
                      off |-> IF b.manifest THEN b.object.off ELSE {}, exts |-> b.exts]
       IN IF (~b.manifest /\ op.name = "of the backup") \/ NameTaken(name) THEN LifeRefuses(a, "refused")
          ELSE Looks(a, [op EXCEPT !.name = name, !.archive = b, !.of = object, !.left = DOMAIN b.files])
  /\ Keeps

(***************************************************************************)
(* Deleting, and taking back                                               *)
(***************************************************************************)
Mine(a) ==
  /\ AtCall(a, "mine")
  /\ IF doing[a].id \in DOMAIN gpcs THEN Looks(a, doing[a]) ELSE LifeRefuses(a, "failed")
  /\ Keeps
RemoveTree(a) ==
  LET op == doing[a] IN
  /\ AtCall(a, "tree") \/ AtCall(a, "untree")
  /\ IF op.id \in DOMAIN sysvol THEN Carries(a, op, gpcs, Drop(sysvol, op.id)) ELSE Looks(a, op)
  /\ Keeps
RemoveObject(a) ==
  LET op == doing[a] IN
  /\ AtCall(a, "gone") \/ AtCall(a, "unobject")
  /\ IF op.id \in DOMAIN gpcs THEN Carries(a, op, Drop(gpcs, op.id), sysvol) ELSE LifeRefuses(a, "failed")
  /\ Keeps

(***************************************************************************)
(* Status, and saving into a policy (GpoEdit has the save as the editors   *)
(* make it)                                                                *)
(***************************************************************************)
OthersOn(op, off) == op.off

\* The half that is not asked about keeps its flag.
NewOff(op, off) == (off \ op.on) \cup op.off
WriteFlags(a) ==
  LET op == doing[a]  off == NewOff(op, op.of.off) IN
  /\ AtCall(a, "flags")
  /\ IF off = op.of.off THEN Looks(a, op)
     ELSE IF op.id \notin DOMAIN gpcs THEN LifeRefuses(a, "failed")
     ELSE Carries(a, op, [gpcs EXCEPT ![op.id].off = off], sysvol)
  /\ Keeps

Setting == <<"Machine", "pol">>
(* The folders above the file are made where they are missing: the whole   *)
(* policy's again, with the share's permissions, if another session's      *)
(* deletion took it meanwhile.  The object is asked for again only by the  *)
(* version that follows the file.                                          *)
MakeParents(a) ==
  LET op == doing[a]  folder == FolderOrNew(op.id) IN
  /\ AtCall(a, "parents")
  /\ Carries(a, op, gpcs, Put(sysvol, op.id, FilledUp(folder, WithParents(folder, Setting))))
  /\ Keeps
Save(a) ==
  LET op == doing[a] IN
  /\ AtCall(a, "save")
  /\ IF <<"Machine">> \notin DOMAIN FolderOf(op.id) THEN LifeRefuses(a, "failed")
     ELSE Carries(a, op, gpcs, [sysvol EXCEPT ![op.id] = WrittenFile(@, Setting, lifeOps)])
  /\ Keeps
BumpHalf(a) ==
  LET op == doing[a] IN
  /\ AtCall(a, "bump")
  /\ IF op.id \notin DOMAIN gpcs THEN LifeRefuses(a, "failed")
     ELSE Carries(a, [op EXCEPT !.of = gpcs[op.id]], [gpcs EXCEPT ![op.id].version = @ + 1, ![op.id].exts = {"machine"}], sysvol)
  /\ Keeps
Restamp(a) == Underway(a) /\ doing[a].of.name # "none" /\ WriteIni(a, "restamp", doing[a].of.version + 1)

LifeStep(a) ==
  \/ LBegin(a) \/ CallFails(a)
  \/ TakenName(a) \/ AddObject(a) \/ AddChildren(a) \/ MakeFolder(a) \/ StampTree(a) \/ MakeHalf(a) \/ NewIni(a) \/ ReadBack(a)
  \/ ReadSource(a) \/ ListFolder(a) \/ CopyFile(a) \/ PackFile(a) \/ UnpackFile(a) \/ FilesDone(a)
  \/ WriteAttributes(a) \/ WriteVersion(a) \/ ShowMade(a) \/ Pack(a) \/ OpenBackup(a)
  \/ Mine(a) \/ RemoveTree(a) \/ RemoveObject(a) \/ WriteFlags(a) \/ MakeParents(a) \/ Save(a) \/ BumpHalf(a) \/ Restamp(a)

LifeNext == \E a \in LAdmin : LifeStep(a)
LifeSpec == LifeInit /\ [][LifeNext]_lifeVars

(***************************************************************************)
(* Properties                                                              *)
(***************************************************************************)
(* Identifiers, objects and folders are what they should be: what is in a  *)
(* folder has its folder, and no identifier is given out twice.            *)
LifeTypeOK ==
  /\ DOMAIN gpcs \cup DOMAIN sysvol \subseteq used /\ used \subseteq Guid
  /\ \A id \in DOMAIN gpcs : gpcs[id] \in Gpc
  /\ \A id \in DOMAIN sysvol : \A p \in DOMAIN sysvol[id] :
       sysvol[id][p] \in SysvolEntry /\ (p # Top => Front(p) \in DOMAIN sysvol[id])
  /\ \A b \in backups : IsArchive(b)
  /\ faults \in 0..MaxFaults /\ lifeOps \in 0..MaxLifeOps

(* What status reports of a policy: the ways its two halves disagree.      *)
Problems(object, folder) ==
  (IF folder = <<>> THEN {"sysvol_missing"} ELSE {})
    \cup (IF Ini \in DOMAIN folder THEN {} ELSE {"gpt_ini_missing"})
    \cup (IF Ini \in DOMAIN folder /\ folder[Ini].data # object.version THEN {"version_mismatch"} ELSE {})
    \cup {h \in Half : Folder(h) \notin DOMAIN folder}

(* A folder a save made again after a deletion had taken it: it has the    *)
(* share's permissions and the half the save writes into, while a creation *)
(* sets the permissions before it makes a half.                            *)
MadeAgain(folder) == folder[Top].acl = "share" /\ <<"Machine">> \in DOMAIN folder

(* No folder is left that has no object and that nobody is working on,     *)
(* save the ones saves made again: "an orphaned SYSVOL tree is invisible   *)
(* in every console" (delete_gpo, and the rollback of create_gpo, copy_gpo *)
(* and restore_gpo).                                                       *)
NoOrphanTree ==
  \A id \in DOMAIN sysvol \ DOMAIN gpcs :
    MadeAgain(sysvol[id]) \/ \E a \in LAdmin : Underway(a) /\ doing[a].id = id

(* Everything in a policy's folder has the folder's permissions, and with  *)
(* nobody at work on it those are the ones derived from the object         *)
(* ("everything put in it inherits them"), unless a save made it again.    *)
PermissionsInherited ==
  \A id \in DOMAIN sysvol :
    /\ \A p \in DOMAIN sysvol[id] : sysvol[id][p].acl = sysvol[id][Top].acl
    /\ \/ sysvol[id][Top].acl = "derived" \/ MadeAgain(sysvol[id])
       \/ \E a \in LAdmin : Underway(a) /\ doing[a].id = id

(* Every folder belongs to a policy and carries its permissions, and the   *)
(* only ones that do not are those a save made again while the policy was  *)
(* being deleted.                                                          *)
FoldersOwned == NoOrphanTree /\ PermissionsInherited

LUndisturbed(a) == Underway(a) /\ doing[a].alone /\ lifeOps = doing[a].nth
LEnds(a, why) == Underway(a) /\ doing'[a] = LIdle(why)

(* A creation, copy or restore no other session crosses makes a policy     *)
(* with both halves, or fails and leaves nothing of it ("rolls the earlier *)
(* steps back on failure"), save when all that failed is reading the       *)
(* finished policy back.                                                   *)
MadeWhole ==
  \A a \in LAdmin :
    LET op == doing[a] IN
    Underway(a) /\ doing'[a].todo = <<>> /\ Makes(a) /\ LUndisturbed(a) =>
      /\ (op.id \in DOMAIN gpcs') = (op.id \in DOMAIN sysvol')
      /\ op.id \in DOMAIN gpcs' => doing'[a].result = "ok" \/ Head(op.todo) \in {"made", "shown"}

Content(folder) == [p \in Files(folder) \ {Ini} |-> folder[p].data]
(* A copy no other session crosses holds the source's settings, a restored *)
(* policy those of the backup, a backup those of its policy; the object    *)
(* has their registration, version and status, and the files of a backup   *)
(* that point out of the policy's folder are nowhere (copy_gpo,            *)
(* backup_gpo, restore_gpo).                                               *)
Faithful ==
  \A a \in LAdmin :
    LET op == doing[a]
        object == gpcs'[op.id]
        inside == DOMAIN op.archive.files \ (op.archive.unsafe \cup {Ini})
    IN LUndisturbed(a) =>
         /\ op.do \in {"copy", "restore"} /\ LEnds(a, "ok") =>
              /\ Content(sysvol'[op.id]) = IF op.do = "copy" THEN Content(FolderOf(op.source))
                                           ELSE [p \in inside |-> op.archive.files[p]]
              /\ op.do = "copy" => object = [gpcs[op.source] EXCEPT !.name = op.name]
              /\ op.do = "restore" /\ op.archive.manifest => object = [op.archive.object EXCEPT !.name = op.name]
         /\ op.do = "backup" /\ LEnds(a, "ok") =>
              \E b \in backups' : /\ [p \in DOMAIN b.files \ {Ini} |-> b.files[p]] = Content(FolderOf(op.source))
                                  /\ b.object = gpcs[op.source] /\ b.exts = gpcs[op.source].exts

(* What is made without being crossed has none of the problems status      *)
(* reports: a copy's halves agree in their version although GPT.INI came   *)
(* with the files, also when the source's did not.  A source that was      *)
(* never edited, or a backup without a manifest, brings no version to      *)
(* agree on.                                                               *)
Sound ==
  \A a \in LAdmin :
    LET op == doing[a]  versioned == op.do = "create" \/ op.of.version # 0 IN
    Makes(a) /\ LEnds(a, "ok") /\ LUndisturbed(a) /\ versioned => Problems(gpcs'[op.id], sysvol'[op.id]) = {}

(* Disabling or enabling one half of a policy leaves the other half's flag *)
(* as it was, unless another session was at it (set_status).               *)
HalfAlone ==
  \A a \in LAdmin : \A h \in Half :
    LET op == doing[a] IN
    AtCall(a, "flags") /\ LEnds(a, "ok") /\ LUndisturbed(a) =>
      (h \in gpcs'[op.id].off) = IF h \in op.off THEN TRUE ELSE IF h \in op.on THEN FALSE ELSE h \in gpcs[op.id].off

(* A policy that is made, copied, restored or backed up is all there, with *)
(* the content of what it was made of and no disagreement between its      *)
(* halves, or nothing of it is; a change of one half's flag is only that.  *)
MadeAsAsked == [][MadeWhole /\ Faithful /\ Sound /\ HalfAlone]_lifeVars

(* "A version in GPT.INI that disagrees with versionNumber means clients   *)
(* either skip a change or re-apply one forever": a restored policy's two  *)
(* versions agree, whichever tool took the backup (restore_gpo).           *)
Agrees ==
  \A a \in LAdmin :
    doing[a].do = "restore" /\ LEnds(a, "ok") /\ LUndisturbed(a) =>
      "version_mismatch" \notin Problems(gpcs'[doing[a].id], sysvol'[doing[a].id])
RestoredAgrees == [][Agrees]_lifeVars
==============================================================================
