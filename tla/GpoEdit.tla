------------------------------ MODULE GpoEdit ------------------------------
(***************************************************************************)
(* Editing the content of one group policy object.  A policy lives in two  *)
(* places: the directory object carries versionNumber and the two lists of *)
(* client-side extensions, SYSVOL carries the files and GPT.INI, a copy of *)
(* the version.  Seven editors save into it, all with the same protocol:   *)
(* load the version and a file, let the user edit, compare the version,    *)
(* read the file again, write it, register the extension, advance the      *)
(* version in both places; every step is a call of its own over LDAP or    *)
(* SMB.  Renaming the policy and reconciling its registrations write parts *)
(* of the same state.                                                      *)
(*                                                                         *)
(* A client of the domain (external) fetches a half of the policy when its *)
(* half of the version number is not the one of its last fetch.            *)
(*                                                                         *)
(* Sources: gpo/admx/writer.py, scripts.py, folders.py, security.py,       *)
(* audit_csv.py, preferences/store.py, vgp.py, container.py, cse.py,       *)
(* report.py, sysvol.py and api/v1/gpos.py, in src/backend/samadcon.       *)
(***************************************************************************)
EXTENDS Integers, FiniteSets

CONSTANTS
  Admin,        \* editors: windows of one session, or sessions of several people
  File,         \* the policy's files, see FileType
  Entry,        \* what a file can say, one setting each
  None,         \* no file, no number
  Ops,          \* what an admin may do: "edit", "rename", "reconcile"
  Failing,      \* what may fail: "call", any remote call; "file", a write halfway
  Overlapping,  \* may two saves run at the same time
  Word,         \* values of a word of the version number, 2^16 in the program
  FirstVersion, \* versionNumber to start from
  MaxSaves      \* bound: saves started

Half == {"Machine", "User"}
Kind == {"admx", "scripts", "folders", "security", "audit", "preferences", "vgp",
         "other"}  \* "other": content the report does not understand
FileType == [kind : Kind, half : Half, part : Nat]

ASSUME ConstantsAssumption ==
  /\ File \subseteq FileType /\ File # {} /\ Entry # {}
  /\ \A f \in File : /\ f.kind = "folders" => f.half = "User"
                     /\ f.kind \in {"security", "audit", "vgp"} => f.half = "Machine"
                     /\ f.kind \in {"admx", "folders", "security", "audit"} => f.part = 0
  /\ None \notin Int /\ \A c \in SUBSET Entry : c # None
  /\ Failing \subseteq {"call", "file"} /\ Overlapping \in BOOLEAN
  /\ Word \in Nat /\ FirstVersion \in 0..(Word * Word - 1)
  /\ MaxSaves \in Nat /\ MaxSaves < Word

VARIABLES
  version,     \* versionNumber of the directory object
  ini,         \* the version in GPT.INI, None without the file
  files,       \* what each file says, None without the file
  registered,  \* per half the extensions in gPCMachine/UserExtensionNames
  pc,          \* where each admin's editor is
  task,        \* what it does: operation, file, entry, set or cleared
  expect,      \* the version it was loaded with
  view,        \* the content it was loaded with
  new,         \* the content its save is going to write
  changed,     \* whether its save has something to write
  number,      \* the version its save has read, then written
  attr,        \* the registrations its operation has read
  fix,         \* the registration changes it still has to make
  last,        \* per file how its last save ended
  whole,       \* whether the last save ended with the answer "changed"
  saves,       \* saves started
  at, got      \* external: the client's last version word and content

gpoVars    == <<version, ini, files, registered>>
editorVars == <<task, expect, view, new, changed>>
stepVars   == <<number, attr, fix>>
noteVars   == <<last, whole, saves>>
clientVars == <<at, got>>
vars == <<gpoVars, pc, editorVars, stepVars, noteVars, clientVars>>

Content(c) == IF c = None THEN {} ELSE c

---------------------------------------------------------------------------
(* The version number: the low word counts the computer half, the high one *)
(* the user half.                                                          *)
WordOf(half, v) == IF half = "Machine" THEN v % Word ELSE (v \div Word) % Word
Combine(machine, user) == (user % Word) * Word + (machine % Word)

\* Faulty variant: the words are advanced without the mask.
BumpedWide(half, v) == v + (IF half = "Machine" THEN 1 ELSE Word)
\* Faulty variant: the words the other way round.
BumpedSwapped(half, v) ==
  IF half = "User" THEN Combine((WordOf("Machine", v) + 1) % Word, WordOf("User", v))
                   ELSE Combine(WordOf("Machine", v), (WordOf("User", v) + 1) % Word)
Bumped(half, v) ==
  IF half = "Machine" THEN Combine((WordOf("Machine", v) + 1) % Word, WordOf("User", v))
                      ELSE Combine(WordOf("Machine", v), (WordOf("User", v) + 1) % Word)

---------------------------------------------------------------------------
(* Extensions.  The script files of a half share one, every preference     *)
(* type has its own, Samba's policies have none, and "other" stands for    *)
(* what Windows tools registered.                                          *)
Ext(f) == <<f.kind, IF f.kind = "scripts" THEN 0 ELSE f.part>>
Understood(f) == f.kind \notin {"vgp", "other"}  \* what required_pairs knows of
Sharing(f) == {g \in File : g.half = f.half /\ Ext(g) = Ext(f)}
Keeps == {"security"}               \* cse.KEEPS_REGISTRATION
NeverUnregistered == {"security", "audit"}
AsksFor(half) ==
  {Ext(f) : f \in {g \in File : g.half = half /\ Understood(g) /\ Content(files[g]) # {}}}
Foreign(half) ==
  {Ext(f) : f \in {g \in File : g.half = half /\ g.kind = "other" /\ Content(files[g]) # {}}}
Fix(half, exts, present) == [half |-> half, exts |-> exts, present |-> present]
\* Faulty variant: no editor takes its registration back.
EndsKept(f, n) == Fix(f.half, {Ext(f)}, TRUE)
Ends(f, n) == Fix(f.half, {Ext(f)}, f.kind \in NeverUnregistered \/ n # {})

(* What a save writes: the preference and Samba editors send the whole     *)
(* file, the others one setting to be merged into what is there.           *)
Replaces(f) == f.kind \in {"preferences", "vgp"}
With(c, t) == IF t.wanted THEN Content(c) \cup {t.entry} ELSE Content(c) \ {t.entry}
Nothing(f, c, n) ==
  CASE f.kind = "admx"                   -> n = Content(c)
    [] f.kind = "preferences" /\ n = {}  -> c = None
    [] OTHER                             -> c = n

Resting == {"idle", "opening", "editing", "failed"}
SaveSteps == {"read", "write", "count", "register", "regWrite", "bump", "bumpWrite",
              "ini", "report"}
Busy(a) == pc[a] \notin Resting
Free == Overlapping \/ \A a \in Admin : ~Busy(a)
Quiet == \A a \in Admin : ~Busy(a)

ExtType == Kind \X Nat
Task == [do : {"edit", "rename", "reconcile"}, file : File, entry : Entry, wanted : BOOLEAN]
Unread == [h \in Half |-> {}]
FixType == [half : Half, exts : SUBSET ExtType, present : BOOLEAN]
FileContent == {None} \cup SUBSET Entry
GpoType ==
  /\ version \in 0..(Word * Word - 1)
  /\ ini \in Int \cup {None}
  /\ files \in [File -> FileContent]
  /\ registered \in [Half -> SUBSET ExtType]
EditorType ==
  /\ pc \in [Admin -> Resting \cup SaveSteps \cup {"survey", "renameWrite"}]
  /\ task \in [Admin -> Task]
  /\ expect \in [Admin -> 0..(Word * Word - 1)]
  /\ view \in [Admin -> FileContent]
  /\ new \in [Admin -> SUBSET Entry]
  /\ changed \in [Admin -> BOOLEAN]
StepType ==
  /\ number \in [Admin -> Int]
  /\ attr \in [Admin -> [Half -> SUBSET ExtType]]
  /\ fix \in [Admin -> SUBSET FixType]
NoteType ==
  /\ last \in [File -> {"none", "done", "failed", "again"}]
  /\ whole \in BOOLEAN
  /\ saves \in 0..MaxSaves
  /\ at \in [Half -> 0..(Word - 1)]
  /\ got \in [File -> FileContent]
TypeOK == GpoType /\ EditorType /\ StepType /\ NoteType

(* Any policy whose halves agree and whose registrations follow its        *)
(* content, with or without files; the client has seen it.                 *)
Init ==
  /\ version = FirstVersion /\ ini \in {FirstVersion, None}
  /\ files \in [File -> {None, Entry}]
  /\ registered = [h \in Half |-> AsksFor(h) \cup Foreign(h)]
  /\ pc = [a \in Admin |-> "idle"]
  /\ task = [a \in Admin |-> CHOOSE t \in Task : TRUE]
  /\ expect = [a \in Admin |-> FirstVersion] /\ view = [a \in Admin |-> None]
  /\ new = [a \in Admin |-> {}] /\ changed = [a \in Admin |-> FALSE]
  /\ number = [a \in Admin |-> 0]
  /\ attr = [a \in Admin |-> Unread] /\ fix = [a \in Admin |-> {}]
  /\ last = [f \in File |-> "none"] /\ whole = (ini = version) /\ saves = 0
  /\ at = [h \in Half |-> WordOf(h, version)] /\ got = files

---------------------------------------------------------------------------
(* An editor loads the policy's version and then the file.                 *)
Open(a, f) ==
  /\ "edit" \in Ops /\ f.kind # "other"
  /\ pc[a] \in {"idle", "editing", "failed"}
  /\ pc' = [pc EXCEPT ![a] = "opening"]
  /\ task' = [task EXCEPT ![a].do = "edit", ![a].file = f]
  /\ expect' = [expect EXCEPT ![a] = version]
  /\ view' = [view EXCEPT ![a] = None]
  /\ UNCHANGED <<gpoVars, new, changed, stepVars, noteVars, clientVars>>

Load(a) ==
  /\ pc[a] = "opening"
  /\ pc' = [pc EXCEPT ![a] = "editing"]
  /\ view' = [view EXCEPT ![a] = files[task[a].file]]
  /\ UNCHANGED <<gpoVars, task, expect, new, changed, stepVars, noteVars, clientVars>>

(* The user saves a change, or saves again what has failed.  The save      *)
(* begins by comparing the version with the one it was loaded with.        *)
Chosen(a, e, wanted) ==
  /\ \/ pc[a] = "editing"
     \/ pc[a] = "failed" /\ e = task[a].entry /\ wanted = task[a].wanted
  /\ Free /\ saves < MaxSaves
  /\ saves' = saves + 1
  /\ task' = [task EXCEPT ![a].entry = e, ![a].wanted = wanted]

\* Faulty variant: the version is not compared.
StartUnchecked(a, e, wanted) ==
  /\ Chosen(a, e, wanted)
  /\ pc' = [pc EXCEPT ![a] = "read"]
  /\ UNCHANGED <<gpoVars, expect, view, new, changed, stepVars, last, whole, clientVars>>
Start(a, e, wanted) ==
  /\ Chosen(a, e, wanted)
  /\ version = expect[a]
  /\ pc' = [pc EXCEPT ![a] = "read"]
  /\ UNCHANGED <<gpoVars, expect, view, new, changed, stepVars, last, whole, clientVars>>

Conflict(a, e, wanted) ==
  /\ Chosen(a, e, wanted)
  /\ version # expect[a]
  /\ pc' = [pc EXCEPT ![a] = "idle"]
  /\ UNCHANGED <<gpoVars, expect, view, new, changed, stepVars, last, whole, clientVars>>

(* The file is read again and merged with the change.  Nothing to write    *)
(* ends the save; administrative templates look at their registration      *)
(* first.                                                                  *)
Answer(f, result) ==
  last' = [last EXCEPT ![f] = IF result = "same" /\ @ \in {"failed", "again"} THEN "again"
                              ELSE IF result = "same" THEN @ ELSE "done"]

\* Faulty variant: nothing to write ends every save at once.
ReadUnchangedEarly(a, f, c) ==
  /\ UNCHANGED <<new, changed>>
  /\ pc' = [pc EXCEPT ![a] = "idle"]
  /\ Answer(f, IF f.kind = "admx" THEN "changed" ELSE "same")
  /\ UNCHANGED fix
ReadUnchanged(a, f, c) ==
  /\ UNCHANGED <<new, changed>>
  /\ IF f.kind = "admx"
       THEN /\ pc' = [pc EXCEPT ![a] = "register"]
            /\ fix' = [fix EXCEPT ![a] = {Ends(f, Content(c))}]
            /\ UNCHANGED last
       ELSE /\ pc' = [pc EXCEPT ![a] = "idle"]
            /\ Answer(f, "same")
            /\ UNCHANGED fix

Read(a) ==
  /\ pc[a] = "read"
  /\ LET f == task[a].file
         c == files[f]
         n == With(IF Replaces(f) THEN view[a] ELSE c, task[a])
     IN IF Nothing(f, c, n)
          THEN ReadUnchanged(a, f, c)
          ELSE /\ new' = [new EXCEPT ![a] = n]
               /\ changed' = [changed EXCEPT ![a] = TRUE]
               /\ pc' = [pc EXCEPT ![a] = "write"]
               /\ UNCHANGED <<fix, last>>
  /\ UNCHANGED <<gpoVars, task, expect, view, number, attr, whole, saves, clientVars>>

(* The file is written; the last preference of a type takes it away.       *)
AfterWrite(f) == CASE f.kind \in {"admx", "vgp"} -> "bump"
                   [] f.kind = "scripts"         -> "count"
                   [] OTHER                      -> "register"
Write(a) ==
  /\ pc[a] = "write"
  /\ LET f == task[a].file
     IN /\ files' = [files EXCEPT ![f] =
                       IF f.kind = "preferences" /\ new[a] = {} THEN None ELSE new[a]]
        /\ pc' = [pc EXCEPT ![a] = AfterWrite(f)]
        /\ fix' = [fix EXCEPT ![a] = {Ends(f, new[a])}]
  /\ UNCHANGED <<version, ini, registered, editorVars, number, attr, noteVars, clientVars>>

(* Whether the half has a script left, in either file.                     *)
\* Faulty variant: only scripts.ini is looked at.
AnyScriptsFirst(half) ==
  \E g \in File : g.kind = "scripts" /\ g.half = half /\ g.part = 0 /\ Content(files[g]) # {}
AnyScripts(half) ==
  \E g \in File : g.kind = "scripts" /\ g.half = half /\ Content(files[g]) # {}
Count(a) ==
  /\ pc[a] = "count"
  /\ LET f == task[a].file
     IN fix' = [fix EXCEPT ![a] = {Fix(f.half, {Ext(f)}, AnyScripts(f.half))}]
  /\ pc' = [pc EXCEPT ![a] = "register"]
  /\ UNCHANGED <<gpoVars, editorVars, number, attr, noteVars, clientVars>>

---------------------------------------------------------------------------
(* cse.register and register_pairs: the attribute is read, one extension   *)
(* or several added or removed, and the whole value written back.          *)
\* Faulty variant: the attribute is written from the wanted extensions alone.
UpdatedOwn(value, j) == IF j.present THEN j.exts ELSE value \ j.exts
Updated(value, j) == IF j.present THEN value \cup j.exts ELSE value \ j.exts

RegRead(a) ==
  /\ pc[a] = "register"
  /\ pc' = [pc EXCEPT ![a] = "regWrite"]
  /\ attr' = [attr EXCEPT ![a] = registered]
  /\ UNCHANGED <<gpoVars, editorVars, number, fix, noteVars, clientVars>>

\* Faulty variant: an editor that forgets to advance the version.
AfterRegisterReport(a) == "report"
AfterRegister(a) ==
  IF task[a].do = "edit" /\ task[a].file.kind # "admx" THEN "bump" ELSE "report"
RegWrite(a, j) ==
  /\ pc[a] = "regWrite" /\ j \in fix[a]
  /\ LET updated == Updated(attr[a][j.half], j)
     IN registered' = IF updated = attr[a][j.half]
                        THEN registered ELSE [registered EXCEPT ![j.half] = updated]
  /\ fix' = [fix EXCEPT ![a] = @ \ {j}]
  /\ attr' = [attr EXCEPT ![a] = Unread]
  /\ pc' = [pc EXCEPT ![a] = IF fix[a] = {j} THEN AfterRegister(a) ELSE "register"]
  /\ UNCHANGED <<version, ini, files, editorVars, number, noteVars, clientVars>>

(* bump_version: read the number, write it advanced to the directory, then *)
(* write the same number into GPT.INI.                                     *)
BumpRead(a) ==
  /\ pc[a] = "bump"
  /\ pc' = [pc EXCEPT ![a] = "bumpWrite"]
  /\ number' = [number EXCEPT ![a] = version]
  /\ UNCHANGED <<gpoVars, editorVars, attr, fix, noteVars, clientVars>>

BumpWrite(a) ==
  /\ pc[a] = "bumpWrite"
  /\ pc' = [pc EXCEPT ![a] = "ini"]
  /\ number' = [number EXCEPT ![a] = Bumped(task[a].file.half, @)]
  /\ version' = Bumped(task[a].file.half, number[a])
  /\ UNCHANGED <<ini, files, registered, editorVars, attr, fix, noteVars, clientVars>>

\* Faulty variant: the number in GPT.INI is advanced on its own.
NewIniOwn(a) == IF ini = None THEN 1 ELSE Bumped(task[a].file.half, ini)
NewIni(a) == number[a]
IniWrite(a) ==
  /\ pc[a] = "ini"
  /\ pc' = [pc EXCEPT ![a] = IF task[a].file.kind = "admx" THEN "register" ELSE "report"]
  /\ ini' = NewIni(a)
  /\ number' = [number EXCEPT ![a] = 0]
  /\ UNCHANGED <<version, files, registered, editorVars, attr, fix, noteVars, clientVars>>

(* The operation reads the object back and answers.                        *)
Report(a) ==
  /\ pc[a] = "report"
  /\ pc' = [pc EXCEPT ![a] = "idle"]
  /\ IF task[a].do = "edit"
       THEN /\ Answer(task[a].file, IF changed[a] THEN "changed" ELSE "same")
            /\ whole' = (changed[a] \/ whole)
       ELSE UNCHANGED <<last, whole>>
  /\ new' = [new EXCEPT ![a] = {}] /\ changed' = [changed EXCEPT ![a] = FALSE]
  /\ attr' = [attr EXCEPT ![a] = Unread]
  /\ UNCHANGED <<gpoVars, task, expect, view, number, fix, saves, clientVars>>

---------------------------------------------------------------------------
(* Renaming keeps the version GPT.INI holds and writes the file anew.      *)
Rename(a) ==
  /\ "rename" \in Ops /\ pc[a] = "idle" /\ Free /\ ini # None
  /\ pc' = [pc EXCEPT ![a] = "renameWrite"]
  /\ task' = [task EXCEPT ![a].do = "rename"]
  /\ number' = [number EXCEPT ![a] = ini]
  /\ UNCHANGED <<gpoVars, expect, view, new, changed, attr, fix, noteVars, clientVars>>

RenameWrite(a) ==
  /\ pc[a] = "renameWrite"
  /\ pc' = [pc EXCEPT ![a] = "idle"]
  /\ ini' = number[a]
  /\ number' = [number EXCEPT ![a] = 0]
  /\ UNCHANGED <<version, files, registered, editorVars, attr, fix, noteVars, clientVars>>

(* Reconciling compares the registrations read first with the content read *)
(* after them, and registers what is missing, then removes what is left.   *)
Reconcile(a) ==
  /\ "reconcile" \in Ops /\ pc[a] = "idle" /\ Free
  /\ pc' = [pc EXCEPT ![a] = "survey"]
  /\ task' = [task EXCEPT ![a].do = "reconcile"]
  /\ attr' = [attr EXCEPT ![a] = registered]
  /\ UNCHANGED <<gpoVars, expect, view, new, changed, number, fix, noteVars, clientVars>>

Missing(a, half) ==
  LET exts == AsksFor(half) \ attr[a][half]
  IN IF exts = {} THEN {} ELSE {Fix(half, exts, TRUE)}
\* Faulty variant: what Windows keeps registered counts as surplus too.
SurplusAll(a, half) == {Fix(half, {x}, FALSE) : x \in attr[a][half] \ AsksFor(half)}
Surplus(a, half) ==
  {Fix(half, {x}, FALSE) : x \in {y \in attr[a][half] \ AsksFor(half) : y[1] \notin Keeps}}
Survey(a) ==
  /\ pc[a] = "survey"
  /\ LET differences == UNION {Missing(a, h) \cup Surplus(a, h) : h \in Half}
     IN /\ fix' = [fix EXCEPT ![a] = differences]
        /\ attr' = [attr EXCEPT ![a] = Unread]
        /\ pc' = [pc EXCEPT ![a] = IF differences = {} THEN "report" ELSE "register"]
  /\ UNCHANGED <<gpoVars, editorVars, number, noteVars, clientVars>>

---------------------------------------------------------------------------
(* A remote call fails, or its answer is lost: a save ends in an error, a  *)
(* rename swallows it.  A write to SYSVOL that replaces or overwrites the  *)
(* file may leave it removed or empty.                                     *)
Fail(a) ==
  /\ IF task[a].do = "edit"
       THEN /\ pc' = [pc EXCEPT ![a] = "failed"]
            /\ last' = [last EXCEPT ![task[a].file] = "failed"]
       ELSE /\ pc' = [pc EXCEPT ![a] = "idle"]
            /\ UNCHANGED last
  /\ fix' = [fix EXCEPT ![a] = {}] /\ attr' = [attr EXCEPT ![a] = Unread]
  /\ number' = [number EXCEPT ![a] = 0]
  /\ new' = [new EXCEPT ![a] = {}] /\ changed' = [changed EXCEPT ![a] = FALSE]
  /\ UNCHANGED <<version, registered, task, expect, view, saves, clientVars>>

Break(a) ==
  /\ "call" \in Failing /\ Busy(a) /\ Fail(a)
  /\ whole' = (whole /\ task[a].do # "edit")
  /\ UNCHANGED <<ini, files>>

LoseFile(a) ==
  /\ "file" \in Failing
  /\ pc[a] = "write" /\ files[task[a].file] # None /\ Fail(a)
  /\ \E c \in {None, {}} : files' = [files EXCEPT ![task[a].file] = c]
  /\ whole' = FALSE
  /\ UNCHANGED ini

LoseIni(a) ==
  /\ "file" \in Failing
  /\ pc[a] \in {"ini", "renameWrite"} /\ ini # None /\ Fail(a)
  /\ ini' \in {None, 0}
  /\ whole' = FALSE
  /\ UNCHANGED files

(* External: a client looks at the version of a half and fetches it.       *)
Poll(half) ==
  /\ at[half] # WordOf(half, version)
  /\ at' = [at EXCEPT ![half] = WordOf(half, version)]
  /\ got' = [f \in File |-> IF f.half = half THEN files[f] ELSE got[f]]
  /\ UNCHANGED <<gpoVars, pc, editorVars, stepVars, noteVars>>

Step(a) ==
  \/ Read(a) \/ Write(a) \/ Count(a) \/ RegRead(a) \/ (\E j \in fix[a] : RegWrite(a, j))
  \/ BumpRead(a) \/ BumpWrite(a) \/ IniWrite(a) \/ Report(a)
  \/ RenameWrite(a) \/ Survey(a)
Next ==
  \/ \E a \in Admin :
       \/ \E f \in File : Open(a, f)
       \/ Load(a)
       \/ \E e \in Entry, wanted \in BOOLEAN : Start(a, e, wanted) \/ Conflict(a, e, wanted)
       \/ Step(a)
       \/ Rename(a) \/ Reconcile(a)
       \/ Break(a) \/ LoseFile(a) \/ LoseIni(a)
  \/ \E h \in Half : Poll(h)

Spec == Init /\ [][Next]_vars
(* A worker runs what was submitted to it, and clients refresh.            *)
Fairness ==
  /\ \A a \in Admin : WF_vars(Step(a))
  /\ \A h \in Half : WF_vars(Poll(h))
LiveSpec == Spec /\ Fairness

---------------------------------------------------------------------------
(* Properties.                                                             *)
Settled(f) == last[f] \in {"none", "done"}
Registered(f) == Ext(f) \in registered[f.half]
InUse(f) == \E g \in Sharing(f) : Content(files[g]) # {}
ClientDue(f) == at[f.half] # WordOf(f.half, version) \/ got[f] = files[f]

(* A save that answered "changed" leaves the same number in the directory  *)
(* and in GPT.INI, whatever failed before it: bump_version writes the      *)
(* number, it does not advance each copy.                                  *)
HalvesAgree == Quiet /\ whole => ini = version

(* A client whose half of the version number is current has the content of *)
(* every file whose last save was answered: no answered change is one      *)
(* nobody will fetch.                                                      *)
ChangedIsFetched == Quiet => \A f \in File : Settled(f) => ClientDue(f)

(* Once every file that shares an extension is settled, the extension is   *)
(* registered when there is content, and not when there is none, except    *)
(* where the editors never unregister; administrative templates repair     *)
(* theirs even when a save finds nothing to write.                         *)
RegistrationFollows ==
  Quiet => \A f \in File :
    /\ Understood(f)
    /\ \A g \in Sharing(f) : Settled(g) \/ (g.kind = "admx" /\ last[g] = "again")
    => /\ InUse(f) => Registered(f)
       /\ Registered(f) => InUse(f) \/ f.kind \in NeverUnregistered

(* A save finds in the file exactly what its editor showed: the version    *)
(* compared at the beginning guards the content written at the end.        *)
EditorSawIt == \A a \in Admin : pc[a] = "write" => files[task[a].file] = view[a]

(* Nothing unregisters the security extension: a client has to run it once *)
(* more to revert what it had applied.                                     *)
SecurityKept ==
  \A h \in Half : \A x \in registered[h] : x[1] = "security" => x \in registered'[h]

(* An extension appears in the list or leaves it only by an operation that *)
(* is about this extension: the rest of the list is kept in place.         *)
OnlyAbout ==
  \A h \in Half : \A x \in registered[h] \cup registered'[h] :
    (x \in registered[h]) # (x \in registered'[h])
      => \E a \in Admin : \E j \in fix[a] :
           pc[a] = "regWrite" /\ j.half = h /\ x \in j.exts /\ j.present = (x \in registered'[h])

(* The list changes only by what is asked of one extension, and one that   *)
(* has to stay for the clients' sake stays.                                *)
OnlyItsOwn == [][OnlyAbout /\ SecurityKept]_vars

(* Nothing unregisters an extension whose editor never does.               *)
NeverUnregisteredKept == [][\A h \in Half : \A x \in registered[h] :
                              x[1] \in NeverUnregistered => x \in registered'[h]]_vars

(* What is unregistered has nothing behind it: an extension that applies   *)
(* content of the half stays in the list.                                  *)
InUseKept ==
  [][\A f \in File : f.kind # "vgp" /\ Registered(f) /\ Content(files[f]) # {}
       => Ext(f) \in registered'[f.half]]_vars

(* A save that is repeated after a failure and answered "unchanged" leaves *)
(* nothing for the clients to miss.                                        *)
RepeatedIsFetched == Quiet => \A f \in File : last[f] = "again" => ClientDue(f)

(* A repeated save leaves the scripts extension registered exactly when    *)
(* the half has a script.                                                  *)
RepeatedIsRegistered ==
  Quiet => \A f \in File :
    f.kind = "scripts" /\ (\A g \in Sharing(f) : last[g] # "failed")
      => (Registered(f) <=> InUse(f))

(* After an answered save every client comes to have the file, or somebody *)
(* saves again.                                                            *)
ClientsCatchUp ==
  \A f \in File : (Quiet /\ Settled(f)) ~> (got[f] = files[f] \/ ~Quiet \/ ~Settled(f))
=============================================================================
