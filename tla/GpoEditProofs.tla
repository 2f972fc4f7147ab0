--------------------------- MODULE GpoEditProofs ---------------------------
(* Theorems about GpoEdit for any policy and any number of editors.        *)
EXTENDS GpoEdit, TLAPS

VersionNumber == 0..(Word * Word - 1)
AWord == 0..(Word - 1)

(* Packing two words and taking one out again are inverse to each other.   *)
LEMMA Words ==
  ASSUME NEW m \in Int, NEW u \in Int
  PROVE  /\ Combine(m, u) \in VersionNumber
         /\ m \in AWord /\ u \in AWord => /\ WordOf("Machine", Combine(m, u)) = m
                                          /\ WordOf("User", Combine(m, u)) = u
<1> DEFINE n == m % Word  w == u % Word
<1>1. Word \in Nat /\ Word > 0
  BY ConstantsAssumption
<1>2. n \in AWord /\ w \in AWord /\ (m \in AWord => n = m) /\ (u \in AWord => w = u)
  BY <1>1 DEF AWord
<1> HIDE DEF n, w
<1>3. w * Word + n \in VersionNumber
  BY <1>1, <1>2 DEF VersionNumber, AWord
<1>4. (w * Word + n) % Word = n
  BY <1>1, <1>2 DEF AWord
<1>5. ((w * Word + n) \div Word) % Word = w
  <2>1. (w * Word + n) \div Word = w
    BY <1>1, <1>2 DEF AWord
  <2> QED BY <2>1, <1>1, <1>2 DEF AWord
<1> USE DEF n, w
<1> QED BY <1>2, <1>3, <1>4, <1>5 DEF Combine, WordOf

(* A word taken out of any number is a word.                               *)
LEMMA WordType ==
  ASSUME NEW v \in Int, NEW h \in Half
  PROVE  WordOf(h, v) \in AWord
<1>1. Word \in Nat /\ Word > 0
  BY ConstantsAssumption
<1>2. v \div Word \in Int
  BY <1>1
<1> QED BY <1>1, <1>2 DEF WordOf, AWord

(* Advancing a version advances the word of its half, modulo 2^16, and     *)
(* leaves the other one alone.                                             *)
LEMMA BumpedWords ==
  ASSUME NEW v \in Int, NEW h \in Half
  PROVE  /\ Bumped(h, v) \in VersionNumber
         /\ WordOf(h, Bumped(h, v)) = (WordOf(h, v) + 1) % Word
         /\ \A g \in Half \ {h} : WordOf(g, Bumped(h, v)) = WordOf(g, v)
<1> DEFINE m == WordOf("Machine", v)  u == WordOf("User", v)
           m1 == (m + 1) % Word       u1 == (u + 1) % Word
<1>1. Word \in Nat /\ Word > 0
  BY ConstantsAssumption
<1>2. m \in AWord /\ u \in AWord
  BY WordType DEF Half
<1> HIDE DEF m, u
<1>3. m1 \in AWord /\ u1 \in AWord /\ m \in Int /\ u \in Int /\ m1 \in Int /\ u1 \in Int
  BY <1>1, <1>2 DEF AWord
<1> HIDE DEF m1, u1
<1>4. /\ Combine(m1, u) \in VersionNumber /\ Combine(m, u1) \in VersionNumber
      /\ WordOf("Machine", Combine(m1, u)) = m1 /\ WordOf("User", Combine(m1, u)) = u
      /\ WordOf("Machine", Combine(m, u1)) = m /\ WordOf("User", Combine(m, u1)) = u1
  BY <1>2, <1>3, Words
<1>5. CASE h = "Machine"
  <2>1. Bumped(h, v) = Combine(m1, u)
    BY <1>5 DEF Bumped, m, u, m1
  <2> QED BY <1>4, <1>5, <2>1 DEF Half, m, u, m1
<1>6. CASE h = "User"
  <2>1. Bumped(h, v) = Combine(m, u1)
    BY <1>6 DEF Bumped, m, u, u1
  <2> QED BY <1>4, <1>6, <2>1 DEF Half, m, u, u1
<1> QED BY <1>5, <1>6 DEF Half

---------------------------------------------------------------------------
(* The helpers of the actions return what the variables hold.              *)
LEMMA ContentType ==
  ASSUME NEW c \in FileContent, NEW t \in Task
  PROVE  Content(c) \in SUBSET Entry /\ With(c, t) \in SUBSET Entry
  BY DEF FileContent, Content, With, Task

(* A file of the policy has a half and an extension.                       *)
LEMMA ExtOfFile ==
  ASSUME NEW f \in File
  PROVE  Ext(f) \in ExtType /\ f.half \in Half /\ f.kind \in Kind
  BY ConstantsAssumption DEF Ext, ExtType, FileType

(* What the content asks for are extensions.                               *)
LEMMA AsksForType ==
  ASSUME NEW h \in Half
  PROVE  AsksFor(h) \in SUBSET ExtType /\ Foreign(h) \in SUBSET ExtType
  BY ExtOfFile DEF AsksFor, Foreign

(* What a save registers is a change of registrations.                     *)
LEMMA EndsType ==
  ASSUME NEW f \in File, NEW n
  PROVE  Ends(f, n) \in FixType
<1>1. ASSUME NEW p \in BOOLEAN PROVE Fix(f.half, {Ext(f)}, p) \in FixType
  BY ExtOfFile DEF Fix, FixType
<1>2. (f.kind \in NeverUnregistered \/ n # {}) \in BOOLEAN
  BY Zenon
<1> QED BY <1>1, <1>2, Zenon DEF Ends

(* An updated list of extensions is one.                                   *)
LEMMA UpdatedType ==
  ASSUME NEW value \in SUBSET ExtType, NEW j \in FixType
  PROVE  Updated(value, j) \in SUBSET ExtType
  BY DEF Updated, FixType

(* Differences are changes of registrations.                               *)
LEMMA DifferencesType ==
  ASSUME TypeOK, NEW a \in Admin, NEW h \in Half
  PROVE  Missing(a, h) \in SUBSET FixType /\ Surplus(a, h) \in SUBSET FixType
<1>1. attr[a][h] \in SUBSET ExtType
  BY DEF TypeOK, StepType
<1>2. Missing(a, h) \in SUBSET FixType
  BY AsksForType DEF Missing, Fix, FixType
<1>3. ASSUME NEW x \in ExtType PROVE Fix(h, {x}, FALSE) \in FixType
  BY DEF Fix, FixType
<1>4. Surplus(a, h) \in SUBSET FixType
  BY <1>1, <1>3 DEF Surplus
<1> QED BY <1>2, <1>4

---------------------------------------------------------------------------
(* Type correctness: every action keeps the types of what it changes.      *)
LEMMA Frames ==
  ASSUME TypeOK
  PROVE  /\ UNCHANGED gpoVars => GpoType'
         /\ UNCHANGED <<pc, editorVars>> => EditorType'
         /\ UNCHANGED stepVars => StepType'
         /\ UNCHANGED <<noteVars, clientVars>> => NoteType'
  BY DEF TypeOK, GpoType, EditorType, StepType, NoteType, gpoVars, editorVars, stepVars,
         noteVars, clientVars

(* The control points an action moves between.                             *)
Steps == Resting \cup SaveSteps \cup {"survey", "renameWrite"}
(* The notes about a file's last save stay well formed.                    *)
LEMMA AnswerType ==
  ASSUME TypeOK, NEW f \in File, NEW r, Answer(f, r)
  PROVE  last' \in [File -> {"none", "done", "failed", "again"}]
  BY DEF TypeOK, NoteType, Answer

(* Opening an editor.                                                      *)
LEMMA OpenType ==
  ASSUME TypeOK, NEW a \in Admin, NEW f \in File, Open(a, f)
  PROVE  TypeOK'
<1>1. GpoType'
  BY Frames DEF Open
<1>2. EditorType'
  <2> DEFINE t == [task[a] EXCEPT !.do = "edit", !.file = f]
  <2>1. task' = [task EXCEPT ![a] = t]
    <3>1. task' = [task EXCEPT ![a].do = "edit", ![a].file = f]
      BY DEF Open
    <3> QED BY <3>1 DEF TypeOK, EditorType
  <2>2. t \in Task
    <3>1. task[a] \in Task
      BY DEF TypeOK, EditorType
    <3> QED BY <3>1 DEF Task
  <2>3. task' \in [Admin -> Task]
    BY <2>1, <2>2 DEF TypeOK, EditorType
  <2>4. pc' \in [Admin -> Steps]
    BY DEF Open, TypeOK, EditorType, Steps, Resting
  <2>5. expect' \in [Admin -> 0..(Word * Word - 1)] /\ view' \in [Admin -> FileContent]
    BY DEF Open, TypeOK, GpoType, EditorType, FileContent
  <2> QED BY <2>3, <2>4, <2>5 DEF Open, TypeOK, EditorType, Steps
<1>3. StepType'
  BY Frames DEF Open
<1>4. NoteType'
  BY Frames DEF Open
<1> QED BY <1>1, <1>2, <1>3, <1>4 DEF TypeOK

(* Loading the file.                                                       *)
LEMMA LoadType ==
  ASSUME TypeOK, NEW a \in Admin, Load(a)
  PROVE  TypeOK'
<1>1. GpoType'
  BY Frames DEF Load
<1>2. EditorType'
  BY DEF Load, TypeOK, GpoType, EditorType, Task, Resting
<1>3. StepType'
  BY Frames DEF Load
<1>4. NoteType'
  BY Frames DEF Load
<1> QED BY <1>1, <1>2, <1>3, <1>4 DEF TypeOK

(* Beginning a save, or refusing it.                                       *)
LEMMA StartType ==
  ASSUME TypeOK, NEW a \in Admin, NEW e \in Entry, NEW wanted \in BOOLEAN,
         Start(a, e, wanted) \/ Conflict(a, e, wanted)
  PROVE  TypeOK'
<1>1. GpoType'
  BY Frames DEF Start, Conflict
<1>2. EditorType'
  <2> DEFINE t == [task[a] EXCEPT !.entry = e, !.wanted = wanted]
  <2>1. task' = [task EXCEPT ![a] = t]
    <3>1. task' = [task EXCEPT ![a].entry = e, ![a].wanted = wanted]
      BY DEF Start, Conflict, Chosen
    <3> QED BY <3>1 DEF TypeOK, EditorType
  <2>2. t \in Task
    <3>1. task[a] \in Task
      BY DEF TypeOK, EditorType
    <3> QED BY <3>1 DEF Task
  <2>3. task' \in [Admin -> Task]
    BY <2>1, <2>2 DEF TypeOK, EditorType
  <2>4. pc' \in [Admin -> Steps]
    BY DEF Start, Conflict, TypeOK, EditorType, Steps, Resting, SaveSteps
  <2> QED BY <2>3, <2>4 DEF Start, Conflict, TypeOK, EditorType, Steps
<1>3. StepType'
  BY Frames DEF Start, Conflict
<1>4. NoteType'
  BY ConstantsAssumption DEF Start, Conflict, Chosen, TypeOK, NoteType, clientVars
<1> QED BY <1>1, <1>2, <1>3, <1>4 DEF TypeOK

(* Reading the file again and merging the change.                          *)
LEMMA ReadType ==
  ASSUME TypeOK, NEW a \in Admin, Read(a)
  PROVE  TypeOK'
<1> DEFINE f == task[a].file  c == files[f]
           n == With(IF Replaces(f) THEN view[a] ELSE c, task[a])
<1>1. GpoType'
  BY Frames DEF Read
<1>2. c \in FileContent /\ n \in SUBSET Entry /\ f \in File
  BY ContentType DEF TypeOK, GpoType, EditorType, Task
<1>3. new' \in [Admin -> SUBSET Entry] /\ changed' \in [Admin -> BOOLEAN]
  BY <1>2 DEF Read, ReadUnchanged, TypeOK, EditorType
<1>4. pc' \in [Admin -> Steps]
  BY DEF Read, ReadUnchanged, TypeOK, EditorType, Steps, Resting, SaveSteps
<1>5. EditorType'
  BY <1>3, <1>4 DEF Read, TypeOK, EditorType, Steps
<1>6. fix' \in [Admin -> SUBSET FixType]
  BY <1>2, EndsType DEF Read, ReadUnchanged, TypeOK, StepType
<1>7. StepType'
  BY <1>6 DEF Read, TypeOK, StepType
<1>8. last' \in [File -> {"none", "done", "failed", "again"}]
  BY <1>2, AnswerType DEF Read, ReadUnchanged, TypeOK, NoteType
<1>9. NoteType'
  BY <1>8 DEF Read, TypeOK, NoteType, clientVars
<1> QED BY <1>1, <1>2, <1>3, <1>4, <1>5, <1>6, <1>7, <1>8, <1>9 DEF TypeOK

(* Writing the file.                                                       *)
LEMMA WriteType ==
  ASSUME TypeOK, NEW a \in Admin, Write(a)
  PROVE  TypeOK'
<1>1. new[a] \in SUBSET Entry /\ task[a].file \in File
  BY DEF TypeOK, EditorType, Task
<1>2. GpoType'
  BY <1>1 DEF Write, TypeOK, GpoType, FileContent
<1>3. pc' \in [Admin -> Steps]
  BY <1>1 DEF Write, AfterWrite, TypeOK, EditorType, Steps, Resting, SaveSteps
<1>4. EditorType'
  BY <1>3 DEF Write, TypeOK, EditorType, editorVars, Steps
<1>5. StepType'
  BY <1>1, EndsType DEF Write, TypeOK, StepType
<1>6. NoteType'
  BY Frames DEF Write
<1> QED BY <1>1, <1>2, <1>3, <1>4, <1>5, <1>6 DEF TypeOK

(* Counting the scripts that are left.                                     *)
LEMMA CountType ==
  ASSUME TypeOK, NEW a \in Admin, Count(a)
  PROVE  TypeOK'
<1>1. GpoType'
  BY Frames DEF Count
<1>2. EditorType'
  BY DEF Count, TypeOK, EditorType, editorVars, Resting, SaveSteps
<1>3. task[a].file \in File
  BY DEF TypeOK, EditorType, Task
<1>4. AnyScripts(task[a].file.half) \in BOOLEAN
  BY DEF AnyScripts
<1>5. Fix(task[a].file.half, {Ext(task[a].file)}, AnyScripts(task[a].file.half)) \in FixType
  BY <1>3, <1>4, ExtOfFile DEF Fix, FixType
<1>6. StepType'
  BY <1>5 DEF Count, TypeOK, StepType
<1>7. NoteType'
  BY Frames DEF Count
<1> QED BY <1>1, <1>2, <1>3, <1>4, <1>5, <1>6, <1>7 DEF TypeOK

(* Reading the registrations.                                              *)
LEMMA RegReadType ==
  ASSUME TypeOK, NEW a \in Admin, RegRead(a)
  PROVE  TypeOK'
<1>1. GpoType'
  BY Frames DEF RegRead
<1>2. EditorType'
  BY DEF RegRead, TypeOK, EditorType, editorVars, Resting, SaveSteps
<1>3. StepType'
  BY DEF RegRead, TypeOK, GpoType, StepType
<1>4. NoteType'
  BY Frames DEF RegRead
<1> QED BY <1>1, <1>2, <1>3, <1>4 DEF TypeOK

(* Writing them back.                                                      *)
LEMMA RegWriteType ==
  ASSUME TypeOK, NEW a \in Admin, NEW j \in fix[a], RegWrite(a, j)
  PROVE  TypeOK'
<1>1. j \in FixType /\ j.half \in Half
  BY DEF TypeOK, StepType, FixType
<1>2. Updated(attr[a][j.half], j) \in SUBSET ExtType
  BY <1>1, UpdatedType DEF TypeOK, StepType
<1>3. GpoType'
  BY <1>1, <1>2 DEF RegWrite, TypeOK, GpoType
<1>4. EditorType'
  BY DEF RegWrite, AfterRegister, TypeOK, EditorType, editorVars, Resting, SaveSteps
<1>5. StepType'
  BY DEF RegWrite, TypeOK, StepType, Unread
<1>6. NoteType'
  BY Frames DEF RegWrite
<1> QED BY <1>1, <1>2, <1>3, <1>4, <1>5, <1>6 DEF TypeOK

(* Reading the version number.                                             *)
LEMMA BumpReadType ==
  ASSUME TypeOK, NEW a \in Admin, BumpRead(a)
  PROVE  TypeOK'
<1>1. GpoType'
  BY Frames DEF BumpRead
<1>2. EditorType'
  BY DEF BumpRead, TypeOK, EditorType, editorVars, Resting, SaveSteps
<1>3. StepType'
  BY DEF BumpRead, TypeOK, GpoType, StepType
<1>4. NoteType'
  BY Frames DEF BumpRead
<1> QED BY <1>1, <1>2, <1>3, <1>4 DEF TypeOK

(* Advancing it in the directory.                                          *)
LEMMA BumpWriteType ==
  ASSUME TypeOK, NEW a \in Admin, BumpWrite(a)
  PROVE  TypeOK'
<1>1. task[a].file.half \in Half /\ number[a] \in Int
  BY ExtOfFile DEF TypeOK, EditorType, StepType, Task
<1>2. Bumped(task[a].file.half, number[a]) \in 0..(Word * Word - 1)
  BY <1>1, BumpedWords DEF VersionNumber
<1>3. Bumped(task[a].file.half, number[a]) \in Int
  BY <1>2
<1>4. GpoType'
  BY <1>2 DEF BumpWrite, TypeOK, GpoType
<1>5. EditorType'
  BY DEF BumpWrite, TypeOK, EditorType, editorVars, Resting, SaveSteps
<1>6. StepType'
  BY <1>3 DEF BumpWrite, TypeOK, StepType
<1>7. NoteType'
  BY Frames DEF BumpWrite
<1> QED BY <1>1, <1>2, <1>3, <1>4, <1>5, <1>6, <1>7 DEF TypeOK

(* Writing GPT.INI, for a save or for a rename.                            *)
LEMMA IniWriteType ==
  ASSUME TypeOK, NEW a \in Admin, IniWrite(a) \/ RenameWrite(a)
  PROVE  TypeOK'
<1>1. GpoType'
  BY DEF IniWrite, NewIni, RenameWrite, TypeOK, GpoType, StepType
<1>2. EditorType'
  BY DEF IniWrite, RenameWrite, TypeOK, EditorType, editorVars, Resting, SaveSteps
<1>3. StepType'
  BY DEF IniWrite, RenameWrite, TypeOK, StepType
<1>4. NoteType'
  BY Frames DEF IniWrite, RenameWrite
<1> QED BY <1>1, <1>2, <1>3, <1>4 DEF TypeOK

(* Answering.                                                              *)
LEMMA ReportType ==
  ASSUME TypeOK, NEW a \in Admin, Report(a)
  PROVE  TypeOK'
<1>1. GpoType'
  BY Frames DEF Report
<1>2. EditorType'
  BY DEF Report, TypeOK, EditorType, Resting, SaveSteps
<1>3. StepType'
  BY DEF Report, TypeOK, StepType, Unread
<1>4. last' \in [File -> {"none", "done", "failed", "again"}]
  BY AnswerType DEF Report, TypeOK, EditorType, NoteType, Task
<1>5. whole' \in BOOLEAN
  BY DEF Report, TypeOK, EditorType, NoteType
<1>6. NoteType'
  BY <1>4, <1>5 DEF Report, TypeOK, NoteType, clientVars
<1> QED BY <1>1, <1>2, <1>3, <1>4, <1>5, <1>6 DEF TypeOK

(* Beginning a rename.                                                     *)
LEMMA RenameType ==
  ASSUME TypeOK, NEW a \in Admin, Rename(a)
  PROVE  TypeOK'
<1>1. GpoType'
  BY Frames DEF Rename
<1>2. EditorType'
  BY DEF Rename, TypeOK, EditorType, Task, Resting, SaveSteps
<1>3. StepType'
  BY DEF Rename, TypeOK, GpoType, StepType
<1>4. NoteType'
  BY Frames DEF Rename
<1> QED BY <1>1, <1>2, <1>3, <1>4 DEF TypeOK

(* Beginning to reconcile.                                                 *)
LEMMA ReconcileType ==
  ASSUME TypeOK, NEW a \in Admin, Reconcile(a)
  PROVE  TypeOK'
<1>1. GpoType'
  BY Frames DEF Reconcile
<1>2. EditorType'
  BY DEF Reconcile, TypeOK, EditorType, Task, Resting, SaveSteps
<1>3. StepType'
  BY DEF Reconcile, TypeOK, GpoType, StepType
<1>4. NoteType'
  BY Frames DEF Reconcile
<1> QED BY <1>1, <1>2, <1>3, <1>4 DEF TypeOK

(* Comparing registrations and content.                                    *)
LEMMA SurveyType ==
  ASSUME TypeOK, NEW a \in Admin, Survey(a)
  PROVE  TypeOK'
<1>1. GpoType'
  BY Frames DEF Survey
<1>2. EditorType'
  BY DEF Survey, TypeOK, EditorType, editorVars, Resting, SaveSteps
<1>3. UNION {Missing(a, h) \cup Surplus(a, h) : h \in Half} \in SUBSET FixType
  BY DifferencesType
<1>4. StepType'
  BY <1>3 DEF Survey, TypeOK, StepType, Unread
<1>5. NoteType'
  BY Frames DEF Survey
<1> QED BY <1>1, <1>2, <1>3, <1>4, <1>5 DEF TypeOK

(* Failing, with or without the file that was being written.               *)
LEMMA FailType ==
  ASSUME TypeOK, NEW a \in Admin, Break(a) \/ LoseFile(a) \/ LoseIni(a)
  PROVE  TypeOK'
<1>1. Fail(a) /\ task[a].file \in File
  BY DEF Break, LoseFile, LoseIni, TypeOK, EditorType, Task
<1>2. version' = version /\ registered' = registered
  BY <1>1 DEF Fail
<1>3. GpoType'
  BY <1>1, <1>2 DEF Break, LoseFile, LoseIni, TypeOK, GpoType, FileContent
<1>4. EditorType'
  BY <1>1 DEF Fail, TypeOK, EditorType, Resting, SaveSteps
<1>5. StepType'
  BY <1>1 DEF Fail, TypeOK, StepType, Unread
<1>6. whole' \in BOOLEAN
  BY DEF Break, LoseFile, LoseIni, TypeOK, NoteType
<1>7. NoteType'
  BY <1>1, <1>6 DEF Fail, TypeOK, NoteType, clientVars
<1> QED BY <1>1, <1>2, <1>3, <1>4, <1>5, <1>6, <1>7 DEF TypeOK

(* A client's refresh.                                                     *)
LEMMA PollType ==
  ASSUME TypeOK, NEW h \in Half, Poll(h)
  PROVE  TypeOK'
<1>1. GpoType'
  BY Frames DEF Poll
<1>2. EditorType'
  BY Frames DEF Poll
<1>3. StepType'
  BY Frames DEF Poll
<1>4. WordOf(h, version) \in 0..(Word - 1)
  BY WordType DEF TypeOK, GpoType, AWord
<1>5. NoteType'
  BY <1>4 DEF Poll, TypeOK, GpoType, NoteType, noteVars
<1> QED BY <1>1, <1>2, <1>3, <1>4, <1>5 DEF TypeOK

(* The first state is well typed.                                          *)
LEMMA InitType == Init => TypeOK
<1> SUFFICES ASSUME Init PROVE TypeOK
  OBVIOUS
<1>1. \A h \in Half : WordOf(h, version) \in 0..(Word - 1)
  BY WordType, ConstantsAssumption DEF Init, AWord
<1>2. GpoType
  BY ConstantsAssumption, AsksForType DEF Init, GpoType, FileContent
<1>3. (CHOOSE t \in Task : TRUE) \in Task
  <2>1. PICK f \in File, e \in Entry : TRUE
    BY ConstantsAssumption
  <2>2. [do |-> "edit", file |-> f, entry |-> e, wanted |-> TRUE] \in Task
    BY DEF Task
  <2> QED BY <2>2
<1>4. EditorType
  BY <1>3, ConstantsAssumption DEF Init, EditorType, FileContent, Resting
<1>5. StepType
  BY DEF Init, StepType, Unread
<1>6. whole \in BOOLEAN
  BY DEF Init
<1>7. NoteType
  BY <1>1, <1>6, ConstantsAssumption DEF Init, NoteType, FileContent
<1> QED BY <1>2, <1>4, <1>5, <1>7 DEF TypeOK

(* Every step keeps the types.                                             *)
LEMMA NextType == TypeOK /\ [Next]_vars => TypeOK'
<1> SUFFICES ASSUME TypeOK, [Next]_vars PROVE TypeOK'
  OBVIOUS
<1>1. CASE UNCHANGED vars
  BY <1>1, Frames DEF vars, TypeOK
<1>2. ASSUME NEW a \in Admin, Step(a) PROVE TypeOK'
  BY <1>2, ReadType, WriteType, CountType, RegReadType, RegWriteType, BumpReadType,
     BumpWriteType, IniWriteType, ReportType, SurveyType DEF Step
<1>3. ASSUME NEW a \in Admin, NEW f \in File, Open(a, f) PROVE TypeOK'
  BY <1>3, OpenType
<1>4. ASSUME NEW a \in Admin, Load(a) \/ Rename(a) \/ Reconcile(a) PROVE TypeOK'
  BY <1>4, LoadType, RenameType, ReconcileType
<1>5. ASSUME NEW a \in Admin, NEW e \in Entry, NEW wanted \in BOOLEAN,
             Start(a, e, wanted) \/ Conflict(a, e, wanted)
      PROVE TypeOK'
  BY <1>5, StartType
<1>6. ASSUME NEW a \in Admin, Break(a) \/ LoseFile(a) \/ LoseIni(a) PROVE TypeOK'
  BY <1>6, FailType
<1>7. ASSUME NEW h \in Half, Poll(h) PROVE TypeOK'
  BY <1>7, PollType
<1> QED BY <1>1, <1>2, <1>3, <1>4, <1>5, <1>6, <1>7 DEF Next

(* Type correctness for any policy, any number of editors and any kind of  *)
(* failure.                                                                *)
THEOREM TypeCorrect == Spec => []TypeOK
<1> QED BY InitType, NextType, PTL DEF Spec

---------------------------------------------------------------------------
(* Saves that do not overlap: one operation at a time is under way.        *)
OneSave == \A a, b \in Admin : Busy(a) /\ Busy(b) => a = b

(* An operation begins only when nothing is under way, and a step of one   *)
(* does not begin another.                                                 *)
LEMMA OneSaveNext ==
  ASSUME Overlapping = FALSE, TypeOK, TypeOK', OneSave, [Next]_vars
  PROVE  OneSave'
<1>1. CASE UNCHANGED pc
  BY <1>1 DEF OneSave, Busy
<1>2. ASSUME NEW a \in Admin, \A b \in Admin \ {a} : pc'[b] = pc[b],
             Busy(a)' => Busy(a) \/ Free
      PROVE  OneSave'
  BY <1>2 DEF OneSave, Busy, Free
<1>3. ASSUME NEW a \in Admin, Step(a) PROVE OneSave'
  <2>1. \A b \in Admin \ {a} : pc'[b] = pc[b]
    BY <1>3 DEF Step, Read, ReadUnchanged, Write, Count, RegRead, RegWrite, BumpRead, BumpWrite,
                IniWrite, Report, RenameWrite, Survey, TypeOK, EditorType
  <2>2. Busy(a)
    BY <1>3 DEF Step, Read, Write, Count, RegRead, RegWrite, BumpRead, BumpWrite, IniWrite,
                Report, RenameWrite, Survey, Busy, Resting
  <2> QED BY <1>2, <2>1, <2>2
<1>4. ASSUME NEW a \in Admin, NEW f \in File, Open(a, f) PROVE OneSave'
  BY <1>2, <1>4 DEF Open, Busy, Resting, TypeOK, EditorType
<1>5. ASSUME NEW a \in Admin, Load(a) \/ Rename(a) \/ Reconcile(a) PROVE OneSave'
  BY <1>2, <1>5 DEF Load, Rename, Reconcile, Busy, Resting, TypeOK, EditorType
<1>6. ASSUME NEW a \in Admin, NEW e \in Entry, NEW wanted \in BOOLEAN,
             Start(a, e, wanted) \/ Conflict(a, e, wanted)
      PROVE  OneSave'
  BY <1>2, <1>6 DEF Start, Conflict, Chosen, TypeOK, EditorType
<1>7. ASSUME NEW a \in Admin, Break(a) \/ LoseFile(a) \/ LoseIni(a) PROVE OneSave'
  BY <1>2, <1>7 DEF Break, LoseFile, LoseIni, Fail, Busy, Resting, TypeOK, EditorType
<1>8. ASSUME NEW h \in Half, Poll(h) PROVE OneSave'
  BY <1>1, <1>8 DEF Poll
<1> QED BY <1>1, <1>3, <1>4, <1>5, <1>6, <1>7, <1>8 DEF Next, vars

(* It holds throughout.                                                    *)
LEMMA OneAtATime ==
  ASSUME Overlapping = FALSE
  PROVE  Spec => [](TypeOK /\ OneSave)
<1>1. Init => TypeOK /\ OneSave
  BY InitType DEF Init, OneSave, Busy, Resting
<1>2. TypeOK /\ OneSave /\ [Next]_vars => (TypeOK /\ OneSave)'
  BY NextType, OneSaveNext
<1> QED BY <1>1, <1>2, PTL DEF Spec

---------------------------------------------------------------------------
(* The optimistic guard.  As long as saves do not overlap and calls do not *)
(* fail, the version an editor was loaded with, when it is still the       *)
(* policy's, vouches for the content it was loaded with: a save advances   *)
(* the number after it has written and before another one can begin, and   *)
(* the number comes back to no earlier one in fewer than 2^16 saves.       *)

(* How often a number was advanced since FirstVersion, in both words.      *)
Dist(x, y) == IF x >= y THEN x - y ELSE (x - y) + Word
Age(v) == Dist(WordOf("Machine", v), WordOf("Machine", FirstVersion))
        + Dist(WordOf("User", v), WordOf("User", FirstVersion))

(* A save between its file and its version; one that is yet to advance it. *)
Mid(a) == \/ pc[a] \in {"count", "bump", "bumpWrite"}
          \/ pc[a] \in {"register", "regWrite"} /\ AfterRegister(a) = "bump"
Owes(a) == pc[a] \in {"read", "write"} \/ Mid(a)

Editing ==
  \A a \in Admin :
    /\ pc[a] # "failed"
    /\ pc[a] \in {"opening", "editing", "read", "write", "count", "bump", "bumpWrite"}
         => task[a].do = "edit"
    /\ pc[a] = "count" => task[a].file.kind = "scripts"
    /\ pc[a] = "survey" => task[a].do = "reconcile"
AgeInv ==
  /\ Age(version) <= saves
  /\ \A a \in Admin : Owes(a) => Age(version) < saves
  /\ \A a \in Admin : pc[a] \in {"opening", "editing"} => Age(expect[a]) <= Age(version)
CheckedInv ==
  \A a \in Admin : /\ pc[a] \in {"read", "write"} => expect[a] = version
                   /\ pc[a] = "bumpWrite" => number[a] = version
SeenInv ==
  \A a \in Admin :
    /\ pc[a] \in {"editing", "read", "write"} /\ expect[a] = version
    /\ \A b \in Admin : ~Mid(b)
    => view[a] = files[task[a].file]
GuardInv == Editing /\ AgeInv /\ CheckedInv /\ SeenInv

(* What a window shows stays right while neither the content nor the        *)
(* version moves and no save leaves its middle.                            *)
LEMMA SeenFrame ==
  ASSUME SeenInv, version' = version, files' = files, \A b \in Admin : Mid(b) => Mid(b)',
         \A b \in Admin : pc'[b] \in {"editing", "read", "write"} =>
            /\ pc[b] \in {"editing", "read", "write"} /\ expect'[b] = expect[b]
            /\ view'[b] = view[b] /\ task'[b] = task[b]
  PROVE  SeenInv'
BY DEF SeenInv

(* The distance between two words is a number below the word's size.       *)
LEMMA DistType ==
  ASSUME NEW x \in AWord, NEW y \in AWord
  PROVE  /\ Dist(x, y) \in 0..(Word - 1)
         /\ Dist(x, x) = 0
         /\ Dist(x, y) < Word - 1 => Dist((x + 1) % Word, y) = Dist(x, y) + 1
<1>1. Word \in Nat /\ Word > 0
  BY ConstantsAssumption
<1>2. CASE x + 1 < Word
  <2>1. (x + 1) % Word = x + 1
    BY <1>1, <1>2 DEF AWord
  <2> QED BY <1>1, <1>2, <2>1 DEF Dist, AWord
<1>3. CASE x + 1 = Word
  <2>1. (x + 1) % Word = 0
    BY <1>1, <1>3 DEF AWord
  <2> QED BY <1>1, <1>3, <2>1 DEF Dist, AWord
<1> QED BY <1>1, <1>2, <1>3 DEF AWord

(* Advancing a version that was advanced fewer times than a word has       *)
(* values makes it one older.                                              *)
LEMMA AgeLemma ==
  /\ Age(FirstVersion) = 0
  /\ \A v \in Int : Age(v) \in Nat
  /\ \A v \in Int, h \in Half : Age(v) < MaxSaves => Age(Bumped(h, v)) = Age(v) + 1
<1> DEFINE m0 == WordOf("Machine", FirstVersion)  u0 == WordOf("User", FirstVersion)
<1>1. Word \in Nat /\ MaxSaves \in Nat /\ MaxSaves < Word /\ FirstVersion \in Int
  BY ConstantsAssumption
<1>2. m0 \in AWord /\ u0 \in AWord
  BY <1>1, WordType DEF Half
<1>3. ASSUME NEW v \in Int
      PROVE  WordOf("Machine", v) \in AWord /\ WordOf("User", v) \in AWord
  BY WordType DEF Half
<1>4. Age(FirstVersion) = 0
  BY <1>2, DistType DEF Age
<1>5. ASSUME NEW v \in Int PROVE Age(v) \in Nat
  <2>1. /\ Dist(WordOf("Machine", v), m0) \in 0..(Word - 1)
        /\ Dist(WordOf("User", v), u0) \in 0..(Word - 1)
    BY <1>2, <1>3, DistType
  <2> QED BY <1>1, <2>1 DEF Age
<1>6. ASSUME NEW v \in Int, NEW h \in Half, Age(v) < MaxSaves
      PROVE  Age(Bumped(h, v)) = Age(v) + 1
  <2> DEFINE m == WordOf("Machine", v)  u == WordOf("User", v)
             m1 == WordOf("Machine", Bumped(h, v))  u1 == WordOf("User", Bumped(h, v))
  <2>1. m \in AWord /\ u \in AWord
    BY <1>3
  <2>2. /\ Dist(m, m0) \in 0..(Word - 1) /\ Dist(u, u0) \in 0..(Word - 1)
        /\ Dist(m, m0) < Word - 1 => Dist((m + 1) % Word, m0) = Dist(m, m0) + 1
        /\ Dist(u, u0) < Word - 1 => Dist((u + 1) % Word, u0) = Dist(u, u0) + 1
    BY <1>2, <2>1, DistType
  <2>3. Age(v) = Dist(m, m0) + Dist(u, u0) /\ Age(Bumped(h, v)) = Dist(m1, m0) + Dist(u1, u0)
    BY DEF Age
  <2>4. Dist(m, m0) < Word - 1 /\ Dist(u, u0) < Word - 1
    BY <1>1, <1>6, <2>2, <2>3
  <2>5. CASE h = "Machine"
    <3>1. m1 = (m + 1) % Word /\ u1 = u
      BY <2>5, BumpedWords DEF Half
    <3> QED BY <1>1, <2>2, <2>3, <2>4, <3>1
  <2>6. CASE h = "User"
    <3>1. u1 = (u + 1) % Word /\ m1 = m
      BY <2>6, BumpedWords DEF Half
    <3> QED BY <1>1, <2>2, <2>3, <2>4, <3>1
  <2> QED BY <2>5, <2>6 DEF Half
<1> QED BY <1>4, <1>5, <1>6

(* The guard holds in the first state.                                     *)
LEMMA GuardInit == Init /\ TypeOK => GuardInv
  BY AgeLemma, ConstantsAssumption
  DEF Init, GuardInv, Editing, AgeInv, CheckedInv, SeenInv, Owes, Mid

(* Opening and loading: the version is taken before the content.           *)
LEMMA GuardOpen ==
  ASSUME Overlapping = FALSE, TypeOK, TypeOK', OneSave, OneSave', GuardInv, NEW a \in Admin,
         NEW f \in File,
         Open(a, f)
  PROVE  GuardInv'
<1>1. Editing'
  BY DEF Open, GuardInv, Editing, Resting, TypeOK, EditorType, Task
<1>2. AgeInv'
  BY AgeLemma DEF Open, GuardInv, Editing, AgeInv, Owes, Mid, AfterRegister, TypeOK,
       GpoType, EditorType, NoteType, gpoVars, noteVars
<1>3. CheckedInv'
  BY DEF Open, GuardInv, OneSave, Busy, Resting, CheckedInv, TypeOK, EditorType, StepType,
       gpoVars, stepVars
<1>4. SeenInv'
  <2>1. \A b \in Admin : Mid(b)' <=> Mid(b)
    BY DEF Open, Mid, AfterRegister, TypeOK, EditorType
  <2>2. \A b \in Admin \ {a} : /\ pc'[b] = pc[b] /\ task'[b] = task[b]
                              /\ expect'[b] = expect[b] /\ view'[b] = view[b]
    BY DEF Open, TypeOK, EditorType
  <2>3. pc'[a] = "opening" /\ version' = version /\ files' = files
    BY DEF Open, TypeOK, EditorType, gpoVars
  <2> QED BY <2>1, <2>2, <2>3 DEF GuardInv, SeenInv
<1> QED BY <1>1, <1>2, <1>3, <1>4 DEF GuardInv

(* Loading the content.                                                    *)
LEMMA GuardLoad ==
  ASSUME Overlapping = FALSE, TypeOK, TypeOK', OneSave, OneSave', GuardInv, NEW a \in Admin,
         Load(a)
  PROVE  GuardInv'
<1>1. Editing'
  BY DEF Load, GuardInv, Editing, Resting, TypeOK, EditorType, Task
<1>2. AgeInv'
  BY AgeLemma DEF Load, GuardInv, Editing, AgeInv, Owes, Mid, AfterRegister, TypeOK,
       GpoType, EditorType, NoteType, gpoVars, noteVars
<1>3. CheckedInv'
  BY DEF Load, GuardInv, OneSave, Busy, Resting, CheckedInv, TypeOK, EditorType, StepType,
       gpoVars, stepVars
<1>4. SeenInv'
  BY DEF Load, GuardInv, OneSave, Busy, Resting, CheckedInv, SeenInv, Mid, AfterRegister,
       TypeOK, EditorType, GpoType, Task, gpoVars
<1> QED BY <1>1, <1>2, <1>3, <1>4 DEF GuardInv

(* Beginning a save: the version is still the loaded one.                  *)
LEMMA GuardStart ==
  ASSUME Overlapping = FALSE, TypeOK, TypeOK', OneSave, OneSave', GuardInv, NEW a \in Admin,
         NEW e \in Entry, NEW wanted \in BOOLEAN,
         Start(a, e, wanted) \/ Conflict(a, e, wanted)
  PROVE  GuardInv'
<1>1. Editing'
  BY DEF Start, Conflict, Chosen, GuardInv, Editing, Resting, TypeOK, EditorType, Task
<1>2. AgeInv'
  BY AgeLemma DEF Start, Conflict, Chosen, GuardInv, Editing, AgeInv, Owes, Mid,
       AfterRegister, TypeOK, GpoType, EditorType, NoteType, gpoVars, noteVars
<1>3. CheckedInv'
  BY DEF Start, Conflict, Chosen, Free, GuardInv, OneSave, Busy, Resting, CheckedInv,
       TypeOK, EditorType, StepType, gpoVars, stepVars
<1>4. SeenInv'
  <2>1. \A b \in Admin : Mid(b)' <=> Mid(b)
    BY DEF Start, Conflict, Chosen, Mid, AfterRegister, TypeOK, EditorType, Resting, Editing,
           GuardInv, Task
  <2>2. /\ \A b \in Admin \ {a} : pc'[b] = pc[b] /\ task'[b] = task[b]
        /\ task'[a].file = task[a].file
        /\ pc[a] = "editing" /\ (pc'[a] = "idle" \/ expect[a] = version)
    BY DEF Start, Conflict, Chosen, TypeOK, EditorType, Task, GuardInv, Editing
  <2>3. UNCHANGED <<expect, view, version, files>>
    BY DEF Start, Conflict, gpoVars
  <2> QED BY <2>1, <2>2, <2>3 DEF GuardInv, SeenInv
<1> QED BY <1>1, <1>2, <1>3, <1>4 DEF GuardInv

(* Reading the file once more.                                             *)
LEMMA GuardRead ==
  ASSUME Overlapping = FALSE, TypeOK, TypeOK', OneSave, OneSave', GuardInv, NEW a \in Admin,
         Read(a)
  PROVE  GuardInv'
<1>1. Editing'
  BY DEF Read, ReadUnchanged, GuardInv, Editing, Resting, TypeOK, EditorType, Task
<1>2. AgeInv'
  BY AgeLemma DEF Read, ReadUnchanged, GuardInv, Editing, AgeInv, Owes, Mid,
       AfterRegister, TypeOK, GpoType, EditorType, NoteType, gpoVars, noteVars
<1>3. CheckedInv'
  BY DEF Read, ReadUnchanged, GuardInv, OneSave, Busy, Resting, CheckedInv, TypeOK,
       EditorType, StepType, gpoVars, stepVars
<1>4. SeenInv'
  BY DEF Read, ReadUnchanged, GuardInv, OneSave, Busy, Resting, CheckedInv, SeenInv, Mid,
       AfterRegister, TypeOK, EditorType, GpoType, Task, gpoVars
<1> QED BY <1>1, <1>2, <1>3, <1>4 DEF GuardInv

(* Writing the file: from here on the save owes an advanced version.       *)
LEMMA GuardWrite ==
  ASSUME Overlapping = FALSE, TypeOK, TypeOK', OneSave, OneSave', GuardInv, NEW a \in Admin,
         Write(a)
  PROVE  GuardInv'
<1>1. Editing'
  BY DEF Write, AfterWrite, GuardInv, Editing, Resting, TypeOK, EditorType, Task,
       editorVars
<1>2. AgeInv'
  BY AgeLemma DEF Write, AfterWrite, GuardInv, Editing, AgeInv, Owes, Mid, AfterRegister,
       TypeOK, GpoType, EditorType, NoteType, gpoVars, noteVars, editorVars
<1>3. CheckedInv'
  BY DEF Write, AfterWrite, GuardInv, OneSave, Busy, Resting, CheckedInv, TypeOK,
       EditorType, StepType, gpoVars, stepVars, editorVars
<1>4. SeenInv'
  <2>1. Mid(a)'
    BY DEF Write, AfterWrite, Mid, AfterRegister, TypeOK, EditorType, Task, GuardInv, Editing,
           editorVars
  <2> QED BY <2>1 DEF SeenInv
<1> QED BY <1>1, <1>2, <1>3, <1>4 DEF GuardInv

(* Counting the scripts that are left.                                     *)
LEMMA GuardCount ==
  ASSUME Overlapping = FALSE, TypeOK, TypeOK', OneSave, OneSave', GuardInv, NEW a \in Admin,
         Count(a)
  PROVE  GuardInv'
<1>1. Editing'
  BY DEF Count, GuardInv, Editing, Resting, TypeOK, EditorType, Task, editorVars
<1>2. AgeInv'
  BY AgeLemma DEF Count, GuardInv, Editing, AgeInv, Owes, Mid, AfterRegister, TypeOK,
       GpoType, EditorType, NoteType, gpoVars, noteVars, editorVars
<1>3. CheckedInv'
  BY DEF Count, GuardInv, OneSave, Busy, Resting, CheckedInv, TypeOK, EditorType,
       StepType, gpoVars, stepVars, editorVars
<1>4. SeenInv'
  <2>1. Mid(a)'
    BY DEF Count, Mid, AfterRegister, TypeOK, EditorType, Task, GuardInv, Editing, editorVars
  <2> QED BY <2>1 DEF SeenInv
<1> QED BY <1>1, <1>2, <1>3, <1>4 DEF GuardInv

(* Registering, before the version is advanced or after.                   *)
LEMMA GuardRegRead ==
  ASSUME Overlapping = FALSE, TypeOK, TypeOK', OneSave, OneSave', GuardInv, NEW a \in Admin,
         RegRead(a)
  PROVE  GuardInv'
<1>1. Editing'
  BY DEF RegRead, GuardInv, Editing, Resting, TypeOK, EditorType, Task, editorVars
<1>2. AgeInv'
  BY AgeLemma DEF RegRead, GuardInv, Editing, AgeInv, Owes, Mid, AfterRegister, TypeOK,
       GpoType, EditorType, NoteType, gpoVars, noteVars, editorVars
<1>3. CheckedInv'
  BY DEF RegRead, GuardInv, OneSave, Busy, Resting, CheckedInv, TypeOK, EditorType,
       StepType, gpoVars, stepVars, editorVars
<1>4. SeenInv'
  <2>1. \A b \in Admin : Mid(b) => Mid(b)'
    BY DEF RegRead, Mid, AfterRegister, TypeOK, EditorType, Task, GuardInv, Editing, editorVars
  <2>2. \A b \in Admin : pc'[b] \in {"editing", "read", "write"} =>
           /\ pc[b] \in {"editing", "read", "write"} /\ expect'[b] = expect[b]
           /\ view'[b] = view[b] /\ task'[b] = task[b]
    BY DEF RegRead, AfterRegister, TypeOK, EditorType, editorVars
  <2>3. version' = version /\ files' = files
    BY DEF RegRead, gpoVars
  <2> QED BY <2>1, <2>2, <2>3, SeenFrame DEF GuardInv
<1> QED BY <1>1, <1>2, <1>3, <1>4 DEF GuardInv

(* Writing the registrations back.                                         *)
LEMMA GuardRegWrite ==
  ASSUME Overlapping = FALSE, TypeOK, TypeOK', OneSave, OneSave', GuardInv, NEW a \in Admin,
         NEW j \in fix[a],
         RegWrite(a, j)
  PROVE  GuardInv'
<1>1. Editing'
  BY DEF RegWrite, AfterRegister, GuardInv, Editing, Resting, TypeOK, EditorType, Task,
       editorVars
<1>2. AgeInv'
  BY AgeLemma DEF RegWrite, GuardInv, Editing, AgeInv, Owes, Mid, AfterRegister, TypeOK,
       GpoType, EditorType, NoteType, gpoVars, noteVars, editorVars
<1>3. CheckedInv'
  BY DEF RegWrite, AfterRegister, GuardInv, OneSave, Busy, Resting, CheckedInv, TypeOK,
       EditorType, StepType, gpoVars, stepVars, editorVars
<1>4. SeenInv'
  <2>1. \A b \in Admin : Mid(b) => Mid(b)'
    BY DEF RegWrite, Mid, AfterRegister, TypeOK, EditorType, Task, GuardInv, Editing, editorVars
  <2>2. \A b \in Admin : pc'[b] \in {"editing", "read", "write"} =>
           /\ pc[b] \in {"editing", "read", "write"} /\ expect'[b] = expect[b]
           /\ view'[b] = view[b] /\ task'[b] = task[b]
    BY DEF RegWrite, AfterRegister, TypeOK, EditorType, editorVars
  <2>3. version' = version /\ files' = files
    BY DEF RegWrite, gpoVars
  <2> QED BY <2>1, <2>2, <2>3, SeenFrame DEF GuardInv
<1> QED BY <1>1, <1>2, <1>3, <1>4 DEF GuardInv

(* Reading the version to advance.                                         *)
LEMMA GuardBumpRead ==
  ASSUME Overlapping = FALSE, TypeOK, TypeOK', OneSave, OneSave', GuardInv, NEW a \in Admin,
         BumpRead(a)
  PROVE  GuardInv'
<1>1. Editing'
  BY DEF BumpRead, GuardInv, Editing, Resting, TypeOK, EditorType, Task, editorVars
<1>2. AgeInv'
  BY AgeLemma DEF BumpRead, GuardInv, Editing, AgeInv, Owes, Mid, AfterRegister, TypeOK,
       GpoType, EditorType, NoteType, gpoVars, noteVars, editorVars
<1>3. CheckedInv'
  BY DEF BumpRead, GuardInv, OneSave, Busy, Resting, CheckedInv, TypeOK, EditorType,
       StepType, gpoVars, stepVars, editorVars
<1>4. SeenInv'
  <2>1. \A b \in Admin : Mid(b) => Mid(b)'
    BY DEF BumpRead, Mid, AfterRegister, TypeOK, EditorType, Task, GuardInv, Editing, editorVars
  <2>2. \A b \in Admin : pc'[b] \in {"editing", "read", "write"} =>
           /\ pc[b] \in {"editing", "read", "write"} /\ expect'[b] = expect[b]
           /\ view'[b] = view[b] /\ task'[b] = task[b]
    BY DEF BumpRead, AfterRegister, TypeOK, EditorType, editorVars
  <2>3. version' = version /\ files' = files
    BY DEF BumpRead, gpoVars
  <2> QED BY <2>1, <2>2, <2>3, SeenFrame DEF GuardInv
<1> QED BY <1>1, <1>2, <1>3, <1>4 DEF GuardInv

(* Advancing it: no editor that loaded before has the new number.          *)
LEMMA GuardBumpWrite ==
  ASSUME Overlapping = FALSE, TypeOK, TypeOK', OneSave, OneSave', GuardInv, NEW a \in Admin,
         BumpWrite(a)
  PROVE  GuardInv'
<1>0. Age(version') = Age(version) + 1 /\ Age(version) + 1 <= saves
  <2>1. version' = Bumped(task[a].file.half, version) /\ Age(version) < saves
    BY DEF BumpWrite, GuardInv, CheckedInv, AgeInv, Owes, Mid
  <2>2. task[a].file.half \in Half /\ version \in Int
    BY ExtOfFile DEF TypeOK, GpoType, EditorType, Task
  <2>3. saves \in Nat /\ MaxSaves \in Nat /\ saves <= MaxSaves /\ Age(version) \in Nat
    BY <2>2, AgeLemma, ConstantsAssumption DEF TypeOK, NoteType
  <2> QED BY <2>1, <2>2, <2>3, AgeLemma
<1>1. Editing'
  BY DEF BumpWrite, GuardInv, Editing, Resting, TypeOK, EditorType, Task, editorVars
<1>2. AgeInv'
  <2>1. \A b \in Admin : ~Owes(b)'
    BY DEF BumpWrite, GuardInv, OneSave, Busy, Resting, Owes, Mid, AfterRegister, TypeOK,
           EditorType, editorVars
  <2>2. \A b \in Admin : pc'[b] \in {"opening", "editing"} => Age(expect[b]) <= Age(version)
    BY DEF BumpWrite, TypeOK, EditorType, GuardInv, AgeInv
  <2>3. saves' = saves /\ expect' = expect
    BY DEF BumpWrite, noteVars, editorVars
  <2>4. \A b \in Admin : Age(expect[b]) \in Nat
    BY AgeLemma DEF TypeOK, EditorType
  <2> QED BY <1>0, <2>1, <2>2, <2>3, <2>4, AgeLemma DEF AgeInv, TypeOK, GpoType, NoteType
<1>3. CheckedInv'
  BY DEF BumpWrite, GuardInv, OneSave, Busy, Resting, CheckedInv, TypeOK, EditorType,
       StepType, gpoVars, stepVars, editorVars
<1>4. SeenInv'
  <2>1. ASSUME NEW b \in Admin, pc'[b] \in {"editing", "read", "write"}
        PROVE  expect[b] # version'
    <3>1. pc'[b] = "editing" /\ pc[b] = "editing"
      BY <2>1 DEF BumpWrite, GuardInv, OneSave, Busy, Resting, TypeOK, EditorType
    <3>2. Age(expect[b]) <= Age(version) /\ Age(expect[b]) \in Nat /\ Age(version) \in Nat
      BY <3>1, AgeLemma DEF GuardInv, AgeInv, TypeOK, GpoType, EditorType
    <3> QED BY <1>0, <3>2
  <2> QED BY <2>1 DEF SeenInv, BumpWrite, editorVars
<1> QED BY <1>1, <1>2, <1>3, <1>4 DEF GuardInv

(* Writing GPT.INI and answering.                                          *)
LEMMA GuardReport ==
  ASSUME Overlapping = FALSE, TypeOK, TypeOK', OneSave, OneSave', GuardInv, NEW a \in Admin,
         IniWrite(a) \/ Report(a)
  PROVE  GuardInv'
<1>1. Editing'
  BY DEF IniWrite, Report, GuardInv, Editing, Resting, TypeOK, EditorType, Task,
       editorVars
<1>2. AgeInv'
  BY AgeLemma DEF IniWrite, Report, GuardInv, Editing, AgeInv, Owes, Mid, AfterRegister,
       TypeOK, GpoType, EditorType, NoteType, gpoVars, noteVars, editorVars
<1>3. CheckedInv'
  BY DEF IniWrite, Report, GuardInv, OneSave, Busy, Resting, CheckedInv, TypeOK,
       EditorType, StepType, gpoVars, stepVars, editorVars
<1>4. SeenInv'
  <2>1. \A b \in Admin : Mid(b) => Mid(b)'
    BY DEF IniWrite, Report, Mid, AfterRegister, TypeOK, EditorType, Task, GuardInv, Editing, editorVars
  <2>2. \A b \in Admin : pc'[b] \in {"editing", "read", "write"} =>
           /\ pc[b] \in {"editing", "read", "write"} /\ expect'[b] = expect[b]
           /\ view'[b] = view[b] /\ task'[b] = task[b]
    BY DEF IniWrite, Report, AfterRegister, TypeOK, EditorType, editorVars
  <2>3. version' = version /\ files' = files
    BY DEF IniWrite, Report, gpoVars
  <2> QED BY <2>1, <2>2, <2>3, SeenFrame DEF GuardInv
<1> QED BY <1>1, <1>2, <1>3, <1>4 DEF GuardInv

(* Renaming.                                                               *)
LEMMA GuardRename ==
  ASSUME Overlapping = FALSE, TypeOK, TypeOK', OneSave, OneSave', GuardInv, NEW a \in Admin,
         Rename(a) \/ RenameWrite(a)
  PROVE  GuardInv'
<1>1. Editing'
  BY DEF Rename, RenameWrite, GuardInv, Editing, Resting, TypeOK, EditorType, Task,
       editorVars
<1>2. AgeInv'
  BY AgeLemma DEF Rename, RenameWrite, GuardInv, Editing, AgeInv, Owes, Mid,
       AfterRegister, TypeOK, GpoType, EditorType, NoteType, gpoVars, noteVars, editorVars
<1>3. CheckedInv'
  BY DEF Rename, RenameWrite, Free, GuardInv, OneSave, Busy, Resting, CheckedInv, TypeOK,
       EditorType, StepType, gpoVars, stepVars, editorVars
<1>4. SeenInv'
  <2>1. \A b \in Admin : Mid(b)' <=> Mid(b)
    BY
    DEF Rename, RenameWrite, Mid, AfterRegister, TypeOK, EditorType, editorVars, GuardInv, Editing
  <2>2. \A b \in Admin : /\ pc'[b] \in {"editing", "read", "write"}
                         => pc'[b] = pc[b] /\ task'[b] = task[b]
    BY DEF Rename, RenameWrite, TypeOK, EditorType, editorVars
  <2>3. UNCHANGED <<expect, view, version, files>>
    BY DEF Rename, RenameWrite, gpoVars, editorVars
  <2> QED BY <2>1, <2>2, <2>3 DEF GuardInv, SeenInv
<1> QED BY <1>1, <1>2, <1>3, <1>4 DEF GuardInv

(* Reconciling.                                                            *)
LEMMA GuardReconcile ==
  ASSUME Overlapping = FALSE, TypeOK, TypeOK', OneSave, OneSave', GuardInv, NEW a \in Admin,
         Reconcile(a) \/ Survey(a)
  PROVE  GuardInv'
<1>1. Editing'
  BY DEF Reconcile, Survey, GuardInv, Editing, Resting, TypeOK, EditorType, Task,
       editorVars
<1>2. AgeInv'
  BY AgeLemma DEF Reconcile, Survey, GuardInv, Editing, AgeInv, Owes, Mid, AfterRegister,
       TypeOK, GpoType, EditorType, NoteType, gpoVars, noteVars, editorVars
<1>3. CheckedInv'
  BY DEF Reconcile, Survey, Free, GuardInv, OneSave, Busy, Resting, CheckedInv, TypeOK,
       EditorType, StepType, gpoVars, stepVars, editorVars
<1>4. SeenInv'
  <2>1. \A b \in Admin : Mid(b)' <=> Mid(b)
    BY
    DEF Reconcile, Survey, Mid, AfterRegister, TypeOK, EditorType, editorVars, GuardInv, Editing
  <2>2. \A b \in Admin : /\ pc'[b] \in {"editing", "read", "write"}
                         => pc'[b] = pc[b] /\ task'[b] = task[b]
    BY DEF Reconcile, Survey, TypeOK, EditorType, editorVars
  <2>3. UNCHANGED <<expect, view, version, files>>
    BY DEF Reconcile, Survey, gpoVars, editorVars
  <2> QED BY <2>1, <2>2, <2>3 DEF GuardInv, SeenInv
<1> QED BY <1>1, <1>2, <1>3, <1>4 DEF GuardInv

(* A client's refresh.                                                     *)
LEMMA GuardPoll ==
  ASSUME Overlapping = FALSE, TypeOK, TypeOK', OneSave, OneSave', GuardInv, NEW h \in Half,
         Poll(h)
  PROVE  GuardInv'
<1>1. Editing'
  BY DEF Poll, GuardInv, Editing, Resting, TypeOK, EditorType, Task, editorVars
<1>2. AgeInv'
  BY AgeLemma DEF Poll, GuardInv, Editing, AgeInv, Owes, Mid, AfterRegister, TypeOK,
       GpoType, EditorType, NoteType, gpoVars, noteVars, editorVars
<1>3. CheckedInv'
  BY DEF Poll, GuardInv, OneSave, Busy, Resting, CheckedInv, TypeOK, EditorType, StepType,
       gpoVars, stepVars, editorVars
<1>4. SeenInv'
  <2>1. \A b \in Admin : Mid(b) => Mid(b)'
    BY DEF Poll, Mid, AfterRegister, TypeOK, EditorType, Task, GuardInv, Editing, editorVars
  <2>2. \A b \in Admin : pc'[b] \in {"editing", "read", "write"} =>
           /\ pc[b] \in {"editing", "read", "write"} /\ expect'[b] = expect[b]
           /\ view'[b] = view[b] /\ task'[b] = task[b]
    BY DEF Poll, AfterRegister, TypeOK, EditorType, editorVars
  <2>3. version' = version /\ files' = files
    BY DEF Poll, gpoVars
  <2> QED BY <2>1, <2>2, <2>3, SeenFrame DEF GuardInv
<1> QED BY <1>1, <1>2, <1>3, <1>4 DEF GuardInv

(* Every step keeps the guard when calls do not fail.                      *)
LEMMA GuardNext ==
  ASSUME Overlapping = FALSE, Failing = {}, TypeOK, TypeOK', OneSave, OneSave', GuardInv,
         [Next]_vars
  PROVE  GuardInv'
<1>1. CASE UNCHANGED vars
  BY <1>1 DEF vars, gpoVars, editorVars, stepVars, noteVars, GuardInv, Editing,
              AgeInv, Owes, Mid, AfterRegister, CheckedInv, SeenInv
<1>2. ASSUME NEW a \in Admin, Step(a) PROVE GuardInv'
  <2>1. CASE Read(a) \/ Write(a) \/ Count(a)
    BY <2>1, GuardRead, GuardWrite, GuardCount
  <2>2. CASE RegRead(a)
    BY <2>2, GuardRegRead
  <2>3. CASE \E j \in fix[a] : RegWrite(a, j)
    BY <2>3, GuardRegWrite
  <2>4. CASE BumpRead(a) \/ BumpWrite(a)
    BY <2>4, GuardBumpRead, GuardBumpWrite
  <2>5. CASE IniWrite(a) \/ Report(a)
    BY <2>5, GuardReport
  <2>6. CASE RenameWrite(a) \/ Survey(a)
    BY <2>6, GuardRename, GuardReconcile
  <2> QED BY <1>2, <2>1, <2>2, <2>3, <2>4, <2>5, <2>6 DEF Step
<1>3. ASSUME NEW a \in Admin, NEW f \in File, Open(a, f) PROVE GuardInv'
  BY <1>3, GuardOpen
<1>4. ASSUME NEW a \in Admin, Load(a) \/ Rename(a) \/ Reconcile(a) PROVE GuardInv'
  BY <1>4, GuardLoad, GuardRename, GuardReconcile
<1>5. ASSUME NEW a \in Admin, NEW e \in Entry, NEW wanted \in BOOLEAN,
             Start(a, e, wanted) \/ Conflict(a, e, wanted)
      PROVE  GuardInv'
  BY <1>5, GuardStart
<1>6. \A a \in Admin : ~Break(a) /\ ~LoseFile(a) /\ ~LoseIni(a)
  BY DEF Break, LoseFile, LoseIni
<1>7. ASSUME NEW h \in Half, Poll(h) PROVE GuardInv'
  BY <1>7, GuardPoll
<1> QED BY <1>1, <1>2, <1>3, <1>4, <1>5, <1>6, <1>7 DEF Next

(* What the guard is for: the file a save is about to overwrite is what    *)
(* its editor was loaded with.                                             *)
LEMMA GuardSees == TypeOK /\ OneSave /\ GuardInv => EditorSawIt
<1> SUFFICES ASSUME TypeOK, OneSave, GuardInv, NEW a \in Admin, pc[a] = "write"
             PROVE  files[task[a].file] = view[a]
  BY DEF EditorSawIt
<1>1. Busy(a) /\ expect[a] = version
  BY DEF Busy, Resting, GuardInv, CheckedInv
<1>2. ASSUME NEW b \in Admin PROVE ~Mid(b)
  <2>1. ~Mid(a)
    BY DEF Mid
  <2>2. Mid(b) => Busy(b)
    BY DEF Mid, Busy, Resting
  <2> QED BY <1>1, <2>1, <2>2 DEF OneSave
<1> QED BY <1>1, <1>2 DEF GuardInv, SeenInv

(* No save overwrites what its editor has not shown, for any policy and    *)
(* any number of editors, as long as saves do not overlap and no call      *)
(* fails.                                                                  *)
THEOREM EditorSawItHolds ==
  ASSUME Overlapping = FALSE, Failing = {}
  PROVE  Spec => []EditorSawIt
<1>1. Init => TypeOK /\ GuardInv
  BY InitType, GuardInit
<1>2. /\ TypeOK /\ OneSave /\ TypeOK' /\ OneSave' /\ GuardInv /\ [Next]_vars
      => GuardInv'
  BY GuardNext
<1>3. TypeOK /\ OneSave /\ GuardInv => EditorSawIt
  BY GuardSees
<1>4. Spec => [](TypeOK /\ OneSave)
  BY OneAtATime
<1> QED BY <1>1, <1>2, <1>3, <1>4, PTL DEF Spec

---------------------------------------------------------------------------
(* The two copies of the version.  The number a save writes into GPT.INI   *)
(* is the one the directory holds; only a failure between the two writes   *)
(* parts them, and the next answered save joins them again.                *)
Advanced(a) == \/ pc[a] = "report"
               \/ pc[a] \in {"register", "regWrite"} /\ task[a].file.kind = "admx"
CopyInv ==
  \A a \in Admin :
    /\ pc[a] \in {"opening", "editing", "failed", "read", "write", "count", "bump", "bumpWrite",
                 "ini"}
         => task[a].do = "edit"
    /\ pc[a] = "count" => task[a].file.kind = "scripts"
    /\ pc[a] = "survey" => task[a].do = "reconcile"
    /\ pc[a] = "renameWrite" => task[a].do = "rename" /\ number[a] = ini
    /\ changed[a] => Busy(a) /\ pc[a] # "read" /\ task[a].do = "edit"
    /\ pc[a] = "ini" => number[a] = version
    /\ changed[a] /\ Advanced(a) => ini = version
HalvesInv == CopyInv /\ (whole /\ (\A b \in Admin : pc[b] # "ini") => ini = version)

(* A step of an editor keeps both parts.                                   *)
LEMMA HalvesStep ==
  ASSUME TypeOK, OneSave, OneSave', HalvesInv, NEW a \in Admin, Step(a)
  PROVE  HalvesInv'
<1>1. CASE Read(a)
  BY <1>1 DEF Read, ReadUnchanged, HalvesInv, CopyInv, Advanced, Busy, Resting, TypeOK,
              EditorType, Task, gpoVars
<1>2. CASE Write(a) \/ Count(a)
  BY <1>2 DEF Write, AfterWrite, Count, HalvesInv, CopyInv, Advanced, Busy, Resting, TypeOK,
              EditorType, Task, gpoVars, editorVars, noteVars
<1>3. CASE RegRead(a)
  BY <1>3 DEF RegRead, HalvesInv, CopyInv, Advanced, Busy, Resting, TypeOK, EditorType, gpoVars,
              editorVars, noteVars
<1>4. ASSUME NEW j \in fix[a], RegWrite(a, j) PROVE HalvesInv'
  BY <1>4 DEF RegWrite, AfterRegister, HalvesInv, CopyInv, Advanced, Busy, Resting, TypeOK,
              EditorType, editorVars, noteVars
<1>5. CASE BumpRead(a) \/ BumpWrite(a)
  BY <1>5 DEF BumpRead, BumpWrite, HalvesInv, CopyInv, OneSave, Advanced, Busy, Resting, TypeOK,
              EditorType, StepType, gpoVars, editorVars, noteVars
<1>6. CASE IniWrite(a) \/ RenameWrite(a)
  <2>1. \A b \in Admin : pc[b] = "ini" => b = a
    BY <1>6 DEF IniWrite, RenameWrite, OneSave, Busy, Resting
  <2>2. CopyInv'
    BY <1>6 DEF IniWrite, NewIni, RenameWrite, HalvesInv, CopyInv, OneSave, Advanced, Busy,
                Resting, TypeOK, EditorType, StepType, editorVars
  <2>3. \/ ini' = version
        \/ ini' = ini /\ \A b \in Admin : pc[b] # "ini"
    <3>1. CASE IniWrite(a)
      BY <3>1 DEF IniWrite, NewIni, HalvesInv, CopyInv
    <3>2. CASE RenameWrite(a)
      <4>1. ini' = ini /\ pc[a] = "renameWrite"
        BY <3>2 DEF RenameWrite, HalvesInv, CopyInv
      <4> QED BY <2>1, <4>1
    <3> QED BY <1>6, <3>1, <3>2
  <2>4. version' = version /\ whole' = whole
    BY <1>6 DEF IniWrite, RenameWrite, noteVars
  <2> QED BY <2>2, <2>3, <2>4 DEF HalvesInv
<1>7. CASE Report(a)
  BY <1>7 DEF Report, HalvesInv, CopyInv, Advanced, Busy, Resting, TypeOK, EditorType, gpoVars
<1>8. CASE Survey(a)
  BY <1>8 DEF Survey, HalvesInv, CopyInv, Advanced, Busy, Resting, TypeOK, EditorType, gpoVars,
              editorVars, noteVars
<1> QED BY <1>1, <1>2, <1>3, <1>4, <1>5, <1>6, <1>7, <1>8 DEF Step

(* So does everything that begins or ends an operation.                    *)
LEMMA HalvesNext ==
  ASSUME Overlapping = FALSE, TypeOK, OneSave, OneSave', HalvesInv, [Next]_vars
  PROVE  HalvesInv'
<1>1. CASE UNCHANGED vars
  BY <1>1 DEF vars, gpoVars, editorVars, stepVars, noteVars, HalvesInv, CopyInv, Advanced, Busy
<1>2. ASSUME NEW a \in Admin, Step(a) PROVE HalvesInv'
  BY <1>2, HalvesStep
<1>3. ASSUME NEW a \in Admin, NEW f \in File, Open(a, f) PROVE HalvesInv'
  BY <1>3 DEF Open, HalvesInv, CopyInv, Advanced, Busy, Resting, TypeOK, EditorType, gpoVars,
              stepVars, noteVars
<1>4. ASSUME NEW a \in Admin, Load(a) \/ Rename(a) \/ Reconcile(a) PROVE HalvesInv'
  BY <1>4 DEF Load, Rename, Reconcile, HalvesInv, CopyInv, Advanced, Busy, Resting, TypeOK,
              EditorType, StepType, Task, gpoVars, stepVars, noteVars
<1>5. ASSUME NEW a \in Admin, NEW e \in Entry, NEW wanted \in BOOLEAN,
             Start(a, e, wanted) \/ Conflict(a, e, wanted)
      PROVE  HalvesInv'
  <2>1. \A b \in Admin : task'[b].do = task[b].do /\ task'[b].file = task[b].file
    <3>1. task' = [task EXCEPT ![a].entry = e, ![a].wanted = wanted]
      BY <1>5 DEF Start, Conflict, Chosen
    <3>2. task'[a] = [task[a] EXCEPT !.entry = e, !.wanted = wanted] /\ task[a] \in Task
      BY <3>1 DEF TypeOK, EditorType
    <3>3. task'[a].do = task[a].do /\ task'[a].file = task[a].file
      BY <3>2 DEF Task
    <3> QED BY <3>1, <3>3 DEF TypeOK, EditorType
  <2> QED BY <1>5, <2>1
  DEF Start, Conflict, Chosen, HalvesInv, CopyInv, Advanced, Busy, Resting,
                            TypeOK, EditorType, gpoVars, stepVars
<1>6. ASSUME NEW a \in Admin, Break(a) \/ LoseFile(a) \/ LoseIni(a) PROVE HalvesInv'
  <2>1. Fail(a) /\ Busy(a)
    BY <1>6 DEF Break, LoseFile, LoseIni, Busy, Resting
  <2>2. CopyInv'
    BY <2>1 DEF Fail, HalvesInv, CopyInv, OneSave, Advanced, Busy, Resting, TypeOK, EditorType,
                StepType
  <2>3. CASE LoseFile(a) \/ LoseIni(a)
    BY <2>2, <2>3 DEF LoseFile, LoseIni, HalvesInv
  <2>4. CASE Break(a)
    <3>1. whole' => whole /\ pc[a] # "ini"
      BY <2>4 DEF Break, HalvesInv, CopyInv
    <3>2. \A b \in Admin \ {a} : pc[b] # "ini"
      BY <2>1 DEF OneSave, Busy, Resting
    <3>3. ini' = ini /\ version' = version
      BY <2>1, <2>4 DEF Break, Fail
    <3> QED BY <2>2, <3>1, <3>2, <3>3 DEF HalvesInv
  <2> QED BY <1>6, <2>3, <2>4
<1>7. ASSUME NEW h \in Half, Poll(h) PROVE HalvesInv'
  BY <1>7 DEF Poll, HalvesInv, CopyInv, Advanced, Busy, gpoVars, editorVars, stepVars, noteVars
<1> QED BY <1>1, <1>2, <1>3, <1>4, <1>5, <1>6, <1>7 DEF Next

(* Whenever no operation is under way and the last save was answered, the  *)
(* directory and GPT.INI hold the same number, whatever has failed before. *)
THEOREM HalvesAgreeHolds ==
  ASSUME Overlapping = FALSE
  PROVE  Spec => []HalvesAgree
<1>1. Init => HalvesInv
  BY DEF Init, HalvesInv, CopyInv, Advanced
<1>2. /\ TypeOK /\ OneSave /\ OneSave' /\ HalvesInv /\ [Next]_vars => HalvesInv'
  BY HalvesNext
<1>3. HalvesInv => HalvesAgree
  BY DEF HalvesInv, HalvesAgree, Quiet, Busy, Resting
<1>4. Spec => [](TypeOK /\ OneSave)
  BY OneAtATime
<1> QED BY <1>1, <1>2, <1>3, <1>4, PTL DEF Spec

---------------------------------------------------------------------------
(* Registrations.  While saves do not overlap, what an operation still has *)
(* to change in the lists is what the content asks for, and the list it    *)
(* has read is the list it writes back.                                    *)

(* A save whose file is written, or whose registration it repairs, and     *)
(* whose extension it has not registered yet; one that has registered it.  *)
Registering(a) ==
  /\ task[a].do = "edit"
  /\ \/ pc[a] \in {"count", "register", "regWrite"}
     \/ pc[a] \in {"bump", "bumpWrite", "ini"} /\ task[a].file.kind = "admx"
HasRegistered(a) ==
  /\ task[a].do = "edit"
  /\ \/ pc[a] = "report"
     \/ pc[a] \in {"bump", "bumpWrite", "ini"} /\ task[a].file.kind # "admx"

(* What a file's extension should be, and whether the list has it so.      *)
Due(f) == Fix(f.half, {Ext(f)}, InUse(f) \/ f.kind \in NeverUnregistered)
Correct(f) == /\ InUse(f) => Registered(f)
              /\ Registered(f) => InUse(f) \/ f.kind \in NeverUnregistered
Finished(f) == \A g \in Sharing(f) : Settled(g) \/ (g.kind = "admx" /\ last[g] = "again")

TaskInv ==
  \A a \in Admin :
    /\ pc[a] \in {"register", "regWrite", "report"} => task[a].do \in {"edit", "reconcile"}
    /\ pc[a] = "regWrite" => attr[a] = registered
OwedInv ==
  \A a \in Admin : Registering(a) /\ pc[a] # "count" => fix[a] = {Due(task[a].file)}
DiffInv ==
  \A a \in Admin : task[a].do = "reconcile" /\ pc[a] \in {"register", "regWrite"} =>
    \A j \in fix[a] : IF j.present THEN j.exts \subseteq AsksFor(j.half)
                      ELSE \A x \in j.exts : x \notin AsksFor(j.half) /\ x[1] # "security"
ListedInv ==
  \A f \in File :
    /\ Understood(f)
    /\ \A a \in Admin : Registering(a) => task[a].file \notin Sharing(f)
    /\ Finished(f) \/ \E a \in Admin : HasRegistered(a) /\ task[a].file \in Sharing(f)
    => Correct(f)
RegInv == TaskInv /\ OwedInv /\ DiffInv /\ ListedInv

(* A registration to change is one of two, by whether it is to be present. *)
LEMMA FixIs ==
  ASSUME NEW h, NEW x, NEW p, p \in BOOLEAN
  PROVE  Fix(h, x, p) = IF p THEN Fix(h, x, TRUE) ELSE Fix(h, x, FALSE)
<1>1. p = TRUE \/ p = FALSE
  BY Zenon
<1> QED BY <1>1, Zenon

(* What a save registers, by whether its extension is needed.              *)
LEMMA DueIs ==
  ASSUME NEW f, NEW n
  PROVE  LET is(p) == IF p THEN Fix(f.half, {Ext(f)}, TRUE) ELSE Fix(f.half, {Ext(f)}, FALSE)
         IN  /\ Ends(f, n) = is(f.kind \in NeverUnregistered \/ n # {})
             /\ Due(f) = is(InUse(f) \/ f.kind \in NeverUnregistered)
             /\ Due(f)' = is(InUse(f)' \/ f.kind \in NeverUnregistered)
             /\ Fix(f.half, {Ext(f)}, AnyScripts(f.half)) = is(AnyScripts(f.half))
<1>1. /\ (f.kind \in NeverUnregistered \/ n # {}) \in BOOLEAN
      /\ (InUse(f) \/ f.kind \in NeverUnregistered) \in BOOLEAN
      /\ (InUse(f)' \/ f.kind \in NeverUnregistered) \in BOOLEAN
      /\ AnyScripts(f.half) \in BOOLEAN
  BY Zenon DEF AnyScripts
<1> QED BY <1>1, FixIs, Zenon DEF Ends, Due

(* Files that share an extension are of one kind, and only script files    *)
(* share one.                                                              *)
LEMMA SharingIs ==
  ASSUME NEW f \in File, NEW g \in File
  PROVE  /\ g \in Sharing(f) <=> g.half = f.half /\ Ext(g) = Ext(f)
         /\ f \in Sharing(f)
         /\ g \in Sharing(f) => f \in Sharing(g) /\ Sharing(g) = Sharing(f) /\ g.kind = f.kind
         /\ g \in Sharing(f) /\ f.kind # "scripts" => g = f
<1>1. g \in Sharing(f) <=> g.half = f.half /\ Ext(g) = Ext(f)
  BY DEF Sharing
<1>2. Ext(g) = Ext(f) => g.kind = f.kind
  BY DEF Ext
<1>3. ASSUME g.half = f.half, Ext(g) = Ext(f), f.kind # "scripts" PROVE g = f
  <2>1. g.part = f.part
    BY <1>2, <1>3 DEF Ext
  <2>2. f \in FileType /\ g \in FileType
    BY ConstantsAssumption
  <2> QED BY <1>2, <1>3, <2>1, <2>2 DEF FileType
<1>4. f \in Sharing(f) /\ (g \in Sharing(f) => Sharing(g) = Sharing(f) /\ f \in Sharing(g))
  BY DEF Sharing
<1> QED BY <1>1, <1>2, <1>3, <1>4

(* A file's extension is asked for when one of the files that share it has *)
(* content the report understands.                                         *)
LEMMA AskedIs ==
  ASSUME NEW f \in File
  PROVE  /\ Understood(f) => (InUse(f) <=> Ext(f) \in AsksFor(f.half))
         /\ f.kind = "scripts" => (InUse(f) <=> AnyScripts(f.half))
<1>1. ASSUME NEW g \in File, Ext(g) = Ext(f) PROVE Understood(g) <=> Understood(f)
  BY <1>1 DEF Ext, Understood
<1>2. Understood(f) => (InUse(f) <=> Ext(f) \in AsksFor(f.half))
  BY <1>1 DEF InUse, Sharing, AsksFor
<1>3. ASSUME NEW g \in File, f.kind = "scripts"
      PROVE  g \in Sharing(f) <=> g.half = f.half /\ g.kind = "scripts"
  BY <1>3 DEF Sharing, Ext
<1>4. f.kind = "scripts" => (InUse(f) <=> AnyScripts(f.half))
  BY <1>3 DEF InUse, AnyScripts, Sharing
<1> QED BY <1>2, <1>4

(* Whoever registers is the one operation under way.                       *)
LEMMA Alone ==
  ASSUME OneSave, NEW a \in Admin, Busy(a), NEW b \in Admin, b # a
  PROVE  ~Busy(b) /\ ~Registering(b) /\ ~HasRegistered(b)
  BY DEF OneSave, Busy, Resting, Registering, HasRegistered

(* The first state: nobody works and every extension is as it should be.   *)
LEMMA RegInit == Init => RegInv
<1> SUFFICES ASSUME Init PROVE RegInv
  OBVIOUS
<1>1. TaskInv /\ OwedInv /\ DiffInv
  BY DEF Init, TaskInv, OwedInv, DiffInv, Registering
<1>2. ASSUME NEW f \in File, Understood(f) PROVE Correct(f)
  <2>1. Ext(f) \in registered[f.half] <=> Ext(f) \in AsksFor(f.half) \cup Foreign(f.half)
    BY ExtOfFile DEF Init
  <2>2. Ext(f) \notin Foreign(f.half)
    BY <1>2 DEF Foreign, Ext, Understood
  <2> QED BY <1>2, <2>1, <2>2, AskedIs DEF Correct, Registered
<1> QED BY <1>1, <1>2 DEF RegInv, ListedInv

(* What is asked for, due and correct depends on the files and the lists.  *)
LEMMA SameFiles ==
  ASSUME UNCHANGED files
  PROVE  /\ \A f \in File : InUse(f)' = InUse(f) /\ Due(f)' = Due(f)
         /\ \A h \in Half : AsksFor(h)' = AsksFor(h)
         /\ UNCHANGED registered => \A f \in File : Correct(f)' = Correct(f)
<1>1. \A f \in File : InUse(f)' = InUse(f) /\ Due(f)' = Due(f)
  BY DEF InUse, Due, Content
<1>2. \A h \in Half : AsksFor(h)' = AsksFor(h)
  BY DEF AsksFor, Content
<1>3. UNCHANGED registered => \A f \in File : Correct(f)' = Correct(f)
  BY <1>1 DEF Correct, Registered
<1> QED BY <1>1, <1>2, <1>3

(* An operation that leaves the files and the lists alone keeps what is    *)
(* listed when nobody stops registering, and nothing becomes settled by it *)
(* but what was registered.                                                *)
Covered(f) == Finished(f) \/ \E a \in Admin : HasRegistered(a) /\ task[a].file \in Sharing(f)
Awaited(f) == \E a \in Admin : Registering(a) /\ task[a].file \in Sharing(f)

(* The part about the lists, with these.                                   *)
LEMMA ListedIs == ListedInv <=> \A f \in File : Understood(f) /\ ~Awaited(f) /\ Covered(f) => Correct(f)
  BY DEF ListedInv, Awaited, Covered

(* A step that leaves files and lists and awaits or covers no more.        *)
LEMMA ListedFrame ==
  ASSUME ListedInv, UNCHANGED <<files, registered>>,
         \A f \in File : Understood(f) /\ Covered(f)' /\ ~Awaited(f)' => Covered(f) /\ ~Awaited(f)
  PROVE  ListedInv'
<1>1. \A f \in File : Correct(f)' = Correct(f)
  BY SameFiles
<1>2. ListedInv' <=> \A f \in File : Understood(f) /\ ~Awaited(f)' /\ Covered(f)' => Correct(f)'
  BY DEF ListedInv, Awaited, Covered
<1> QED BY <1>1, <1>2, ListedIs

(* Most steps change neither who registers nor what is registered.         *)
LEMMA ListedSame ==
  ASSUME ListedInv, UNCHANGED <<files, registered, last>>,
         \A b \in Admin : /\ Registering(b)' <=> Registering(b)
                          /\ HasRegistered(b)' <=> HasRegistered(b)
                          /\ Registering(b) \/ HasRegistered(b) => task'[b].file = task[b].file
  PROVE  ListedInv'
<1>1. \A g \in File : (Covered(g)' <=> Covered(g)) /\ (Awaited(g)' <=> Awaited(g))
  BY DEF Covered, Finished, Settled, Awaited
<1> QED BY <1>1, ListedFrame

(* Differences stay right as long as files and lists stay.                 *)
LEMMA DiffSame ==
  ASSUME TypeOK, DiffInv, UNCHANGED <<files, fix>>,
         \A b \in Admin : task'[b].do = "reconcile" /\ pc'[b] \in {"register", "regWrite"} =>
            task[b].do = "reconcile" /\ pc[b] \in {"register", "regWrite"}
  PROVE  DiffInv'
<1>1. \A b \in Admin : \A j \in fix[b] : j.half \in Half
  BY DEF TypeOK, StepType, FixType
<1>2. \A h \in Half : AsksFor(h)' = AsksFor(h)
  BY SameFiles
<1> QED BY <1>1, <1>2 DEF DiffInv

(* Opening, loading and the start of an operation.                         *)
LEMMA RegBegin ==
  ASSUME TypeOK, TypeOK', RegInv, NEW a \in Admin,
         \/ \E f \in File : Open(a, f)
         \/ Load(a) \/ Rename(a) \/ Reconcile(a)
         \/ \E e \in Entry, wanted \in BOOLEAN : Start(a, e, wanted) \/ Conflict(a, e, wanted)
  PROVE  RegInv'
<1>1. UNCHANGED <<files, registered, fix, last>>
  BY DEF Open, Load, Rename, Reconcile, Start, Conflict, Chosen, gpoVars, stepVars, noteVars
<1>2. /\ \A b \in Admin \ {a} : pc'[b] = pc[b] /\ task'[b] = task[b] /\ attr'[b] = attr[b]
      /\ pc'[a] \in {"opening", "editing", "read", "idle", "renameWrite", "survey"}
      /\ pc[a] \in Resting
  BY DEF Open, Load, Rename, Reconcile, Start, Conflict, Chosen, Resting, stepVars, TypeOK,
         EditorType, StepType
<1>3. \A b \in Admin : /\ Registering(b)' <=> Registering(b)
                       /\ HasRegistered(b)' <=> HasRegistered(b)
                       /\ Registering(b) \/ HasRegistered(b) => b # a /\ task'[b] = task[b]
  BY <1>2 DEF Registering, HasRegistered, Resting
<1>4. TaskInv'
  BY <1>1, <1>2 DEF RegInv, TaskInv
<1>5. OwedInv'
  BY <1>1, <1>2, <1>3, SameFiles DEF RegInv, OwedInv, TypeOK, EditorType, Task
<1>6. DiffInv'
  <2>1. \A b \in Admin : task'[b].do = "reconcile" /\ pc'[b] \in {"register", "regWrite"} =>
          task[b].do = "reconcile" /\ pc[b] \in {"register", "regWrite"}
    BY <1>2
  <2> QED BY <1>1, <2>1, DiffSame DEF RegInv
<1>7. ListedInv'
  BY <1>1, <1>3, ListedSame DEF RegInv
<1> QED BY <1>4, <1>5, <1>6, <1>7 DEF RegInv

(* The version, GPT.INI, and reading the list before it is written.        *)
LEMMA RegAlong ==
  ASSUME TypeOK, TypeOK', OneSave, HalvesInv, RegInv, NEW a \in Admin,
         BumpRead(a) \/ BumpWrite(a) \/ IniWrite(a) \/ RenameWrite(a) \/ RegRead(a)
  PROVE  RegInv'
<1>1. UNCHANGED <<files, registered, fix, last, task>>
  BY DEF BumpRead, BumpWrite, IniWrite, RenameWrite, RegRead, gpoVars, editorVars, noteVars
<1>2. /\ \A b \in Admin \ {a} : pc'[b] = pc[b] /\ attr'[b] = attr[b]
      /\ \/ <<pc[a], pc'[a]>> \in {<<"bump", "bumpWrite">>, <<"bumpWrite", "ini">>,
                                   <<"renameWrite", "idle">>}
         \/ pc[a] = "ini" /\ pc'[a] = IF task[a].file.kind = "admx" THEN "register" ELSE "report"
         \/ pc[a] = "register" /\ pc'[a] = "regWrite" /\ attr'[a] = registered
  BY DEF BumpRead, BumpWrite, IniWrite, RenameWrite, RegRead, TypeOK, EditorType, StepType
<1>3. pc[a] = "ini" => task[a].do = "edit"
  BY DEF HalvesInv, CopyInv
<1>4. \A b \in Admin : /\ Registering(b)' <=> Registering(b)
                       /\ HasRegistered(b)' <=> HasRegistered(b)
  BY <1>1, <1>2, <1>3 DEF Registering, HasRegistered
<1>5. TaskInv'
  BY <1>1, <1>2, <1>3 DEF RegInv, TaskInv
<1>6. OwedInv'
  BY <1>1, <1>2, <1>4, SameFiles DEF RegInv, OwedInv, TypeOK, EditorType, Task
<1>7. DiffInv'
  BY <1>1, <1>2, <1>3, DiffSame DEF RegInv
<1>8. ListedInv'
  BY <1>1, <1>4, ListedSame DEF RegInv
<1> QED BY <1>5, <1>6, <1>7, <1>8 DEF RegInv

(* Reading the file again: administrative templates look at their          *)
(* registration even when there is nothing to write.                       *)
LEMMA RegRereads ==
  ASSUME TypeOK, TypeOK', OneSave, HalvesInv, RegInv, NEW a \in Admin, Read(a)
  PROVE  RegInv'
<1> DEFINE g == task[a].file
<1>1. /\ UNCHANGED <<files, registered, task, attr>> /\ pc[a] = "read" /\ g \in File
      /\ task[a].do = "edit"
      /\ \A b \in Admin \ {a} : pc'[b] = pc[b] /\ fix'[b] = fix[b]
  BY DEF Read, ReadUnchanged, gpoVars, TypeOK, EditorType, StepType, Task, HalvesInv, CopyInv
<1>2. \/ pc'[a] = "write" /\ UNCHANGED <<fix, last>>
      \/ /\ pc'[a] = "register" /\ g.kind = "admx"
         /\ fix'[a] = {Ends(g, Content(files[g]))} /\ UNCHANGED last
      \/ pc'[a] = "idle" /\ g.kind # "admx" /\ UNCHANGED fix /\ Answer(g, "same")
  BY <1>1 DEF Read, ReadUnchanged, TypeOK, EditorType, StepType
<1>3. \A b \in Admin \ {a} : ~Registering(b) /\ ~HasRegistered(b)
  BY <1>1, Alone DEF Busy, Resting
<1>4. ~Registering(a) /\ ~HasRegistered(a) /\ ~HasRegistered(a)'
  BY <1>1, <1>2 DEF Registering, HasRegistered
<1>5. \A b \in Admin \ {a} : ~Registering(b)' /\ ~HasRegistered(b)'
  BY <1>1, <1>3 DEF Registering, HasRegistered
<1>6. TaskInv'
  BY <1>1, <1>2 DEF RegInv, TaskInv
<1>7. OwedInv'
  <2>1. ASSUME Registering(a)', pc'[a] # "count" PROVE fix'[a] = {Due(g)'}
    <3>1. g.kind = "admx" /\ fix'[a] = {Ends(g, Content(files[g]))}
      BY <1>2, <2>1 DEF Registering
    <3>2. Sharing(g) = {g}
      BY <1>1, <3>1, SharingIs DEF Sharing
    <3>3. (Content(files[g]) # {}) <=> InUse(g)
      BY <3>2 DEF InUse
    <3>4. Ends(g, Content(files[g])) = Due(g)
      BY <3>1, <3>3 DEF Ends, Due, Fix, NeverUnregistered
    <3> QED BY <1>1, <3>1, <3>4, SameFiles
  <2> QED BY <1>1, <1>5, <2>1 DEF OwedInv
<1>8. DiffInv'
  <2>1. \A b \in Admin \ {a} : pc'[b] \notin {"register", "regWrite"}
    BY <1>1 DEF OneSave, Busy, Resting
  <2> QED BY <1>1, <2>1 DEF DiffInv
<1>9. ListedInv'
  <2>1. ASSUME NEW f \in File, Covered(f)' PROVE Covered(f)
    <3>1. Finished(f)'
      BY <2>1, <1>4, <1>5 DEF Covered
    <3>2. CASE UNCHANGED last
      BY <3>1, <3>2 DEF Covered, Finished, Settled
    <3>3. CASE g.kind # "admx" /\ Answer(g, "same")
      <4>1. ASSUME NEW h \in Sharing(f) PROVE Settled(h) \/ (h.kind = "admx" /\ last[h] = "again")
        <5>1. Settled(h)' \/ (h.kind = "admx" /\ last'[h] = "again")
          BY <3>1 DEF Finished
        <5> QED BY <1>1, <3>3, <5>1 DEF Answer, Settled, TypeOK, NoteType, Sharing
      <4> QED BY <4>1 DEF Covered, Finished
    <3> QED BY <1>2, <3>2, <3>3
  <2>2. \A f \in File : ~Awaited(f)
    BY <1>3, <1>4 DEF Awaited
  <2> QED BY <1>1, <2>1, <2>2, ListedFrame DEF RegInv
<1> QED BY <1>6, <1>7, <1>8, <1>9 DEF RegInv

(* Writing the file, and counting the scripts that are left.               *)
LEMMA RegWrites ==
  ASSUME TypeOK, TypeOK', OneSave, HalvesInv, RegInv, NEW a \in Admin, Write(a)
  PROVE  RegInv'
<1>0. PICK g \in File : g = task[a].file
  BY DEF TypeOK, EditorType, Task
<1>1. /\ UNCHANGED <<registered, task, attr, last>> /\ pc[a] = "write" /\ g = task'[a].file
      /\ task[a].do = "edit"
      /\ \A b \in Admin \ {a} : pc'[b] = pc[b] /\ fix'[b] = fix[b]
      /\ \A f \in File \ {g} : files'[f] = files[f]
      /\ pc'[a] = AfterWrite(g) /\ fix'[a] = {Ends(g, new[a])}
      /\ Content(files'[g]) = new[a]
  BY <1>0, ConstantsAssumption
  DEF Write, gpoVars, editorVars, noteVars, TypeOK, GpoType, EditorType, StepType, Task, HalvesInv,
      CopyInv, Content
<1>2. \A b \in Admin \ {a} : /\ ~Registering(b) /\ ~HasRegistered(b) /\ ~Registering(b)'
                             /\ ~HasRegistered(b)' /\ pc'[b] \notin {"register", "regWrite"}
  BY <1>1, Alone DEF Busy, Resting, Registering, HasRegistered, OneSave
<1>3. ~Registering(a) /\ ~HasRegistered(a)
  BY <1>1 DEF Registering, HasRegistered
<1>4. pc'[a] \in {"bump", "count", "register"}
  BY <1>1 DEF AfterWrite
<1>5. TaskInv'
  BY <1>1, <1>2, <1>4 DEF RegInv, TaskInv, OneSave, Busy, Resting
<1>6. OwedInv'
  <2>1. ASSUME Registering(a)', pc'[a] # "count" PROVE fix'[a] = {Due(g)'}
    <3>1. g.kind # "scripts"
      BY <1>1, <2>1 DEF AfterWrite
    <3>2. Sharing(g) = {g}
      BY <1>1, <3>1, SharingIs DEF Sharing
    <3>3. (new[a] # {}) <=> InUse(g)'
      BY <1>1, <3>2 DEF InUse, Content
    <3>4. Ends(g, new[a]) = Due(g)'
      BY <3>3, DueIs
    <3> QED BY <1>1, <3>4
  <2> QED BY <1>0, <1>1, <1>2, <2>1 DEF OwedInv
<1>7. DiffInv'
  BY <1>1, <1>2 DEF DiffInv
<1>8. ListedInv'
  <2> SUFFICES ASSUME NEW f \in File, Understood(f), ~Awaited(f)', Covered(f)'
               PROVE  Correct(f)'
    BY DEF ListedInv, Awaited, Covered
  <2>1. CASE g \in Sharing(f)
    <3>1. Understood(g)
      BY <1>1, <2>1, SharingIs DEF Understood
    <3>2. Registering(a)'
      BY <1>0, <1>1, <3>1 DEF Registering, AfterWrite, Understood
    <3> QED BY <1>1, <2>1, <3>2 DEF Awaited
  <2>2. CASE g \notin Sharing(f)
    <3>1. Finished(f)
      <4>1. ~(HasRegistered(a)' /\ task'[a].file \in Sharing(f))
        BY <1>1, <2>2
      <4> QED BY <1>1, <1>2, <4>1 DEF Covered, Finished, Settled
    <3>2. Correct(f)
      BY <1>2, <1>3, <3>1, ListedIs DEF RegInv, Awaited, Covered
    <3>3. InUse(f)' <=> InUse(f)
      BY <1>1, <2>2 DEF InUse, Sharing, Content
    <3> QED BY <1>1, <3>2, <3>3 DEF Correct, Registered
  <2> QED BY <2>1, <2>2
<1> QED BY <1>5, <1>6, <1>7, <1>8 DEF RegInv

(* Counting the scripts: the half's extension is due when one is left.     *)
LEMMA RegCounts ==
  ASSUME TypeOK, TypeOK', OneSave, HalvesInv, RegInv, NEW a \in Admin, Count(a)
  PROVE  RegInv'
<1> DEFINE g == task[a].file
<1>1. /\ UNCHANGED <<files, registered, task, attr, last>> /\ pc[a] = "count" /\ g \in File
      /\ task[a].do = "edit" /\ g.kind = "scripts" /\ pc'[a] = "register"
      /\ \A b \in Admin \ {a} : pc'[b] = pc[b] /\ fix'[b] = fix[b]
      /\ fix'[a] = {Fix(g.half, {Ext(g)}, AnyScripts(g.half))}
  BY DEF Count, gpoVars, editorVars, noteVars, TypeOK, EditorType, StepType, Task, HalvesInv, CopyInv
<1>2. \A b \in Admin : /\ Registering(b)' <=> Registering(b)
                       /\ HasRegistered(b)' <=> HasRegistered(b)
  BY <1>1 DEF Registering, HasRegistered
<1>3. \A b \in Admin \ {a} : ~Registering(b)' /\ pc'[b] \notin {"register", "regWrite"}
  BY <1>1, <1>2, Alone DEF Busy, Resting, OneSave
<1>4. TaskInv'
  BY <1>1 DEF RegInv, TaskInv
<1>5. OwedInv'
  <2>1. Fix(g.half, {Ext(g)}, AnyScripts(g.half)) = Due(g)
    BY <1>1, AskedIs, DueIs DEF NeverUnregistered
  <2> QED BY <1>1, <1>3, <2>1, SameFiles DEF OwedInv
<1>6. DiffInv'
  BY <1>1, <1>3 DEF DiffInv
<1>7. ListedInv'
  BY <1>1, <1>2, ListedSame DEF RegInv
<1> QED BY <1>4, <1>5, <1>6, <1>7 DEF RegInv

(* Writing the list back.  A save sets its own extension right and leaves  *)
(* the others alone; reconciling adds what is asked for and removes what   *)
(* is not.                                                                 *)
LEMMA RegUpdates ==
  ASSUME TypeOK, TypeOK', OneSave, RegInv, NEW a \in Admin, NEW j \in fix[a], RegWrite(a, j)
  PROVE  RegInv'
<1>0. PICK g \in File : g = task[a].file
  BY DEF TypeOK, EditorType, Task
<1>1. /\ UNCHANGED <<files, task, last>> /\ pc[a] = "regWrite"
      /\ \A b \in Admin \ {a} : pc'[b] = pc[b] /\ fix'[b] = fix[b] /\ attr'[b] = attr[b]
      /\ fix'[a] = fix[a] \ {j}
      /\ pc'[a] = IF fix[a] = {j} THEN AfterRegister(a) ELSE "register"
      /\ j \in FixType
  BY DEF RegWrite, gpoVars, editorVars, noteVars, TypeOK, EditorType, StepType
<1>2. /\ attr[a] = registered /\ j.half \in Half
      /\ registered'[j.half] = Updated(registered[j.half], j)
      /\ \A h \in Half \ {j.half} : registered'[h] = registered[h]
  BY <1>1 DEF RegWrite, RegInv, TaskInv, TypeOK, GpoType, FixType
<1>3. \A b \in Admin \ {a} : /\ ~Registering(b) /\ ~HasRegistered(b) /\ ~Registering(b)'
                             /\ ~HasRegistered(b)' /\ pc'[b] \notin {"register", "regWrite"}
  BY <1>1, Alone DEF Busy, Resting, Registering, HasRegistered, OneSave
<1>4. \A f \in File : InUse(f)' = InUse(f)
  BY <1>1, SameFiles
<1>5. CASE task[a].do = "edit"
  <2>1. fix[a] = {j} /\ j = Due(g)
    BY <1>0, <1>1, <1>5 DEF RegInv, OwedInv, Registering
  <2>2. /\ pc'[a] = IF g.kind # "admx" THEN "bump" ELSE "report"
        /\ Registering(a) /\ ~Registering(a)'
    BY <1>0, <1>1, <1>5, <2>1 DEF AfterRegister, Registering
  <2>3. TaskInv'
    BY <1>1, <1>3, <1>5, <2>2 DEF RegInv, TaskInv, OneSave, Busy, Resting
  <2>4. OwedInv' /\ DiffInv'
    BY <1>1, <1>3, <1>5, <2>2 DEF OwedInv, DiffInv
  <2>5. ListedInv'
    <3> SUFFICES ASSUME NEW f \in File, Understood(f), Covered(f)' PROVE Correct(f)'
      BY DEF ListedInv, Covered
    <3>1. /\ j.half = g.half /\ j.exts = {Ext(g)}
          /\ j.present <=> InUse(g) \/ g.kind \in NeverUnregistered
      <4>1. CASE InUse(g) \/ g.kind \in NeverUnregistered
        <5>1. j = Fix(g.half, {Ext(g)}, TRUE)
          BY <2>1, <4>1, DueIs
        <5> QED BY <4>1, <5>1 DEF Fix
      <4>2. CASE ~(InUse(g) \/ g.kind \in NeverUnregistered)
        <5>1. j = Fix(g.half, {Ext(g)}, FALSE)
          BY <2>1, <4>2, DueIs
        <5> QED BY <4>2, <5>1 DEF Fix
      <4> QED BY <4>1, <4>2
    <3>2. CASE g \in Sharing(f)
      <4>1. f.half = g.half /\ Ext(f) = Ext(g) /\ f.kind = g.kind /\ (InUse(f) <=> InUse(g))
        BY <3>2, SharingIs DEF InUse
      <4> QED BY <1>2, <1>4, <3>1, <4>1 DEF Correct, Registered, Updated
    <3>3. CASE g \notin Sharing(f)
      <4>1. f.half # g.half \/ Ext(f) # Ext(g)
        BY <3>3, SharingIs
      <4>2. ~Awaited(f)
        BY <1>0, <1>3, <3>3 DEF Awaited
      <4>3. Covered(f)
        BY <1>0, <1>1, <1>3, <3>3 DEF Covered, Finished, Settled
      <4>4. Correct(f)
        BY <4>2, <4>3, ListedIs DEF RegInv
      <4>5. f.half \in Half
        BY ExtOfFile
      <4> QED BY <1>2, <1>4, <3>1, <4>1, <4>4, <4>5 DEF Correct, Registered, Updated
    <3> QED BY <3>2, <3>3
  <2> QED BY <2>3, <2>4, <2>5 DEF RegInv
<1>6. CASE task[a].do # "edit"
  <2>1. task[a].do = "reconcile" /\ pc'[a] \in {"report", "register"}
    BY <1>1, <1>6 DEF RegInv, TaskInv, AfterRegister
  <2>2. ~Registering(a) /\ ~HasRegistered(a) /\ ~Registering(a)' /\ ~HasRegistered(a)'
    BY <1>1, <1>6 DEF Registering, HasRegistered
  <2>3. TaskInv'
    BY <1>1, <1>3, <2>1 DEF RegInv, TaskInv, OneSave, Busy, Resting
  <2>4. OwedInv'
    BY <1>3, <2>2 DEF OwedInv
  <2>5. DiffInv'
    <3>1. \A i \in fix[a] : i.half \in Half
      BY DEF TypeOK, StepType, FixType
    <3>2. \A h \in Half : AsksFor(h)' = AsksFor(h)
      BY <1>1, SameFiles
    <3> QED BY <1>1, <1>3, <2>1, <3>1, <3>2 DEF RegInv, DiffInv
  <2>6. IF j.present THEN j.exts \subseteq AsksFor(j.half)
                     ELSE \A x \in j.exts : x \notin AsksFor(j.half)
    BY <1>1, <2>1 DEF RegInv, DiffInv
  <2>7. ListedInv'
    <3> SUFFICES ASSUME NEW f \in File, Understood(f), Covered(f)' PROVE Correct(f)'
      BY DEF ListedInv, Covered
    <3>1. Correct(f)
      <4>1. Covered(f)
        BY <1>1, <1>3, <2>2 DEF Covered, Finished, Settled
      <4>2. ~Awaited(f)
        BY <1>3, <2>2 DEF Awaited
      <4> QED BY <4>1, <4>2, ListedIs DEF RegInv
    <3>2. f.half \in Half /\ (InUse(f) <=> Ext(f) \in AsksFor(f.half))
      BY ExtOfFile, AskedIs
    <3> QED BY <1>2, <1>4, <2>6, <3>1, <3>2 DEF Correct, Registered, Updated
  <2> QED BY <2>3, <2>4, <2>5, <2>7 DEF RegInv
<1> QED BY <1>5, <1>6

(* Comparing the lists with the content.                                   *)
LEMMA RegSurveys ==
  ASSUME TypeOK, TypeOK', OneSave, HalvesInv, RegInv, NEW a \in Admin, Survey(a)
  PROVE  RegInv'
<1>1. /\ UNCHANGED <<files, registered, task, last>> /\ pc[a] = "survey"
      /\ task[a].do = "reconcile" /\ pc'[a] \in {"register", "report"}
      /\ \A b \in Admin \ {a} : pc'[b] = pc[b] /\ fix'[b] = fix[b] /\ attr'[b] = attr[b]
      /\ fix'[a] = UNION {Missing(a, h) \cup Surplus(a, h) : h \in Half}
  BY DEF Survey, gpoVars, editorVars, noteVars, TypeOK, EditorType, StepType, HalvesInv, CopyInv
<1>2. \A b \in Admin : /\ Registering(b)' <=> Registering(b)
                       /\ HasRegistered(b)' <=> HasRegistered(b)
  BY <1>1 DEF Registering, HasRegistered
<1>3. \A b \in Admin \ {a} : ~Registering(b)' /\ pc'[b] \notin {"register", "regWrite"}
  BY <1>1, <1>2, Alone DEF Busy, Resting, OneSave
<1>4. TaskInv'
  BY <1>1 DEF RegInv, TaskInv
<1>5. OwedInv'
  BY <1>1, <1>3 DEF OwedInv, Registering
<1>6. DiffInv'
  <2>1. ASSUME NEW h \in Half, NEW j \in Missing(a, h) \cup Surplus(a, h)
        PROVE  IF j.present THEN j.exts \subseteq AsksFor(j.half)
               ELSE \A x \in j.exts : x \notin AsksFor(j.half) /\ x[1] # "security"
    <3>1. CASE j \in Missing(a, h)
      BY <3>1 DEF Missing, Fix
    <3>2. CASE j \in Surplus(a, h)
      BY <3>2 DEF Surplus, Fix, Keeps
    <3> QED BY <2>1, <3>1, <3>2
  <2>2. \A j \in fix'[a] : j.half \in Half
    BY DEF TypeOK, StepType, FixType
  <2>3. \A h \in Half : AsksFor(h)' = AsksFor(h)
    BY <1>1, SameFiles
  <2> QED BY <1>1, <1>3, <2>1, <2>2, <2>3 DEF DiffInv
<1>7. ListedInv'
  BY <1>1, <1>2, ListedSame DEF RegInv
<1> QED BY <1>4, <1>5, <1>6, <1>7 DEF RegInv

(* Answering: what was saved is settled, and was registered before.        *)
LEMMA RegReports ==
  ASSUME TypeOK, TypeOK', OneSave, RegInv, NEW a \in Admin, Report(a)
  PROVE  RegInv'
<1> DEFINE g == task[a].file
<1>1. /\ UNCHANGED <<files, registered, fix, task>> /\ pc[a] = "report" /\ pc'[a] = "idle"
      /\ \A b \in Admin \ {a} : pc'[b] = pc[b] /\ attr'[b] = attr[b]
      /\ \A f \in File : last'[f] # last[f] => f = g /\ task[a].do = "edit"
      /\ g \in File
  BY DEF Report, Answer, gpoVars, TypeOK, EditorType, StepType, NoteType, Task
<1>2. \A b \in Admin : Registering(b)' <=> Registering(b)
  BY <1>1 DEF Registering
<1>3. \A b \in Admin \ {a} : HasRegistered(b)' <=> HasRegistered(b)
  BY <1>1 DEF HasRegistered
<1>4. TaskInv'
  BY <1>1 DEF RegInv, TaskInv
<1>5. OwedInv'
  BY <1>1, <1>2, SameFiles DEF RegInv, OwedInv, TypeOK, EditorType, Task
<1>6. DiffInv'
  BY <1>1, DiffSame DEF RegInv
<1>7. ListedInv'
  <2>1. ASSUME NEW f \in File, Covered(f)' PROVE Covered(f)
    <3>1. CASE \E b \in Admin : HasRegistered(b)' /\ task'[b].file \in Sharing(f)
      BY <1>1, <1>3, <3>1 DEF Covered, HasRegistered
    <3>2. CASE Finished(f)' /\ g \in Sharing(f) /\ task[a].do = "edit"
      BY <1>1, <3>2 DEF Covered, HasRegistered
    <3>3. CASE Finished(f)' /\ ~(g \in Sharing(f) /\ task[a].do = "edit")
      <4>1. \A h \in Sharing(f) : last'[h] = last[h]
        BY <1>1, <3>3 DEF Sharing
      <4> QED BY <3>3, <4>1 DEF Covered, Finished, Settled
    <3> QED BY <2>1, <3>1, <3>2, <3>3 DEF Covered
  <2>2. \A f \in File : Awaited(f)' <=> Awaited(f)
    BY <1>1, <1>2 DEF Awaited
  <2> QED BY <1>1, <2>1, <2>2, ListedFrame DEF RegInv
<1> QED BY <1>4, <1>5, <1>6, <1>7 DEF RegInv

(* A failing save leaves its file unsettled, a failing reconciliation has  *)
(* set right what it came to.                                              *)
LEMMA RegFails ==
  ASSUME TypeOK, TypeOK', OneSave, HalvesInv, RegInv, NEW a \in Admin,
         Break(a) \/ LoseFile(a) \/ LoseIni(a)
  PROVE  RegInv'
<1>0. PICK g \in File : g = task[a].file
  BY DEF TypeOK, EditorType, Task
<1>1. /\ UNCHANGED <<registered, task>> /\ Busy(a) /\ pc'[a] \in {"failed", "idle"}
      /\ \A b \in Admin \ {a} : pc'[b] = pc[b]
      /\ \A f \in File : f # g \/ task[a].do # "edit" => last'[f] = last[f] /\ files'[f] = files[f]
      /\ task[a].do = "edit" => last'[g] = "failed"
  BY <1>0 DEF Break, LoseFile, LoseIni, Fail, Busy, Resting, TypeOK, GpoType, EditorType, NoteType,
              HalvesInv, CopyInv
<1>2. \A b \in Admin : ~Registering(b)' /\ ~HasRegistered(b)'
  BY <1>1, Alone DEF Registering, HasRegistered
<1>3. \A b \in Admin : pc'[b] \notin {"register", "regWrite", "report"}
  BY <1>1 DEF OneSave, Busy, Resting
<1>4. TaskInv' /\ OwedInv' /\ DiffInv'
  BY <1>2, <1>3 DEF TaskInv, OwedInv, DiffInv
<1>5. ListedInv'
  <2> SUFFICES ASSUME NEW f \in File, Understood(f), Finished(f)' PROVE Correct(f)'
    BY <1>2 DEF ListedInv
  <2>1. task[a].do = "edit" => g \notin Sharing(f)
    BY <1>1 DEF Finished, Settled
  <2>2. \A h \in Sharing(f) : last'[h] = last[h] /\ files'[h] = files[h]
    BY <1>1, <2>1 DEF Sharing
  <2>3. Covered(f) /\ (InUse(f)' <=> InUse(f))
    BY <2>2 DEF Covered, Finished, Settled, InUse
  <2>4. ~Awaited(f)
    BY <1>0, <1>1, <2>1, Alone DEF Awaited, Registering
  <2>5. Correct(f)
    BY <2>3, <2>4, ListedIs DEF RegInv
  <2> QED BY <1>1, <2>3, <2>5 DEF Correct, Registered
<1> QED BY <1>4, <1>5 DEF RegInv

(* A client's refresh concerns neither files nor lists.                    *)
LEMMA RegSame ==
  ASSUME RegInv, UNCHANGED <<gpoVars, pc, editorVars, stepVars, noteVars>>
  PROVE  RegInv'
<1>1. UNCHANGED <<files, registered, last, pc, task, attr, fix>>
  BY DEF gpoVars, editorVars, stepVars, noteVars
<1>2. TaskInv'
  BY <1>1 DEF RegInv, TaskInv
<1>3. OwedInv' /\ DiffInv'
  BY <1>1 DEF RegInv, OwedInv, DiffInv, Registering, Due, InUse, AsksFor, Content
<1>4. \A b \in Admin : /\ Registering(b)' <=> Registering(b)
                       /\ HasRegistered(b)' <=> HasRegistered(b)
  BY <1>1 DEF Registering, HasRegistered
<1>5. ListedInv'
  BY <1>1, <1>4, ListedSame DEF RegInv
<1> QED BY <1>2, <1>3, <1>5 DEF RegInv

(* Every step keeps what is owed, in difference and listed.               *)
LEMMA RegNext ==
  ASSUME Overlapping = FALSE, TypeOK, TypeOK', OneSave, HalvesInv, RegInv, [Next]_vars
  PROVE  RegInv'
<1>1. CASE UNCHANGED vars
  BY <1>1, RegSame DEF vars
<1>2. ASSUME NEW a \in Admin, Step(a) PROVE RegInv'
  <2>1. CASE Read(a) \/ Write(a) \/ Count(a)
    BY <2>1, RegRereads, RegWrites, RegCounts
  <2>2. CASE RegRead(a) \/ BumpRead(a) \/ BumpWrite(a) \/ IniWrite(a) \/ RenameWrite(a)
    BY <2>2, RegAlong
  <2>3. CASE \E j \in fix[a] : RegWrite(a, j)
    BY <2>3, RegUpdates
  <2>4. CASE Survey(a) \/ Report(a)
    BY <2>4, RegSurveys, RegReports
  <2> QED BY <1>2, <2>1, <2>2, <2>3, <2>4 DEF Step
<1>3. ASSUME NEW a \in Admin,
             \/ \E f \in File : Open(a, f)
             \/ Load(a) \/ Rename(a) \/ Reconcile(a)
             \/ \E e \in Entry, wanted \in BOOLEAN : Start(a, e, wanted) \/ Conflict(a, e, wanted)
      PROVE  RegInv'
  BY <1>3, RegBegin
<1>4. ASSUME NEW a \in Admin, Break(a) \/ LoseFile(a) \/ LoseIni(a) PROVE RegInv'
  BY <1>4, RegFails
<1>5. ASSUME NEW h \in Half, Poll(h) PROVE RegInv'
  BY <1>5, RegSame DEF Poll
<1> QED BY <1>1, <1>2, <1>3, <1>4, <1>5 DEF Next

(* The three facts every theorem below starts from.                        *)
LEMMA RegInvHolds ==
  ASSUME Overlapping = FALSE
  PROVE  Spec => [](TypeOK /\ OneSave /\ RegInv)
<1>1. Init => HalvesInv /\ RegInv
  BY RegInit DEF Init, HalvesInv, CopyInv, Advanced
<1>2. TypeOK /\ TypeOK' /\ OneSave /\ OneSave' /\ HalvesInv /\ RegInv /\ [Next]_vars
      => HalvesInv' /\ RegInv'
  BY HalvesNext, RegNext
<1>3. Spec => [](TypeOK /\ OneSave)
  BY OneAtATime
<1> QED BY <1>1, <1>2, <1>3, PTL DEF Spec

(* Once the saves of the files that share an extension are answered, the   *)
(* extension is registered when there is content, and not when there is    *)
(* none, whatever failed in between.                                       *)
THEOREM RegistrationFollowsHolds ==
  ASSUME Overlapping = FALSE
  PROVE  Spec => []RegistrationFollows
<1>1. RegInv => RegistrationFollows
  BY DEF RegInv, ListedInv, RegistrationFollows, Quiet, Busy, Resting, Registering, Finished,
         Correct
<1> QED BY <1>1, RegInvHolds, PTL

(* What a step changes in the lists is what its operation is about.        *)
LEMMA OnlyWrites ==
  ASSUME TypeOK, TypeOK', RegInv, registered' # registered, [Next]_vars
  PROVE  \E a \in Admin : \E j \in fix[a] :
           /\ pc[a] = "regWrite" /\ j \in FixType
           /\ registered' = [registered EXCEPT ![j.half] = Updated(registered[j.half], j)]
<1>1. PICK a \in Admin : \E j \in fix[a] : RegWrite(a, j)
  BY DEF Next, Step, Open, Load, Start, Conflict, Read, Write, Count, RegRead, BumpRead, BumpWrite,
         IniWrite, Report, Rename, RenameWrite, Reconcile, Survey, Fail, Break, LoseFile, LoseIni,
         Poll, gpoVars, vars
<1>2. PICK j \in fix[a] : RegWrite(a, j)
  BY <1>1
<1>3. j \in FixType /\ attr[a] = registered /\ pc[a] = "regWrite"
  BY <1>2 DEF TypeOK, StepType, RegWrite, RegInv, TaskInv
<1> QED BY <1>2, <1>3 DEF RegWrite

(* The lists change only by what is asked of one extension, and the one of *)
(* the security settings stays.                                            *)
LEMMA OnlyStep ==
  ASSUME TypeOK, TypeOK', RegInv, [Next]_vars
  PROVE  OnlyAbout /\ SecurityKept
<1>1. CASE registered' = registered
  BY <1>1 DEF OnlyAbout, SecurityKept
<1>2. CASE registered' # registered
  <2>1. PICK a \in Admin : \E j \in fix[a] :
           /\ pc[a] = "regWrite" /\ j \in FixType
           /\ registered' = [registered EXCEPT ![j.half] = Updated(registered[j.half], j)]
    BY <1>2, OnlyWrites
  <2>2. PICK j \in fix[a] :
           /\ j \in FixType
           /\ registered' = [registered EXCEPT ![j.half] = Updated(registered[j.half], j)]
    BY <2>1
  <2>3. /\ j.half \in Half /\ registered'[j.half] = Updated(registered[j.half], j)
        /\ \A h \in Half \ {j.half} : registered'[h] = registered[h]
    BY <2>2 DEF FixType, TypeOK, GpoType
  <2>4. OnlyAbout
    <3> SUFFICES ASSUME NEW h \in Half, NEW x \in registered[h] \cup registered'[h],
                        (x \in registered[h]) # (x \in registered'[h])
                 PROVE  j.half = h /\ x \in j.exts /\ j.present = (x \in registered'[h])
      BY <2>1, <2>2 DEF OnlyAbout
    <3>1. h = j.half
      BY <2>3
    <3>2. j.present \in BOOLEAN
      BY <2>2 DEF FixType
    <3> QED BY <2>3, <3>1, <3>2 DEF Updated
  <2>5. SecurityKept
    <3>1. ASSUME NEW x \in j.exts, ~j.present PROVE x[1] # "security"
      <4>1. CASE task[a].do = "reconcile"
        BY <2>1, <3>1, <4>1 DEF RegInv, DiffInv
      <4>2. CASE task[a].do = "edit"
        <5>1. PICK g \in File : g = task[a].file
          BY DEF TypeOK, EditorType, Task
        <5>2. j = Due(g)
          BY <2>1, <4>2, <5>1 DEF RegInv, OwedInv, Registering
        <5>3. CASE InUse(g) \/ g.kind \in NeverUnregistered
          <6>1. j = Fix(g.half, {Ext(g)}, TRUE)
            BY <5>2, <5>3, DueIs
          <6> QED BY <3>1, <6>1 DEF Fix
        <5>4. CASE ~(InUse(g) \/ g.kind \in NeverUnregistered)
          <6>1. j = Fix(g.half, {Ext(g)}, FALSE)
            BY <5>2, <5>4, DueIs
          <6> QED BY <3>1, <5>4, <6>1 DEF Fix, Ext, NeverUnregistered
        <5> QED BY <5>3, <5>4
      <4> QED BY <2>1, <4>1, <4>2 DEF RegInv, TaskInv
    <3>2. j.present \/ \A x \in j.exts : x[1] # "security"
      BY <3>1
    <3> QED BY <2>3, <3>2 DEF SecurityKept, Updated
  <2> QED BY <2>4, <2>5
<1> QED BY <1>1, <1>2

(* An extension appears in the lists or leaves them only by an operation   *)
(* that is about it, whatever else the lists hold, and the security        *)
(* extension never leaves: cse.py writes back the whole value it has read. *)
THEOREM OnlyItsOwnHolds ==
  ASSUME Overlapping = FALSE
  PROVE  Spec => OnlyItsOwn
<1>1. TypeOK /\ TypeOK' /\ RegInv /\ [Next]_vars => OnlyAbout /\ SecurityKept
  BY OnlyStep
<1>2. OnlyAbout /\ SecurityKept => [OnlyAbout /\ SecurityKept]_vars
  OBVIOUS
<1>3. Spec => [](TypeOK /\ OneSave /\ RegInv)
  BY RegInvHolds
<1> QED BY <1>1, <1>2, <1>3, PTL DEF Spec, OnlyItsOwn

(* What is unregistered has nothing behind it, as long as nobody           *)
(* reconciles a policy with content the report does not understand.        *)
ReconcilesInv == \A a \in Admin : Busy(a) /\ task[a].do = "reconcile" => "reconcile" \in Ops

(* Nobody reconciles but by beginning to.                                  *)
LEMMA ReconcilesNext ==
  ASSUME TypeOK, HalvesInv, ReconcilesInv, [Next]_vars
  PROVE  ReconcilesInv'
<1>1. ASSUME UNCHANGED <<pc, task>> PROVE ReconcilesInv'
  BY <1>1 DEF ReconcilesInv, Busy
<1>2. ASSUME NEW a \in Admin, Busy(a), UNCHANGED task, \A b \in Admin \ {a} : pc'[b] = pc[b]
      PROVE  ReconcilesInv'
  BY <1>2 DEF ReconcilesInv, Busy
<1>3. ASSUME NEW a \in Admin, \A b \in Admin \ {a} : pc'[b] = pc[b] /\ task'[b] = task[b],
             Busy(a)' /\ task'[a].do = "reconcile" => "reconcile" \in Ops
      PROVE  ReconcilesInv'
  BY <1>3 DEF ReconcilesInv, Busy
<1>4. ASSUME NEW a \in Admin, Step(a) PROVE ReconcilesInv'
  BY <1>2, <1>4 DEF Step, Read, ReadUnchanged, Write, Count, RegRead, RegWrite, BumpRead, BumpWrite,
     IniWrite, Report, RenameWrite, Survey, editorVars, Busy, Resting, TypeOK, EditorType
<1>5. ASSUME NEW a \in Admin, NEW f \in File, Open(a, f) PROVE ReconcilesInv'
  BY <1>3, <1>5 DEF Open, Busy, Resting, TypeOK, EditorType
<1>6. ASSUME NEW a \in Admin, Load(a) \/ Rename(a) \/ Reconcile(a) PROVE ReconcilesInv'
  BY <1>3, <1>6 DEF Load, Rename, Reconcile, Busy, Resting, TypeOK, EditorType, Task
<1>7. ASSUME NEW a \in Admin, NEW e \in Entry, NEW wanted \in BOOLEAN,
             Start(a, e, wanted) \/ Conflict(a, e, wanted)
      PROVE  ReconcilesInv'
  <2>1. task' = [task EXCEPT ![a].entry = e, ![a].wanted = wanted]
    BY <1>7 DEF Start, Conflict, Chosen
  <2>2. task'[a].do = task[a].do
    BY <2>1 DEF TypeOK, EditorType, Task
  <2>3. task[a].do = "edit"
    BY <1>7 DEF Start, Conflict, Chosen, HalvesInv, CopyInv
  <2>4. \A b \in Admin \ {a} : pc'[b] = pc[b] /\ task'[b] = task[b]
    BY <1>7, <2>1 DEF Start, Conflict, TypeOK, EditorType
  <2> QED BY <1>3, <2>2, <2>3, <2>4
<1>8. ASSUME NEW a \in Admin, Break(a) \/ LoseFile(a) \/ LoseIni(a) PROVE ReconcilesInv'
  BY <1>3, <1>8 DEF Break, LoseFile, LoseIni, Fail, Busy, Resting, TypeOK, EditorType
<1>9. ASSUME NEW h \in Half, Poll(h) PROVE ReconcilesInv'
  BY <1>1, <1>9 DEF Poll, editorVars
<1> QED BY <1>1, <1>4, <1>5, <1>6, <1>7, <1>8, <1>9 DEF Next, vars, editorVars

(* Only what has nothing behind it is removed.                             *)
Kept == \A f \in File : f.kind # "vgp" /\ Registered(f) /\ Content(files[f]) # {}
           => Ext(f) \in registered'[f.half]

(* No step removes an extension in use.                                    *)
LEMMA KeptStep ==
  ASSUME "reconcile" \notin Ops \/ \A f \in File : f.kind # "other",
         TypeOK, TypeOK', RegInv, ReconcilesInv, [Next]_vars
  PROVE  Kept
<1>1. CASE registered' = registered
  BY <1>1 DEF Kept, Registered
<1>2. CASE registered' # registered
  <2>1. PICK a \in Admin : \E j \in fix[a] :
           /\ pc[a] = "regWrite" /\ j \in FixType
           /\ registered' = [registered EXCEPT ![j.half] = Updated(registered[j.half], j)]
    BY <1>2, OnlyWrites
  <2>2. PICK j \in fix[a] :
           /\ j \in FixType
           /\ registered' = [registered EXCEPT ![j.half] = Updated(registered[j.half], j)]
    BY <2>1
  <2>3. /\ j.half \in Half /\ registered'[j.half] = Updated(registered[j.half], j)
        /\ \A h \in Half \ {j.half} : registered'[h] = registered[h]
    BY <2>2 DEF FixType, TypeOK, GpoType
  <2> SUFFICES ASSUME NEW f \in File, f.kind # "vgp", Registered(f), Content(files[f]) # {},
                      f.half = j.half, ~j.present
               PROVE  Ext(f) \notin j.exts
    BY <2>3, ExtOfFile DEF Kept, Registered, Updated
  <2>4. InUse(f)
    BY SharingIs DEF InUse
  <2>5. CASE task[a].do = "reconcile"
    <3>1. "reconcile" \in Ops
      BY <2>1, <2>5 DEF ReconcilesInv, Busy, Resting
    <3>2. Understood(f)
      BY <3>1 DEF Understood
    <3>3. Ext(f) \in AsksFor(f.half)
      BY <2>4, <3>2, AskedIs
    <3> QED BY <2>1, <2>5, <3>3 DEF RegInv, DiffInv
  <2>6. CASE task[a].do = "edit"
    <3>1. PICK g \in File : g = task[a].file
      BY DEF TypeOK, EditorType, Task
    <3>2. j = Due(g)
      BY <2>1, <2>6, <3>1 DEF RegInv, OwedInv, Registering
    <3>3. ~InUse(g) /\ j = Fix(g.half, {Ext(g)}, FALSE)
      <4>1. CASE InUse(g) \/ g.kind \in NeverUnregistered
        <5>1. j = Fix(g.half, {Ext(g)}, TRUE)
          BY <3>2, <4>1, DueIs
        <5>2. j.present = TRUE
          BY <5>1 DEF Fix
        <5> QED BY <5>2
      <4>2. CASE ~(InUse(g) \/ g.kind \in NeverUnregistered)
        BY <3>2, <4>2, DueIs
      <4> QED BY <4>1, <4>2
    <3>4. g \notin Sharing(f)
      BY <2>4, <3>3, SharingIs DEF InUse
    <3> QED BY <3>3, <3>4, SharingIs DEF Fix
  <2> QED BY <2>1, <2>5, <2>6 DEF RegInv, TaskInv
<1> QED BY <1>1, <1>2

(* No extension with content behind it is taken from the lists.  Where     *)
(* reconciling meets content the report does not understand the code does  *)
(* take it: surplus is what is registered without being understood, see    *)
(* report.py; hence the second assumption.                                 *)
THEOREM InUseKeptHolds ==
  ASSUME Overlapping = FALSE, "reconcile" \notin Ops \/ \A f \in File : f.kind # "other"
  PROVE  Spec => InUseKept
<1>1. Init => HalvesInv /\ ReconcilesInv
  BY DEF Init, HalvesInv, CopyInv, Advanced, ReconcilesInv, Busy, Resting
<1>2. TypeOK /\ OneSave /\ OneSave' /\ HalvesInv /\ ReconcilesInv /\ [Next]_vars
      => HalvesInv' /\ ReconcilesInv'
  BY HalvesNext, ReconcilesNext
<1>3. TypeOK /\ TypeOK' /\ RegInv /\ ReconcilesInv /\ [Next]_vars => Kept
  BY KeptStep
<1>4. Spec => [](TypeOK /\ OneSave /\ RegInv)
  BY RegInvHolds
<1>5. InUseKept <=> [][Kept]_vars
  BY PTL DEF InUseKept, Kept
<1>6. Kept => [Kept]_vars
  OBVIOUS
<1> QED BY <1>1, <1>2, <1>3, <1>4, <1>5, <1>6, PTL DEF Spec

---------------------------------------------------------------------------
(* What clients see.  Every save that has written a file advances the word *)
(* of its half before it is answered, and a word that is advanced fewer    *)
(* times than it has values never comes back to the one a client holds.    *)

(* How often the word of a half was advanced.                              *)
HalfAge(h) == Dist(WordOf(h, version), WordOf(h, FirstVersion))
CountedInv ==
  /\ \A h \in Half : HalfAge(h) <= saves /\ Dist(at[h], WordOf(h, FirstVersion)) <= HalfAge(h)
  /\ \A a \in Admin : /\ Owes(a) => \A h \in Half : HalfAge(h) < saves
                      /\ pc[a] = "bumpWrite" => number[a] = version
(* A save past its version, whose file the clients can see to be new.      *)
Fetchable(a) == task[a].do = "edit" /\ (pc[a] = "ini" \/ Advanced(a))
DueInv ==
  \A f \in File :
    /\ \A a \in Admin : Mid(a) => task[a].file # f
    /\ Settled(f) \/ \E a \in Admin : Fetchable(a) /\ changed[a] /\ task[a].file = f
    => ClientDue(f)
FetchInv == CountedInv /\ DueInv

(* How far a half's word is from the first one, and what advancing adds.   *)
LEMMA HalfAges ==
  ASSUME NEW v \in Int, NEW h \in Half
  PROVE  LET first(k) == WordOf(k, FirstVersion)
             age(k, n) == Dist(WordOf(k, n), first(k))
         IN  /\ \A k \in Half : age(k, v) \in Nat /\ age(k, FirstVersion) = 0
             /\ age(h, v) < MaxSaves => age(h, Bumped(h, v)) = age(h, v) + 1
             /\ \A k \in Half \ {h} : age(k, Bumped(h, v)) = age(k, v)
<1>1. Word \in Nat /\ MaxSaves \in Nat /\ MaxSaves < Word /\ FirstVersion \in Int
  BY ConstantsAssumption
<1>2. \A k \in Half : WordOf(k, v) \in AWord /\ WordOf(k, FirstVersion) \in AWord
  BY <1>1, WordType
<1>3. \A k \in Half : /\ Dist(WordOf(k, v), WordOf(k, FirstVersion)) \in Nat
                      /\ Dist(WordOf(k, FirstVersion), WordOf(k, FirstVersion)) = 0
  <2> SUFFICES ASSUME NEW k \in Half
               PROVE  /\ Dist(WordOf(k, v), WordOf(k, FirstVersion)) \in Nat
                      /\ Dist(WordOf(k, FirstVersion), WordOf(k, FirstVersion)) = 0
    OBVIOUS
  <2>1. Dist(WordOf(k, v), WordOf(k, FirstVersion)) \in 0..(Word - 1)
    BY <1>2, DistType
  <2>2. Dist(WordOf(k, FirstVersion), WordOf(k, FirstVersion)) = 0
    BY <1>2, DistType
  <2> QED BY <1>1, <2>1, <2>2
<1>4. ASSUME Dist(WordOf(h, v), WordOf(h, FirstVersion)) < MaxSaves
      PROVE  Dist(WordOf(h, Bumped(h, v)), WordOf(h, FirstVersion))
               = Dist(WordOf(h, v), WordOf(h, FirstVersion)) + 1
  <2>1. Dist(WordOf(h, v), WordOf(h, FirstVersion)) < Word - 1
    BY <1>1, <1>3, <1>4
  <2> QED BY <1>2, <2>1, DistType, BumpedWords
<1> QED BY <1>3, <1>4, BumpedWords

(* What a step has to leave alone for the clients to stay informed.        *)
Bare(f) == \E a \in Admin : Mid(a) /\ task[a].file = f
Answered(f) == Settled(f) \/ \E a \in Admin : Fetchable(a) /\ changed[a] /\ task[a].file = f
(* What is due to clients, file by file.                                   *)
LEMMA DueIsFor == DueInv <=> \A f \in File : ~Bare(f) /\ Answered(f) => ClientDue(f)
  BY DEF DueInv, Bare, Answered

(* A step that makes no file bare or answered that was not.                *)
LEMMA DueFrame ==
  ASSUME DueInv, \A f \in File : ~Bare(f)' /\ Answered(f)' =>
                   ClientDue(f)' \/ (~Bare(f) /\ Answered(f) /\ (ClientDue(f) => ClientDue(f)'))
  PROVE  DueInv'
<1>1. DueInv' <=> \A f \in File : ~Bare(f)' /\ Answered(f)' => ClientDue(f)'
  BY DEF DueInv, Bare, Answered
<1> QED BY <1>1, DueIsFor

(* A step that touches neither files nor versions nor notes.               *)
LEMMA DueSame ==
  ASSUME DueInv, UNCHANGED <<version, files, at, got, last>>,
         \A b \in Admin : /\ Mid(b)' <=> Mid(b)
                          /\ Fetchable(b)' /\ changed'[b] <=> Fetchable(b) /\ changed[b]
                          /\ Mid(b) \/ Fetchable(b) => task'[b].file = task[b].file
  PROVE  DueInv'
<1>1. \A f \in File : (Bare(f)' <=> Bare(f)) /\ (Answered(f)' <=> Answered(f))
  BY DEF Bare, Answered, Settled
<1>2. \A f \in File : ClientDue(f)' <=> ClientDue(f)
  BY DEF ClientDue
<1> QED BY <1>1, <1>2, DueFrame

(* Who works on the policy is alone.                                       *)
LEMMA AloneFetch ==
  ASSUME OneSave, NEW a \in Admin, Busy(a), NEW b \in Admin, b # a
  PROVE  ~Mid(b) /\ ~Fetchable(b) /\ ~Owes(b) /\ pc[b] \in Resting
  BY DEF OneSave, Busy, Resting, Mid, Fetchable, Owes, Advanced

(* Steps that write neither the version nor what a client has.             *)
LEMMA CountedSame ==
  ASSUME TypeOK, CountedInv, UNCHANGED <<version, at, saves>>,
         \A b \in Admin : /\ Owes(b)' => Owes(b)
                          /\ pc'[b] = "bumpWrite" => \/ pc[b] = "bumpWrite" /\ number'[b] = number[b]
                                                     \/ number'[b] = version
  PROVE  CountedInv'
  BY DEF CountedInv, HalfAge

(* The first state: the client has seen everything.                        *)
LEMMA FetchInit == Init => FetchInv
<1> SUFFICES ASSUME Init PROVE FetchInv
  OBVIOUS
<1>1. FirstVersion \in Int
  BY ConstantsAssumption
<1>2. \A h \in Half : HalfAge(h) = 0 /\ Dist(at[h], WordOf(h, FirstVersion)) = 0
  BY <1>1, HalfAges DEF Init, HalfAge
<1>3. CountedInv
  BY <1>2 DEF Init, CountedInv, Owes, Mid
<1>4. DueInv
  BY DEF Init, DueInv, ClientDue
<1> QED BY <1>3, <1>4 DEF FetchInv

(* Beginning an operation.                                                 *)
LEMMA FetchBegin ==
  ASSUME TypeOK, TypeOK', HalvesInv, FetchInv, NEW a \in Admin,
         \/ \E f \in File : Open(a, f)
         \/ Load(a) \/ Rename(a) \/ Reconcile(a)
         \/ \E e \in Entry, wanted \in BOOLEAN : Start(a, e, wanted) \/ Conflict(a, e, wanted)
  PROVE  FetchInv'
<1>1. UNCHANGED <<version, files, at, got, last>>
  BY DEF Open, Load, Rename, Reconcile, Start, Conflict, Chosen, gpoVars, noteVars, clientVars
<1>2. /\ \A b \in Admin \ {a} : pc'[b] = pc[b] /\ task'[b] = task[b] /\ changed'[b] = changed[b]
                                /\ number'[b] = number[b]
      /\ pc'[a] \in {"opening", "editing", "read", "idle", "renameWrite", "survey"}
      /\ pc[a] \in Resting
  BY DEF Open, Load, Rename, Reconcile, Start, Conflict, Chosen, Resting, stepVars, TypeOK,
         EditorType, StepType
<1>3. \A b \in Admin : /\ Mid(b)' <=> Mid(b)
                       /\ Fetchable(b)' <=> Fetchable(b)
                       /\ Mid(b) \/ Fetchable(b) => b # a
  BY <1>2 DEF Mid, Fetchable, Advanced, AfterRegister, Resting
<1>4. \A b \in Admin : Fetchable(b) => b # a
  BY <1>3
<1>5. DueInv'
  BY <1>1, <1>2, <1>3, DueSame DEF FetchInv
<1>6. CountedInv'
  <2>1. \/ saves' = saves /\ pc'[a] # "read"
        \/ saves' = saves + 1
    BY DEF Open, Load, Rename, Reconcile, Start, Conflict, Chosen, noteVars, TypeOK, EditorType
  <2>2. \A b \in Admin \ {a} : Owes(b)' => Owes(b)
    BY <1>2, <1>3 DEF Owes
  <2>3. Owes(a)' => saves' = saves + 1
    BY <1>2, <2>1 DEF Owes, Mid
  <2>4. \A h \in Half : HalfAge(h)' = HalfAge(h) /\ HalfAge(h) \in Nat /\ at'[h] = at[h]
    BY <1>1, HalfAges DEF HalfAge, TypeOK, GpoType
  <2>5. saves \in Nat /\ (saves' = saves \/ saves' = saves + 1)
    BY <2>1 DEF TypeOK, NoteType
  <2>6. \A h \in Half : HalfAge(h)' <= saves' /\ Dist(at[h], WordOf(h, FirstVersion))' <= HalfAge(h)'
    BY <2>4, <2>5 DEF FetchInv, CountedInv
  <2>7. ASSUME NEW b \in Admin, Owes(b)', NEW h \in Half PROVE HalfAge(h)' < saves'
    BY <2>2, <2>3, <2>4, <2>5, <2>7 DEF FetchInv, CountedInv
  <2>8. \A b \in Admin : pc'[b] = "bumpWrite" => number'[b] = version'
    BY <1>1, <1>2 DEF FetchInv, CountedInv
  <2> QED BY <2>6, <2>7, <2>8 DEF CountedInv, HalfAge
<1> QED BY <1>5, <1>6 DEF FetchInv

(* The steps between the file and the version, and those after it.         *)
LEMMA FetchAlong ==
  ASSUME TypeOK, TypeOK', HalvesInv, FetchInv, NEW a \in Admin,
         Count(a) \/ RegRead(a) \/ (\E j \in fix[a] : RegWrite(a, j)) \/ BumpRead(a)
           \/ IniWrite(a) \/ RenameWrite(a) \/ Survey(a)
  PROVE  FetchInv'
<1>1. UNCHANGED <<version, files, at, got, last, saves, task, changed>>
  BY DEF Count, RegRead, RegWrite, BumpRead, IniWrite, RenameWrite, Survey, gpoVars, editorVars,
         noteVars, clientVars
<1>2. \A b \in Admin \ {a} : pc'[b] = pc[b] /\ number'[b] = number[b]
  BY DEF Count, RegRead, RegWrite, BumpRead, IniWrite, RenameWrite, Survey, TypeOK, EditorType,
         StepType
<1>3. \/ pc[a] = "count" /\ pc'[a] = "register"
      \/ pc[a] = "register" /\ pc'[a] = "regWrite"
      \/ pc[a] = "regWrite" /\ pc'[a] \in {AfterRegister(a), "register"}
      \/ pc[a] = "bump" /\ pc'[a] = "bumpWrite" /\ number'[a] = version
      \/ pc[a] = "ini" /\ pc'[a] = IF task[a].file.kind = "admx" THEN "register" ELSE "report"
      \/ pc[a] = "renameWrite" /\ pc'[a] = "idle"
      \/ pc[a] = "survey" /\ pc'[a] \in {"report", "register"}
  BY DEF Count, RegRead, RegWrite, BumpRead, IniWrite, RenameWrite, Survey, TypeOK, EditorType,
         StepType
<1>4. /\ pc[a] \in {"count", "ini"} => task[a].do = "edit"
      /\ pc[a] = "count" => task[a].file.kind = "scripts"
      /\ pc[a] = "survey" => task[a].do = "reconcile"
  BY DEF HalvesInv, CopyInv
<1>5. AfterRegister(a) = IF task[a].do = "edit" /\ task[a].file.kind # "admx" THEN "bump" ELSE "report"
  BY DEF AfterRegister
<1>6. AfterRegister(a)' = AfterRegister(a)
  BY <1>1 DEF AfterRegister
<1>7. (Mid(a)' <=> Mid(a)) /\ (Fetchable(a)' <=> Fetchable(a))
  BY <1>1, <1>3, <1>4, <1>5, <1>6 DEF Mid, Fetchable, Advanced
<1>8. \A b \in Admin \ {a} : (Mid(b)' <=> Mid(b)) /\ (Fetchable(b)' <=> Fetchable(b))
  BY <1>1, <1>2 DEF Mid, Fetchable, Advanced, AfterRegister
<1>9. DueInv'
  BY <1>1, <1>7, <1>8, DueSame DEF FetchInv
<1>10. \A b \in Admin : Owes(b)' => Owes(b)
  BY <1>2, <1>3, <1>5, <1>7, <1>8 DEF Owes
<1>11. \A b \in Admin : pc'[b] = "bumpWrite" => \/ pc[b] = "bumpWrite" /\ number'[b] = number[b]
                                                \/ number'[b] = version
  BY <1>2, <1>3, <1>5
<1>12. CountedInv'
  BY <1>1, <1>10, <1>11, CountedSame DEF FetchInv
<1> QED BY <1>9, <1>12 DEF FetchInv

(* Reading the file again: nothing to write changes nothing.               *)
LEMMA FetchRereads ==
  ASSUME TypeOK, TypeOK', HalvesInv, FetchInv, NEW a \in Admin, Read(a)
  PROVE  FetchInv'
<1>0. PICK g \in File : g = task[a].file
  BY DEF TypeOK, EditorType, Task
<1>1. /\ UNCHANGED <<version, files, at, got, saves, task, number>> /\ pc[a] = "read"
      /\ task[a].do = "edit"
      /\ \A b \in Admin \ {a} : pc'[b] = pc[b] /\ changed'[b] = changed[b]
      /\ ~changed[a]
      /\ pc'[a] = "write" \/ (pc'[a] = "register" /\ g.kind = "admx" /\ ~changed'[a]) \/ pc'[a] = "idle"
      /\ \A f \in File : last'[f] \in {"none", "done"} => last[f] \in {"none", "done"}
  BY <1>0 DEF Read, ReadUnchanged, Answer, gpoVars, clientVars, TypeOK, EditorType, NoteType, Task,
              HalvesInv, CopyInv
<1>2. \A b \in Admin \ {a} : (Mid(b)' <=> Mid(b)) /\ (Fetchable(b)' <=> Fetchable(b))
  BY <1>1 DEF Mid, Fetchable, Advanced, AfterRegister
<1>3. ~Mid(a) /\ ~Mid(a)' /\ ~Fetchable(a) /\ ~(Fetchable(a)' /\ changed'[a])
  BY <1>0, <1>1 DEF Mid, Fetchable, Advanced, AfterRegister
<1>4. \A f \in File : /\ Bare(f)' <=> Bare(f)
                      /\ Answered(f)' => Answered(f)
                      /\ ClientDue(f)' <=> ClientDue(f)
  BY <1>1, <1>2, <1>3 DEF Bare, Answered, Settled, ClientDue
<1>5. DueInv'
  BY <1>4, DueFrame DEF FetchInv
<1>6. \A b \in Admin : Owes(b)' => Owes(b)
  BY <1>1, <1>2, <1>3 DEF Owes
<1>7. CountedInv'
  BY <1>1, <1>6, CountedSame DEF FetchInv
<1> QED BY <1>5, <1>7 DEF FetchInv

(* Writing the file: its clients wait for the version.                     *)
LEMMA FetchWrites ==
  ASSUME TypeOK, TypeOK', HalvesInv, FetchInv, NEW a \in Admin, Write(a)
  PROVE  FetchInv'
<1>0. PICK g \in File : g = task[a].file
  BY DEF TypeOK, EditorType, Task
<1>1. /\ UNCHANGED <<version, at, got, saves, task, number, changed, last>> /\ pc[a] = "write"
      /\ task[a].do = "edit"
      /\ \A b \in Admin \ {a} : pc'[b] = pc[b]
      /\ pc'[a] = AfterWrite(g)
      /\ \A f \in File \ {g} : files'[f] = files[f]
  BY <1>0 DEF Write, editorVars, noteVars, clientVars, TypeOK, GpoType, EditorType, HalvesInv, CopyInv
<1>2. \A b \in Admin \ {a} : (Mid(b)' <=> Mid(b)) /\ (Fetchable(b)' <=> Fetchable(b))
  BY <1>1 DEF Mid, Fetchable, Advanced, AfterRegister
<1>3. ~Mid(a) /\ Mid(a)' /\ ~Fetchable(a) /\ ~Fetchable(a)'
  BY <1>0, <1>1 DEF Mid, Fetchable, Advanced, AfterRegister, AfterWrite
<1>4. \A f \in File \ {g} : /\ Bare(f)' <=> Bare(f)
                            /\ Answered(f)' <=> Answered(f)
                            /\ ClientDue(f)' <=> ClientDue(f)
  BY <1>0, <1>1, <1>2, <1>3 DEF Bare, Answered, Settled, ClientDue
<1>5. Bare(g)'
  BY <1>0, <1>1, <1>3 DEF Bare
<1>6. DueInv'
  BY <1>4, <1>5, DueFrame DEF FetchInv
<1>7. \A b \in Admin : Owes(b)' => Owes(b)
  BY <1>1, <1>2, <1>3 DEF Owes
<1>8. pc'[a] # "bumpWrite"
  BY <1>1 DEF AfterWrite
<1>9. CountedInv'
  BY <1>1, <1>7, <1>8, CountedSame DEF FetchInv
<1> QED BY <1>6, <1>9 DEF FetchInv

(* Advancing the version: every client of the half is due.                 *)
LEMMA FetchBumps ==
  ASSUME TypeOK, TypeOK', OneSave, HalvesInv, FetchInv, NEW a \in Admin, BumpWrite(a)
  PROVE  FetchInv'
<1>0. PICK g \in File : g = task[a].file
  BY DEF TypeOK, EditorType, Task
<1>1. /\ UNCHANGED <<files, at, got, saves, task, changed, last>> /\ pc[a] = "bumpWrite"
      /\ task[a].do = "edit" /\ g.half \in Half
      /\ \A b \in Admin \ {a} : pc'[b] = pc[b] /\ number'[b] = number[b]
      /\ pc'[a] = "ini"
      /\ version' = Bumped(g.half, version) /\ version \in Int
  BY <1>0, ExtOfFile DEF BumpWrite, editorVars, noteVars, clientVars, TypeOK, GpoType, EditorType,
     StepType, HalvesInv, CopyInv, FetchInv, CountedInv
<1>2. \A b \in Admin \ {a} : ~Mid(b) /\ ~Fetchable(b) /\ ~Owes(b) /\ pc[b] \in Resting
  BY <1>1, AloneFetch DEF Busy, Resting
<1>3. /\ HalfAge(g.half) < saves /\ saves <= MaxSaves /\ saves \in Nat /\ MaxSaves \in Nat
      /\ HalfAge(g.half) \in Nat
  BY <1>1, ConstantsAssumption, HalfAges
  DEF FetchInv, CountedInv, Owes, Mid, TypeOK, NoteType, HalfAge
<1>4. /\ HalfAge(g.half)' = HalfAge(g.half) + 1
      /\ \A k \in Half \ {g.half} : HalfAge(k)' = HalfAge(k)
  <2>1. HalfAge(g.half) < MaxSaves
    BY <1>3
  <2>2. LET age(k, n) == Dist(WordOf(k, n), WordOf(k, FirstVersion))
        IN  age(g.half, version') = age(g.half, version) + 1
    BY <1>1, <2>1, HalfAges DEF HalfAge
  <2>3. \A k \in Half \ {g.half} : WordOf(k, version') = WordOf(k, version)
    BY <1>1, BumpedWords
  <2> QED BY <2>2, <2>3 DEF HalfAge
<1>5. ~Mid(a)' /\ pc'[a] # "bumpWrite" /\ ~Owes(a)'
  BY <1>1 DEF Mid, Owes
<1>6. \A b \in Admin \ {a} : pc'[b] \in Resting /\ ~Owes(b)'
  BY <1>1, <1>2 DEF Resting, Owes, Mid
<1>7. CountedInv'
  <2>1. \A h \in Half : /\ HalfAge(h)' <= saves'
                        /\ Dist(at'[h], WordOf(h, FirstVersion)) <= HalfAge(h)'
    <3> SUFFICES ASSUME NEW h \in Half
                 PROVE  /\ HalfAge(h)' <= saves'
                        /\ Dist(at'[h], WordOf(h, FirstVersion)) <= HalfAge(h)'
      OBVIOUS
    <3>1. CASE h # g.half
      BY <1>1, <1>4, <3>1 DEF FetchInv, CountedInv
    <3>2. CASE h = g.half
      <4>1. at[h] \in AWord /\ WordOf(h, FirstVersion) \in AWord
        BY WordType, ConstantsAssumption DEF TypeOK, NoteType, AWord
      <4>2. Dist(at[h], WordOf(h, FirstVersion)) \in Int
        BY <4>1, DistType
      <4>3. Dist(at[h], WordOf(h, FirstVersion)) <= HalfAge(h)
        BY DEF FetchInv, CountedInv
      <4> QED BY <1>1, <1>3, <1>4, <3>2, <4>2, <4>3
    <3> QED BY <3>1, <3>2
  <2>2. \A b \in Admin : pc'[b] # "bumpWrite"
    BY <1>5, <1>6 DEF Resting
  <2> QED BY <1>5, <1>6, <2>1, <2>2 DEF CountedInv, HalfAge
<1>8. at[g.half] # WordOf(g.half, version')
  <2>1. at[g.half] \in AWord /\ WordOf(g.half, FirstVersion) \in AWord
    BY <1>1, WordType, ConstantsAssumption DEF TypeOK, NoteType, AWord
  <2>2. Dist(at[g.half], WordOf(g.half, FirstVersion)) \in Int
    BY <2>1, DistType
  <2>3. Dist(at[g.half], WordOf(g.half, FirstVersion)) <= HalfAge(g.half)
    BY <1>1 DEF FetchInv, CountedInv
  <2>4. HalfAge(g.half)' = Dist(WordOf(g.half, version'), WordOf(g.half, FirstVersion))
    BY DEF HalfAge
  <2> QED BY <1>3, <1>4, <2>2, <2>3, <2>4
<1>9. DueInv'
  <2> SUFFICES ASSUME NEW f \in File, ~Bare(f)', Answered(f)', ~ClientDue(f)'
               PROVE  ~Bare(f) /\ Answered(f) /\ (ClientDue(f) => ClientDue(f)')
    BY DueFrame DEF FetchInv
  <2>1. f.half # g.half
    BY <1>1, <1>8 DEF ClientDue
  <2>2. f.half \in Half /\ WordOf(f.half, version') = WordOf(f.half, version)
    BY <1>1, <2>1, BumpedWords, ExtOfFile
  <2>3. ClientDue(f)' <=> ClientDue(f)
    BY <1>1, <2>2 DEF ClientDue
  <2>4. f # g
    BY <2>1
  <2>5. ~Bare(f)
    BY <1>0, <1>2, <2>4 DEF Bare
  <2>6. \A b \in Admin \ {a} : ~Fetchable(b)'
    BY <1>6 DEF Fetchable, Advanced, Resting
  <2>7. Answered(f)
    BY <1>0, <1>1, <2>4, <2>6 DEF Answered, Settled
  <2> QED BY <2>3, <2>5, <2>7
<1> QED BY <1>7, <1>9 DEF FetchInv

(* Answering: what counts as saved was advanced in the directory.          *)
LEMMA FetchReports ==
  ASSUME TypeOK, TypeOK', HalvesInv, FetchInv, NEW a \in Admin, Report(a)
  PROVE  FetchInv'
<1>0. PICK g \in File : g = task[a].file
  BY DEF TypeOK, EditorType, Task
<1>1. /\ UNCHANGED <<version, files, at, got, saves, task, number>> /\ pc[a] = "report"
      /\ \A b \in Admin \ {a} : pc'[b] = pc[b] /\ changed'[b] = changed[b]
      /\ pc'[a] = "idle" /\ ~changed'[a]
      /\ \A f \in File : last'[f] \in {"none", "done"} =>
           \/ last[f] \in {"none", "done"}
           \/ f = g /\ task[a].do = "edit" /\ changed[a]
  BY <1>0 DEF Report, Answer, gpoVars, clientVars, TypeOK, EditorType, NoteType, Task
<1>2. \A b \in Admin \ {a} : (Mid(b)' <=> Mid(b)) /\ (Fetchable(b)' <=> Fetchable(b))
  BY <1>1 DEF Mid, Fetchable, Advanced, AfterRegister
<1>3. ~Mid(a) /\ ~Mid(a)'
  BY <1>1 DEF Mid
<1>4. \A f \in File : (Bare(f)' <=> Bare(f)) /\ (ClientDue(f)' <=> ClientDue(f))
  BY <1>1, <1>2, <1>3 DEF Bare, ClientDue
<1>5. task[a].do = "edit" => Fetchable(a)
  BY <1>1 DEF Fetchable, Advanced
<1>6. \A f \in File : Answered(f)' => Answered(f)
  BY <1>0, <1>1, <1>2, <1>5 DEF Answered, Settled
<1>7. DueInv'
  BY <1>4, <1>6, DueFrame DEF FetchInv
<1>8. \A b \in Admin : Owes(b)' => Owes(b)
  BY <1>1, <1>2, <1>3 DEF Owes
<1>9. CountedInv'
  BY <1>1, <1>8, CountedSame DEF FetchInv
<1> QED BY <1>7, <1>9 DEF FetchInv

(* A failing save is not an answered one.                                  *)
LEMMA FetchFails ==
  ASSUME TypeOK, TypeOK', OneSave, HalvesInv, FetchInv, NEW a \in Admin,
         Break(a) \/ LoseFile(a) \/ LoseIni(a)
  PROVE  FetchInv'
<1>0. PICK g \in File : g = task[a].file
  BY DEF TypeOK, EditorType, Task
<1>1. /\ UNCHANGED <<version, at, got, saves, task>> /\ Busy(a) /\ pc'[a] \in {"failed", "idle"}
      /\ \A b \in Admin \ {a} : pc'[b] = pc[b] /\ changed'[b] = changed[b] /\ number'[b] = number[b]
      /\ \A f \in File : f # g \/ task[a].do # "edit" => last'[f] = last[f] /\ files'[f] = files[f]
      /\ task[a].do = "edit" => last'[g] = "failed"
  BY <1>0 DEF Break, LoseFile, LoseIni, Fail, Busy, Resting, TypeOK, GpoType, EditorType, NoteType,
              HalvesInv, CopyInv, clientVars, StepType
<1>2. \A b \in Admin \ {a} : ~Mid(b) /\ ~Fetchable(b) /\ ~Owes(b) /\ pc[b] \in Resting
  BY <1>1, AloneFetch
<1>3. \A b \in Admin : pc'[b] \in Resting
  BY <1>1, <1>2 DEF Resting
<1>4. \A b \in Admin : ~Mid(b)' /\ ~Fetchable(b)' /\ ~Owes(b)'
  BY <1>3 DEF Mid, Fetchable, Advanced, Owes, Resting
<1>5. DueInv'
  <2> SUFFICES ASSUME NEW f \in File, Settled(f)'
               PROVE  ~Bare(f) /\ Answered(f) /\ (ClientDue(f) => ClientDue(f)')
    BY <1>4, DueFrame DEF FetchInv, Answered
  <2>1. f # g \/ task[a].do # "edit"
    BY <1>1 DEF Settled
  <2>2. last'[f] = last[f] /\ files'[f] = files[f]
    BY <1>1, <2>1
  <2>3. Mid(a) => task[a].do = "edit"
    BY DEF Mid, AfterRegister, HalvesInv, CopyInv
  <2> QED BY <1>0, <1>1, <1>2, <2>1, <2>2, <2>3 DEF Bare, Answered, Settled, ClientDue
<1>6. CountedInv'
  BY <1>1, <1>3, <1>4, CountedSame DEF FetchInv, Resting
<1> QED BY <1>5, <1>6 DEF FetchInv

(* A client that looks has what is there.                                  *)
LEMMA FetchPolls ==
  ASSUME TypeOK, FetchInv, NEW h \in Half, Poll(h)
  PROVE  FetchInv'
<1>1. /\ UNCHANGED <<version, files, pc, task, changed, number, last, saves>>
      /\ at' = [at EXCEPT ![h] = WordOf(h, version)]
      /\ \A f \in File : got'[f] = IF f.half = h THEN files[f] ELSE got[f]
  BY DEF Poll, gpoVars, editorVars, stepVars, noteVars
<1>2. \A b \in Admin : /\ Mid(b)' <=> Mid(b)
                       /\ Fetchable(b)' <=> Fetchable(b)
                       /\ Owes(b)' <=> Owes(b)
  BY <1>1 DEF Mid, Fetchable, Advanced, AfterRegister, Owes
<1>3. \A f \in File : /\ Bare(f)' <=> Bare(f)
                      /\ Answered(f)' <=> Answered(f)
                      /\ ClientDue(f) => ClientDue(f)'
  BY <1>1, <1>2, ExtOfFile DEF Bare, Answered, Settled, ClientDue, TypeOK, NoteType
<1>4. DueInv'
  BY <1>3, DueFrame DEF FetchInv
<1>5. \A k \in Half : HalfAge(k)' = HalfAge(k) /\ HalfAge(k) \in Nat
  BY <1>1, HalfAges DEF HalfAge, TypeOK, GpoType
<1>6. \A k \in Half : at'[k] = at[k] \/ Dist(at'[k], WordOf(k, FirstVersion)) = HalfAge(k)
  BY <1>1 DEF HalfAge, TypeOK, NoteType
<1>7. \A k \in Half : Dist(at'[k], WordOf(k, FirstVersion)) <= HalfAge(k)'
  BY <1>5, <1>6 DEF FetchInv, CountedInv
<1>8. CountedInv'
  BY <1>1, <1>2, <1>5, <1>7 DEF FetchInv, CountedInv
<1> QED BY <1>4, <1>8 DEF FetchInv

(* Every step.                                                             *)
LEMMA FetchNext ==
  ASSUME TypeOK, TypeOK', OneSave, HalvesInv, FetchInv, [Next]_vars
  PROVE  FetchInv'
<1>1. CASE UNCHANGED vars
  <2>1. UNCHANGED <<version, files, at, got, last, saves, pc, task, changed, number>>
    BY <1>1 DEF vars, gpoVars, editorVars, stepVars, noteVars, clientVars
  <2>2. \A b \in Admin : /\ Mid(b)' <=> Mid(b)
                         /\ Fetchable(b)' <=> Fetchable(b)
                         /\ Owes(b)' <=> Owes(b)
    BY <2>1 DEF Mid, Fetchable, Advanced, AfterRegister, Owes
  <2> QED BY <2>1, <2>2, DueSame, CountedSame DEF FetchInv
<1>2. ASSUME NEW a \in Admin, Step(a) PROVE FetchInv'
  <2>1. CASE Read(a) \/ Write(a)
    BY <2>1, FetchRereads, FetchWrites
  <2>2. CASE \/ Count(a) \/ RegRead(a) \/ (\E j \in fix[a] : RegWrite(a, j)) \/ BumpRead(a)
             \/ IniWrite(a) \/ RenameWrite(a) \/ Survey(a)
    BY <2>2, FetchAlong
  <2>3. CASE BumpWrite(a) \/ Report(a)
    BY <2>3, FetchBumps, FetchReports
  <2> QED BY <1>2, <2>1, <2>2, <2>3 DEF Step
<1>3. ASSUME NEW a \in Admin,
             \/ \E f \in File : Open(a, f)
             \/ Load(a) \/ Rename(a) \/ Reconcile(a)
             \/ \E e \in Entry, wanted \in BOOLEAN : Start(a, e, wanted) \/ Conflict(a, e, wanted)
      PROVE  FetchInv'
  BY <1>3, FetchBegin
<1>4. ASSUME NEW a \in Admin, Break(a) \/ LoseFile(a) \/ LoseIni(a) PROVE FetchInv'
  BY <1>4, FetchFails
<1>5. ASSUME NEW h \in Half, Poll(h) PROVE FetchInv'
  BY <1>5, FetchPolls
<1> QED BY <1>1, <1>2, <1>3, <1>4, <1>5 DEF Next

(* Nobody works: every file whose last save was answered is the one the    *)
(* clients have, or their word of the version is not the policy's and they *)
(* will fetch it, whatever has failed before.                              *)
THEOREM ChangedIsFetchedHolds ==
  ASSUME Overlapping = FALSE
  PROVE  Spec => []ChangedIsFetched
<1>1. Init => HalvesInv /\ FetchInv
  BY FetchInit DEF Init, HalvesInv, CopyInv, Advanced
<1>2. TypeOK /\ TypeOK' /\ OneSave /\ OneSave' /\ HalvesInv /\ FetchInv /\ [Next]_vars
      => HalvesInv' /\ FetchInv'
  BY HalvesNext, FetchNext
<1>3. FetchInv => ChangedIsFetched
  BY DEF FetchInv, DueInv, ChangedIsFetched, Quiet, Mid, Busy, Resting
<1>4. Spec => [](TypeOK /\ OneSave)
  BY OneAtATime
<1> QED BY <1>1, <1>2, <1>3, <1>4, PTL DEF Spec
=============================================================================
