---------------------------- MODULE GpoLifeProofs ----------------------------
(***************************************************************************)
(* No folder without its policy, and the policy's permissions on all that  *)
(* is in it: FoldersOwned of GpoLife, for every set of sessions, policies, *)
(* backups and requests.                                                   *)
(*                                                                         *)
(* An operation is the rest of its plan, so the invariant says for each    *)
(* operation which rest it is at and what is there by then: the policy's   *)
(* object and folder, what the folder holds (MakerShape, OtherShape).      *)
(* AloneInv keeps the others out of a policy that is still being made,     *)
(* OwnedInv and FoldersInv are what the property is about.                 *)
(***************************************************************************)
EXTENDS GpoLife, SequenceTheorems, TLAPS

---------------------------------------------------------------------------
(* Plans.                                                                  *)
Making == {"create", "copy", "restore"}
\* The step before a new policy's name is looked up, and what comes after it
\* was read back.
Ahead(do) == IF do = "create" THEN <<>> ELSE IF do = "copy" THEN <<"source">> ELSE <<"backup">>
Rest(do) ==
  IF do = "copy" THEN <<"list", "files", "attributes", "version", "shown">>
  ELSE <<"files", "attributes", "version", "shown">>
Lead(do) == Len(Ahead(do))
\* What is left of a plan from its k-th step on.
From(do, k) == SubSeq(LifePlan(do), k, Len(LifePlan(do)))
RestSteps == {"list", "files", "attributes", "version", "shown"}
Steps == RestSteps \cup {"source", "backup", "names", "object", "children", "folder", "stamp",
                         "machine", "user", "ini", "made"}

(* What three sequences put together have where.                           *)
LEMMA ThreeParts ==
  ASSUME NEW S, NEW s \in Seq(S), NEW t \in Seq(S), NEW u \in Seq(S)
  PROVE  /\ s \o t \o u \in Seq(S) /\ Len(s \o t \o u) = Len(s) + Len(t) + Len(u)
         /\ \A k \in 1..Len(s) : (s \o t \o u)[k] = s[k]
         /\ \A k \in 1..Len(t) : (s \o t \o u)[Len(s) + k] = t[k]
         /\ \A k \in 1..Len(u) : (s \o t \o u)[Len(s) + Len(t) + k] = u[k]
<1> DEFINE v == s \o t
<1>1. /\ v \in Seq(S) /\ Len(v) = Len(s) + Len(t)
      /\ \A k \in 1..Len(s) + Len(t) : v[k] = IF k <= Len(s) THEN s[k] ELSE t[k - Len(s)]
  BY ConcatProperties
<1> HIDE DEF v
<1>2. /\ v \o u \in Seq(S) /\ Len(v \o u) = Len(v) + Len(u)
      /\ \A k \in 1..Len(v) + Len(u) : (v \o u)[k] = IF k <= Len(v) THEN v[k] ELSE u[k - Len(v)]
  <2>1. v \in Seq(S)
    BY <1>1
  <2> QED
    BY <2>1, ConcatProperties, Zenon
<1>3. Len(s) \in Nat /\ Len(t) \in Nat /\ Len(u) \in Nat
  OBVIOUS
<1> DEFINE w == v \o u
<1> HIDE DEF w
<1>4. \A k \in 1..Len(s) : w[k] = s[k]
  BY <1>1, <1>2, <1>3 DEF w
<1>5. ASSUME NEW k \in 1..Len(t) PROVE w[Len(s) + k] = t[k]
  <2>1. Len(s) + k \in 1..Len(s) + Len(t) /\ (Len(s) + k) - Len(s) = k /\ ~(Len(s) + k <= Len(s))
    BY <1>3
  <2>2. v[Len(s) + k] = t[k]
    BY <1>1, <2>1
  <2> QED
    BY <1>1, <1>2, <1>3, <2>1, <2>2 DEF w
<1>6. ASSUME NEW k \in 1..Len(u) PROVE w[Len(s) + Len(t) + k] = u[k]
  <2>1. /\ Len(s) + Len(t) + k \in 1..Len(v) + Len(u)
        /\ (Len(s) + Len(t) + k) - Len(v) = k /\ ~(Len(s) + Len(t) + k <= Len(v))
    BY <1>1, <1>3
  <2> QED
    BY <1>2, <2>1 DEF w
<1> QED
  BY <1>1, <1>2, <1>3, <1>4, <1>5, <1>6 DEF v, w

LEMMA CreateIs ==
  /\ Create \in Seq(Steps) /\ Len(Create) = 9
  /\ Create[1] = "names" /\ Create[2] = "object" /\ Create[3] = "children" /\ Create[4] = "folder"
  /\ Create[5] = "stamp" /\ Create[6] = "machine" /\ Create[7] = "user" /\ Create[8] = "ini"
  /\ Create[9] = "made"
BY DEF Create, Steps

(* The plan of an operation that makes a policy, step by step.             *)
LEMMA PlanIs ==
  ASSUME NEW do \in Making
  PROVE  /\ Lead(do) \in {0, 1} /\ LifePlan(do) \in Seq(Steps)
         /\ Len(LifePlan(do)) \in Nat /\ Len(LifePlan(do)) >= Lead(do) + 9
         /\ (do = "create" <=> Len(LifePlan(do)) = Lead(do) + 9)
         /\ \A k \in 1..Lead(do) : LifePlan(do)[k] \in {"source", "backup"}
         /\ \A k \in 1..9 : LifePlan(do)[Lead(do) + k] = Create[k]
         /\ \A k \in Lead(do) + 10..Len(LifePlan(do)) :
              LifePlan(do)[k] \in RestSteps /\ (LifePlan(do)[k] = "list" => do = "copy")
<1>1. CASE do = "create"
  <2>1. LifePlan(do) = Create /\ Lead(do) = 0
    BY <1>1 DEF LifePlan, Lead, Ahead
  <2> QED
    <3>1. /\ Lead(do) = 0 /\ LifePlan(do) \in Seq(Steps) /\ Len(LifePlan(do)) = 9
          /\ \A k \in 1..9 : LifePlan(do)[k] = Create[k]
      BY <2>1, CreateIs
    <3> HIDE DEF Lead
    <3> DEFINE q == LifePlan(do)
               l == Lead(do)
    <3>2. l = 0 /\ q \in Seq(Steps) /\ Len(q) = 9 /\ \A k \in 1..9 : q[k] = Create[k]
      BY <3>1
    <3> HIDE DEF q, l
    <3>3. /\ \A k \in 1..9 : q[l + k] = Create[k]
          /\ \A k \in 1..l : q[k] \in {"source", "backup"}
          /\ \A k \in l + 10..Len(q) : q[k] \in RestSteps /\ (q[k] = "list" => do = "copy")
      BY <3>2
    <3>4. l \in {0, 1} /\ Len(q) \in Nat /\ Len(q) >= l + 9 /\ Len(q) = l + 9
      BY <3>2
    <3> QED
      BY <1>1, <3>2, <3>3, <3>4 DEF q, l
<1>2. CASE do \in {"copy", "restore"}
  <2> DEFINE s == Ahead(do)
             u == Rest(do)
  <2>1. LifePlan(do) = s \o Create \o u
    BY <1>2 DEF LifePlan, Ahead, Rest
  <2>2. /\ s \in Seq(Steps) /\ Len(s) = 1 /\ s[1] \in {"source", "backup"}
    <3>1. s = <<"source">> \/ s = <<"backup">>
      BY <1>2 DEF Ahead
    <3>2. "source" \in Steps /\ "backup" \in Steps
      BY DEF Steps
    <3> HIDE DEF s
    <3>3. CASE s = <<"source">>
      BY <3>2, <3>3
    <3>4. CASE s = <<"backup">>
      BY <3>2, <3>4
    <3> QED
      BY <3>1, <3>3, <3>4
  <2>3. /\ u \in Seq(RestSteps) /\ Len(u) \in Nat /\ Len(u) > 0
        /\ \A k \in 1..Len(u) : u[k] = "list" => do = "copy"
    <3>1. \/ u = <<"list", "files", "attributes", "version", "shown">> /\ do = "copy"
          \/ u = <<"files", "attributes", "version", "shown">>
      BY <1>2 DEF Rest
    <3> HIDE DEF u
    <3>2. CASE u = <<"list", "files", "attributes", "version", "shown">> /\ do = "copy"
      BY <3>2 DEF RestSteps
    <3>3. CASE u = <<"files", "attributes", "version", "shown">>
      BY <3>3 DEF RestSteps
    <3> QED
      BY <3>1, <3>2, <3>3
  <2> HIDE DEF s, u
  <2>4. u \in Seq(Steps) /\ \A k \in 1..Len(u) : u[k] \in RestSteps /\ (u[k] = "list" => do = "copy")
    BY <2>3 DEF Steps
  <2>5. /\ LifePlan(do) \in Seq(Steps) /\ Len(LifePlan(do)) = Len(s) + 9 + Len(u)
        /\ \A k \in 1..Len(s) : LifePlan(do)[k] = s[k]
        /\ \A k \in 1..9 : LifePlan(do)[Len(s) + k] = Create[k]
        /\ \A k \in 1..Len(u) : LifePlan(do)[Len(s) + 9 + k] = u[k]
    <3>1. Create \in Seq(Steps) /\ Len(Create) = 9
      BY CreateIs
    <3>2. s \in Seq(Steps) /\ u \in Seq(Steps)
      BY <2>2, <2>4
    <3> DEFINE t == Create
    <3> HIDE DEF t
    <3>3. /\ s \o t \o u \in Seq(Steps) /\ Len(s \o t \o u) = Len(s) + Len(t) + Len(u)
          /\ \A k \in 1..Len(s) : (s \o t \o u)[k] = s[k]
          /\ \A k \in 1..Len(t) : (s \o t \o u)[Len(s) + k] = t[k]
          /\ \A k \in 1..Len(u) : (s \o t \o u)[Len(s) + Len(t) + k] = u[k]
      <4>1. s \in Seq(Steps) /\ t \in Seq(Steps) /\ u \in Seq(Steps)
        BY <3>1, <3>2 DEF t
      <4> QED
        BY <4>1, ThreeParts, SMTT(30)
    <3>4. LifePlan(do) = s \o t \o u
      BY <2>1 DEF t
    <3> QED
      BY <3>1, <3>3, <3>4 DEF t
  <2>6. ASSUME NEW k \in Len(s) + 10..Len(LifePlan(do))
        PROVE  LifePlan(do)[k] \in RestSteps /\ (LifePlan(do)[k] = "list" => do = "copy")
    <3>1. k - Len(s) - 9 \in 1..Len(u) /\ Len(s) + 9 + (k - Len(s) - 9) = k
      BY <2>2, <2>3, <2>5
    <3> QED
      BY <2>4, <2>5, <3>1
  <2>7. Lead(do) = Len(s)
    BY DEF Lead, s
  <2>8. \A k \in 1..Len(s) : s[k] \in {"source", "backup"}
    BY <2>2
  <2>9. do # "create" /\ Len(LifePlan(do)) \in Nat /\ Len(LifePlan(do)) > Len(s) + 9
    <3> DEFINE n == Len(LifePlan(do))
    <3>1. n = Len(s) + 9 + Len(u)
      BY <2>5
    <3> HIDE DEF n
    <3>2. n \in Nat /\ n > Len(s) + 9
      <4>1. Len(s) = 1 /\ Len(u) \in Nat /\ Len(u) > 0
        BY <2>2, <2>3
      <4> QED
        BY <3>1, <4>1
    <3> QED
      BY <1>2, <3>2 DEF n
  <2> QED
    BY <2>2, <2>5, <2>6, <2>7, <2>8, <2>9
<1> QED
  BY <1>1, <1>2 DEF Making

(* What is left of a plan begins with the step it is at, and what comes    *)
(* after that is left from the next step on.                               *)
LEMMA FromIs ==
  ASSUME NEW do \in Making, NEW k \in 1..Len(LifePlan(do))
  PROVE  /\ From(do, k) \in Seq(Steps) /\ Len(From(do, k)) = Len(LifePlan(do)) - k + 1
         /\ From(do, k) # <<>> /\ Head(From(do, k)) = LifePlan(do)[k]
         /\ k < Len(LifePlan(do)) => Tail(From(do, k)) = From(do, k + 1)
<1> DEFINE p == LifePlan(do)
           n == Len(p)
<1>1. p \in Seq(Steps) /\ n \in Nat
  BY PlanIs
<1> HIDE DEF p
<1>2. ASSUME NEW j \in 1..n
      PROVE  /\ SubSeq(p, j, n) \in Seq(Steps) /\ Len(SubSeq(p, j, n)) = n - j + 1
             /\ \A i \in 1..n - j + 1 : SubSeq(p, j, n)[i] = p[j + i - 1]
  <2>1. \A i \in j..n : p[i] \in Steps
    BY <1>1
  <2> QED
    BY <1>1, <2>1, SubSeqProperties
<1>3. k \in 1..n
  BY DEF p
<1> DEFINE s == SubSeq(p, k, n)
<1>4. /\ s \in Seq(Steps) /\ Len(s) = n - k + 1
      /\ \A i \in 1..n - k + 1 : s[i] = p[k + i - 1]
  BY <1>2, <1>3
<1> HIDE DEF s
<1>5. s # <<>> /\ Head(s) = p[k]
  BY <1>1, <1>3, <1>4
<1>6. ASSUME k < n PROVE Tail(s) = SubSeq(p, k + 1, n)
  <2> DEFINE t == SubSeq(p, k + 1, n)
  <2>1. /\ t \in Seq(Steps) /\ Len(t) = n - k
        /\ \A i \in 1..n - k : t[i] = p[k + i]
    <3>1. k + 1 \in 1..n /\ n - (k + 1) + 1 = n - k /\ \A i \in 1..n - k : (k + 1) + i - 1 = k + i
      BY <1>1, <1>3, <1>6
    <3>2. /\ t \in Seq(Steps) /\ Len(t) = n - (k + 1) + 1
          /\ \A i \in 1..n - (k + 1) + 1 : t[i] = p[(k + 1) + i - 1]
      BY <1>2, <3>1
    <3> HIDE DEF t
    <3> QED
      BY <3>1, <3>2
  <2> HIDE DEF t
  <2>2. /\ Tail(s) \in Seq(Steps) /\ Len(Tail(s)) = n - k
        /\ \A i \in 1..n - k : Tail(s)[i] = s[i + 1]
    BY <1>1, <1>3, <1>4, <1>5
  <2>3. \A i \in 1..n - k : i + 1 \in 1..n - k + 1 /\ k + (i + 1) - 1 = k + i
    BY <1>1, <1>3
  <2>4. \A i \in 1..n - k : Tail(s)[i] = t[i]
    BY <1>4, <2>1, <2>2, <2>3
  <2>5. Tail(s) = t
    BY <2>1, <2>2, <2>4, SeqEqual
  <2> QED
    BY <2>5 DEF t
<1> QED
  BY <1>4, <1>5, <1>6 DEF From, p, s

---------------------------------------------------------------------------
(* The phases of an operation that makes a policy.  object, folder: whether *)
(* its policy has them; paths: what is in its folder; last:  *)
(* whether no call can fail any more.                                      *)
OpFields == {"do", "todo", "result", "source", "id", "name", "off", "on", "undo", "folder", "left",
             "of", "archive", "why", "faulty", "nth", "alone"}

\* Nothing is made yet.
Before(op) ==
  /\ op.undo = "none" /\ op.why = "none" /\ op.id = "none" /\ op.folder = FALSE
  /\ \E k \in 1..Lead(op.do) + 2 : op.todo = From(op.do, k)
\* The policy has its object, and its folder from the step after MakeFolder's.
Creating(op, object, folder, paths) ==
  /\ op.undo = "create" /\ op.why = "none" /\ object /\ op.folder = folder
  /\ \E k \in Lead(op.do) + 3..Lead(op.do) + 9 :
       /\ op.todo = From(op.do, k) /\ folder = (k > Lead(op.do) + 4)
       /\ k \in {Lead(op.do) + 5, Lead(op.do) + 6} => paths = {Top}
       /\ k = Lead(op.do) + 7 => paths = {Top, <<"Machine">>}
\* A call failed while it was created.
RollingBack(op, object, folder, last) ==
  /\ op.undo = "rollback" /\ op.why # "none" /\ object /\ last
  /\ \/ op.todo = <<"untree", "unobject">>
     \/ op.todo = <<"unobject">> /\ ~folder
\* The policy is whole and gets its content.
Filling(op, object, folder) ==
  /\ op.undo = "delete" /\ op.why = "none" /\ object /\ folder
  /\ \E k \in Lead(op.do) + 10..Len(LifePlan(op.do)) : op.todo = From(op.do, k)
\* Filling it failed, and it is deleted.
TakingBack(op, object, folder) ==
  /\ op.undo = "none" /\ op.why # "none" /\ object
  /\ \/ op.todo \in {<<"mine", "tree", "gone">>, <<"tree", "gone">>}
     \/ op.todo = <<"gone">> /\ ~folder
\* What a file of a backup is called is a path.
ArchiveOk(b) == "files" \in DOMAIN b /\ \A p \in DOMAIN b.files : IsPath(p)
MakerShape(op, object, folder, paths, last) ==
  /\ DOMAIN op = OpFields /\ op.do \in Making
  /\ op.left \subseteq DOMAIN op.archive.files \/ op.do # "restore"
  /\ ArchiveOk(op.archive)
  /\ \/ Before(op) \/ Creating(op, object, folder, paths) \/ RollingBack(op, object, folder, last)
     \/ Filling(op, object, folder) \/ TakingBack(op, object, folder)

\* The other operations; a deletion has removed the folder when the object's
\* turn comes, or a save has made it again.
DeleterShape(op, folder) ==
  /\ op.do = "delete" /\ op.undo = "none"
  /\ \/ op.todo \in {<<"source", "tree", "gone">>, <<"tree", "gone">>}
     \/ op.todo = <<"gone">> /\ ~folder
OtherSteps(do) ==
  CASE do = "backup" -> {"source", "list", "files", "pack"}
    [] do = "status" -> {"source", "flags"}
    [] OTHER -> {"source", "parents", "save", "bump", "restamp"}
ReaderShape(op) ==
  /\ op.do \in {"backup", "status", "edit"} /\ op.undo = "none"
  /\ op.todo \in Seq(OtherSteps(op.do)) /\ op.todo # <<>>
OtherShape(op, folder) ==
  /\ DOMAIN op = OpFields
  /\ DeleterShape(op, folder) \/ ReaderShape(op)
  /\ op.do = "backup" => ArchiveOk(op.archive)
IdleShape(op) == op.do = "none" /\ op.todo = <<>>

(* What the shapes say of the next step.                                   *)
LEMMA BeforeHead ==
  ASSUME NEW op, op.do \in Making, Before(op)
  PROVE  /\ Head(op.todo) \in {"source", "backup", "names", "object"} /\ op.todo # <<>>
         /\ Head(op.todo) # "object" =>
              Len(op.todo) > 1 /\ \E k \in 1..Lead(op.do) + 2 : Tail(op.todo) = From(op.do, k)
         /\ Head(op.todo) = "object" =>
              Len(op.todo) > 1 /\ Tail(op.todo) = From(op.do, Lead(op.do) + 3)
<1> DEFINE do == op.do
           l == Lead(do)
           n == Len(LifePlan(do))
           plan == LifePlan(do)
<1>1. PICK k \in 1..l + 2 : op.todo = From(do, k)
  BY DEF Before
<1>2. /\ l \in {0, 1} /\ n \in Nat /\ n >= l + 9
      /\ \A j \in 1..l : plan[j] \in {"source", "backup"}
      /\ plan[l + 1] = "names" /\ plan[l + 2] = "object"
  BY PlanIs, CreateIs
<1> HIDE DEF l, n, plan
<1>3. k \in 1..n /\ k < n
  BY <1>2
<1>4. /\ From(do, k) # <<>> /\ Head(From(do, k)) = plan[k] /\ Len(From(do, k)) = n - k + 1
      /\ Tail(From(do, k)) = From(do, k + 1)
  BY <1>3, FromIs DEF n, plan
<1>5. Len(op.todo) > 1
  BY <1>1, <1>2, <1>3, <1>4
<1>6. CASE k = l + 2
  <2>1. k + 1 = l + 3
    BY <1>2, <1>6
  <2> QED
    BY <1>1, <1>2, <1>4, <1>5, <1>6, <2>1 DEF l
<1>7. CASE k # l + 2
  <2>1. k \in 1..l \/ k = l + 1
    BY <1>2, <1>7
  <2>2. k + 1 \in 1..l + 2
    BY <1>2, <2>1
  <2>3. plan[k] \in {"source", "backup", "names"}
    BY <1>2, <2>1
  <2> QED
    BY <1>1, <1>4, <1>5, <2>2, <2>3 DEF l
<1> QED
  BY <1>6, <1>7

LEMMA CreatingHead ==
  ASSUME NEW op, op.do \in Making, NEW k \in 3..9, op.todo = From(op.do, Lead(op.do) + k)
  PROVE  /\ Head(op.todo) = Create[k] /\ op.todo # <<>>
         /\ Len(op.todo) > 1 <=> op.do # "create" \/ k < 9
         /\ Len(op.todo) > 1 => Tail(op.todo) = From(op.do, Lead(op.do) + k + 1)
         /\ k = 9 /\ Len(op.todo) > 1 => Lead(op.do) + 10 <= Len(LifePlan(op.do))
<1> DEFINE do == op.do
           l == Lead(do)
           n == Len(LifePlan(do))
           plan == LifePlan(do)
<1>1. op.todo = From(do, l + k)
  OBVIOUS
<1>2. /\ l \in {0, 1} /\ n \in Nat /\ n >= l + 9 /\ (do = "create" <=> n = l + 9)
      /\ plan[l + k] = Create[k]
  <2>1. k \in 1..9
    OBVIOUS
  <2>2. l \in {0, 1} /\ n \in Nat /\ n >= l + 9 /\ (do = "create" <=> n = l + 9)
    BY PlanIs
  <2>3. \A j \in 1..9 : plan[l + j] = Create[j]
    BY PlanIs
  <2> QED
    BY <2>1, <2>2, <2>3
<1> HIDE DEF l, n, plan
<1>3. l + k \in 1..n
  BY <1>2
<1>4. /\ From(do, l + k) # <<>> /\ Head(From(do, l + k)) = plan[l + k]
      /\ Len(From(do, l + k)) = n - (l + k) + 1
      /\ l + k < n => Tail(From(do, l + k)) = From(do, l + k + 1)
  BY <1>3, FromIs DEF n, plan
<1>5. /\ Len(op.todo) > 1 <=> l + k < n
      /\ l + k < n <=> do # "create" \/ k < 9
      /\ k = 9 /\ l + k < n => l + 10 <= n
  BY <1>1, <1>2, <1>3, <1>4
<1> QED
  BY <1>1, <1>2, <1>4, <1>5 DEF l, n

LEMMA FillingHead ==
  ASSUME NEW op, op.do \in Making, NEW object, NEW folder, Filling(op, object, folder)
  PROVE  /\ Head(op.todo) \in RestSteps /\ op.todo # <<>> /\ (Head(op.todo) = "list" => op.do = "copy")
         /\ Len(op.todo) > 1 =>
              \E k \in Lead(op.do) + 10..Len(LifePlan(op.do)) : Tail(op.todo) = From(op.do, k)
<1> DEFINE do == op.do
           l == Lead(do)
           n == Len(LifePlan(do))
           plan == LifePlan(do)
<1>1. PICK k \in l + 10..n : op.todo = From(do, k)
  BY DEF Filling
<1>2. l \in {0, 1} /\ n \in Nat /\ plan[k] \in RestSteps /\ (plan[k] = "list" => do = "copy")
  <2>1. l \in {0, 1} /\ n \in Nat
    BY PlanIs
  <2>2. \A j \in l + 10..n : plan[j] \in RestSteps /\ (plan[j] = "list" => do = "copy")
    BY PlanIs
  <2> HIDE DEF l, n, plan
  <2> QED
    BY <2>1, <2>2
<1> HIDE DEF l, n, plan
<1>3. k \in 1..n
  BY <1>2
<1>4. /\ From(do, k) # <<>> /\ Head(From(do, k)) = plan[k] /\ Len(From(do, k)) = n - k + 1
      /\ k < n => Tail(From(do, k)) = From(do, k + 1)
  BY <1>3, FromIs DEF n, plan
<1>5. Len(op.todo) > 1 => k < n /\ k + 1 \in l + 10..n
  BY <1>1, <1>2, <1>3, <1>4
<1> QED
  BY <1>1, <1>2, <1>4, <1>5 DEF l, n

---------------------------------------------------------------------------
(* How an operation goes on.                                               *)

\* q is the operation with other data.
SameCourse(op, q) ==
  /\ DOMAIN q = OpFields /\ q.do = op.do /\ q.id = op.id /\ q.todo = op.todo
  /\ q.undo = op.undo /\ q.why = op.why /\ q.folder = op.folder
PathsOk(q) ==
  /\ q.left \subseteq DOMAIN q.archive.files \/ q.do # "restore"
  /\ ArchiveOk(q.archive)

(* After its last step an operation is over, before that only what is left *)
(* to do changes.                                                          *)
LEMMA Next1Is ==
  ASSUME NEW q, DOMAIN q = OpFields
  PROVE  /\ Len(q.todo) > 1 =>
              /\ DOMAIN Next1(q) = OpFields /\ Next1(q).todo = Tail(q.todo)
              /\ Next1(q).do = q.do /\ Next1(q).id = q.id /\ Next1(q).undo = q.undo
              /\ Next1(q).why = q.why /\ Next1(q).folder = q.folder
              /\ Next1(q).left = q.left /\ Next1(q).archive = q.archive
         /\ ~(Len(q.todo) > 1) => IdleShape(Next1(q))
<1>1. CASE Len(q.todo) > 1
  <2> DEFINE r == [q EXCEPT !.todo = Tail(@)]
  <2>1. Next1(q) = r
    BY <1>1 DEF Next1
  <2>2. r = [q EXCEPT !.todo = Tail(q.todo)]
    BY DEF OpFields
  <2> HIDE DEF r
  <2> QED
    BY <1>1, <2>1, <2>2 DEF OpFields
<1>2. CASE ~(Len(q.todo) > 1)
  BY <1>2 DEF Next1, LIdle, IdleShape
<1> QED
  BY <1>1, <1>2

(* A step of the maker of a policy that changes neither its object nor its *)
(* folder.                                                                 *)
LEMMA MakerGoesOn ==
  ASSUME NEW op, NEW q, NEW object, NEW folder \in BOOLEAN, NEW paths, NEW later, NEW last,
         MakerShape(op, object, folder, paths, last), SameCourse(op, q), PathsOk(q),
         Head(op.todo) \notin {"object", "folder", "made", "untree", "tree", "gone", "unobject"},
         Head(op.todo) = "stamp" => later = {Top},
         Head(op.todo) = "machine" => later = {Top, <<"Machine">>}
  PROVE  /\ IdleShape(Next1(q)) \/ MakerShape(Next1(q), object, folder, later, last)
         /\ IdleShape(Next1(q)) \/ (Next1(q).do = op.do /\ Next1(q).id = op.id)
<1> DEFINE r == Next1(q)
<1>1. /\ op.do \in Making /\ DOMAIN op = OpFields /\ op.todo = q.todo /\ op.do = q.do
      /\ op.folder = q.folder /\ op.undo = q.undo /\ op.why = q.why /\ op.id = q.id
  BY DEF MakerShape, SameCourse
<1>2. CASE ~(Len(q.todo) > 1)
  BY <1>2, Next1Is DEF SameCourse
<1>3. CASE Len(q.todo) > 1
  <2>1. /\ DOMAIN r = OpFields /\ r.todo = Tail(op.todo)
        /\ r.do = op.do /\ r.id = op.id /\ r.undo = op.undo
        /\ r.why = op.why /\ r.folder = op.folder
        /\ r.left = q.left /\ r.archive = q.archive
    BY <1>1, <1>3, Next1Is DEF SameCourse
  <2> HIDE DEF r
  <2>2. PathsOk(r)
    BY <1>1, <2>1 DEF PathsOk
  <2>3. ASSUME Before(op) PROVE Before(r)
    <3>1. PICK k \in 1..Lead(op.do) + 2 : Tail(op.todo) = From(op.do, k)
      BY <1>1, <2>3, BeforeHead
    <3>2. r.todo = From(r.do, k) /\ k \in 1..Lead(r.do) + 2
      BY <2>1, <3>1
    <3> QED
      BY <2>1, <2>3, <3>2 DEF Before
  <2>4. ASSUME Creating(op, object, folder, paths) PROVE Creating(r, object, folder, later)
    <3>1. PICK j \in Lead(op.do) + 3..Lead(op.do) + 9 :
            op.todo = From(op.do, j) /\ folder = (j > Lead(op.do) + 4)
      BY <2>4 DEF Creating
    <3>2. Lead(op.do) \in {0, 1}
      BY <1>1, PlanIs
    <3>3. PICK k \in 3..9 : j = Lead(op.do) + k
      <4>1. j - Lead(op.do) \in 3..9 /\ j = Lead(op.do) + (j - Lead(op.do))
        BY <3>2
      <4> QED
        BY <4>1
    <3>4. /\ Head(op.todo) = Create[k] /\ Tail(op.todo) = From(op.do, Lead(op.do) + k + 1)
      BY <1>1, <1>3, <3>1, <3>3, CreatingHead
    <3>5. k \notin {4, 9}
      BY <3>4, CreateIs
    <3>6. /\ Lead(op.do) + k + 1 \in Lead(op.do) + 3..Lead(op.do) + 9
          /\ folder = (Lead(op.do) + k + 1 > Lead(op.do) + 4)
          /\ Lead(op.do) + k + 1 # Lead(op.do) + 5
          /\ Lead(op.do) + k + 1 = Lead(op.do) + 6 => k = 5
          /\ Lead(op.do) + k + 1 = Lead(op.do) + 7 => k = 6
      BY <3>1, <3>2, <3>3, <3>5
    <3>7. (k = 5 => later = {Top}) /\ (k = 6 => later = {Top, <<"Machine">>})
      BY <3>4, CreateIs
    <3> QED
      BY <2>1, <2>4, <3>4, <3>6, <3>7 DEF Creating
  <2>5. ASSUME RollingBack(op, object, folder, last) PROVE FALSE
    BY <2>5 DEF RollingBack
  <2>6. ASSUME Filling(op, object, folder) PROVE Filling(r, object, folder)
    <3>1. PICK k \in Lead(op.do) + 10..Len(LifePlan(op.do)) : Tail(op.todo) = From(op.do, k)
      BY <1>1, <1>3, <2>6, FillingHead
    <3>2. r.todo = From(r.do, k) /\ k \in Lead(r.do) + 10..Len(LifePlan(r.do))
      BY <2>1, <3>1
    <3> QED
      BY <2>1, <2>6, <3>2 DEF Filling
  <2>7. ASSUME TakingBack(op, object, folder) PROVE TakingBack(r, object, folder)
    <3>1. op.todo = <<"mine", "tree", "gone">>
      BY <2>7 DEF TakingBack
    <3>2. Tail(op.todo) = <<"tree", "gone">>
      BY <3>1
    <3> QED
      BY <2>1, <2>7, <3>2 DEF TakingBack
  <2>8. MakerShape(r, object, folder, later, last)
    BY <1>1, <2>1, <2>2, <2>3, <2>4, <2>5, <2>6, <2>7 DEF MakerShape, PathsOk
  <2> QED
    BY <2>1, <2>8 DEF r
<1> QED
  BY <1>2, <1>3

(* A step of another operation that does not remove a folder.              *)
LEMMA OtherGoesOn ==
  ASSUME NEW op, NEW q, NEW folder, NEW still, OtherShape(op, folder), SameCourse(op, q),
         q.do = "backup" => ArchiveOk(q.archive),
         Head(op.todo) \notin {"tree", "gone"}
  PROVE  /\ IdleShape(Next1(q)) \/ OtherShape(Next1(q), still)
         /\ IdleShape(Next1(q)) \/ (Next1(q).do = op.do /\ Next1(q).id = op.id)
<1> DEFINE r == Next1(q)
<1>1. CASE ~(Len(q.todo) > 1)
  BY <1>1, Next1Is DEF SameCourse
<1>2. CASE Len(q.todo) > 1
  <2>1. /\ DOMAIN r = OpFields /\ r.todo = Tail(op.todo) /\ r.do = op.do /\ r.id = op.id
        /\ r.undo = op.undo /\ r.archive = q.archive /\ q.do = op.do /\ Len(op.todo) > 1
    BY <1>2, Next1Is DEF SameCourse
  <2> HIDE DEF r
  <2>2. ASSUME DeleterShape(op, folder) PROVE DeleterShape(r, still)
    <3>1. op.todo = <<"source", "tree", "gone">>
      BY <2>2 DEF DeleterShape
    <3>2. Tail(op.todo) = <<"tree", "gone">>
      BY <3>1
    <3> QED
      BY <2>1, <2>2, <3>2 DEF DeleterShape
  <2>3. ASSUME ReaderShape(op) PROVE ReaderShape(r)
    <3> DEFINE S == OtherSteps(op.do)
    <3>1. op.todo \in Seq(S) /\ op.todo # <<>>
      BY <2>3 DEF ReaderShape
    <3> HIDE DEF S
    <3>2. Tail(op.todo) \in Seq(S) /\ Tail(op.todo) # <<>>
      <4> DEFINE t == op.todo
      <4>1. t \in Seq(S) /\ t # <<>> /\ Len(t) > 1
        BY <2>1, <3>1
      <4> HIDE DEF t
      <4>2. Tail(t) \in Seq(S) /\ Len(Tail(t)) = Len(t) - 1 /\ Len(t) \in Nat
        BY <4>1
      <4>3. Len(Tail(t)) > 0
        BY <4>1, <4>2
      <4> QED
        <5>1. Tail(t) # <<>>
          BY <4>2, <4>3
        <5> QED
          BY <4>2, <5>1 DEF t
    <3> QED
      BY <2>1, <2>3, <3>2 DEF ReaderShape, S
  <2>4. OtherShape(r, still)
    BY <2>1, <2>2, <2>3 DEF OtherShape
  <2> QED
    BY <2>1, <2>4 DEF r
<1> QED
  BY <1>1, <1>2

(* The plan of a rollback.                                                 *)
LEMMA UndoPlan ==
  /\ <<"untree">> \o <<"unobject">> = <<"untree", "unobject">>
  /\ <<>> \o <<"unobject">> = <<"unobject">>
<1> DEFINE S == {"untree", "unobject"}
           s == <<"untree">>
           t == <<"unobject">>
           u == <<"untree", "unobject">>
           v == s \o t
<1>1. s \in Seq(S) /\ t \in Seq(S) /\ Len(s) = 1 /\ Len(t) = 1 /\ s[1] = "untree" /\ t[1] = "unobject"
  OBVIOUS
<1>2. u \in Seq(S) /\ Len(u) = 2 /\ u[1] = "untree" /\ u[2] = "unobject"
  OBVIOUS
<1> HIDE DEF S, s, t, u
<1>3. v \in Seq(S) /\ Len(v) = 2 /\ v[1] = s[1] /\ v[2] = t[1]
  <2>1. /\ s \o t \in Seq(S) /\ Len(s \o t) = Len(s) + Len(t)
        /\ \A i \in 1..Len(s) + Len(t) : (s \o t)[i] = IF i <= Len(s) THEN s[i] ELSE t[i - Len(s)]
    BY <1>1, ConcatProperties, Zenon
  <2>2. 1 + 1 = 2 /\ 2 - 1 = 1 /\ 1 \in 1..2 /\ 2 \in 1..2 /\ 1 <= 1 /\ ~(2 <= 1)
    OBVIOUS
  <2> HIDE DEF v
  <2>3. v \in Seq(S) /\ Len(v) = 2 /\ \A i \in 1..2 : v[i] = IF i <= 1 THEN s[i] ELSE t[i - 1]
    BY <1>1, <2>1, <2>2 DEF v
  <2> QED
    BY <2>2, <2>3
<1> HIDE DEF v
<1>4. \A i \in 1..2 : v[i] = u[i]
  BY <1>1, <1>2, <1>3
<1>5. v = u
  BY <1>2, <1>3, <1>4, SeqEqual
<1>6. <<>> \o t = t
  BY <1>1, ConcatEmptySeq
<1> QED
  BY <1>5, <1>6 DEF s, t, u, v

(* A refused or failed step: what is filled is deleted, and so is what was *)
(* being created, file by file; everything else ends.                      *)
MayFail(op, q, object, folder, paths, last, why) ==
  /\ folder \in BOOLEAN /\ why # "none"
  /\ MakerShape(op, object, folder, paths, FALSE) /\ SameCourse(op, q) /\ PathsOk(q)
  /\ op.undo = "create" => last
LEMMA MakerFails ==
  ASSUME NEW op, NEW q, NEW object, NEW folder, NEW paths, NEW last, NEW why,
         MayFail(op, q, object, folder, paths, last, why)
  PROVE  /\ IdleShape(Failed(q, why)) \/ MakerShape(Failed(q, why), object, folder, paths, last)
         /\ IdleShape(Failed(q, why)) \/ (Failed(q, why).do = op.do /\ Failed(q, why).id = op.id)
         /\ op.undo = "create" /\ folder =>
              Head(Failed(q, why).todo) = "untree" /\ Failed(q, why).todo # <<>>
              /\ Failed(q, why).do = op.do /\ Failed(q, why).id = op.id
<1> USE DEF MayFail
<1> DEFINE f == Failed(q, why)
<1>1. /\ op.do \in Making /\ op.todo = q.todo /\ op.do = q.do /\ DOMAIN q = OpFields
      /\ op.folder = q.folder /\ op.undo = q.undo /\ op.why = q.why /\ op.id = q.id
  BY DEF MakerShape, SameCourse
<1>2. CASE op.undo = "create"
  <2> DEFINE t == (IF q.folder THEN <<"untree">> ELSE <<>>) \o <<"unobject">>
  <2>1. t = IF q.folder THEN <<"untree", "unobject">> ELSE <<"unobject">>
    BY UndoPlan
  <2>2. f = [q EXCEPT !.undo = "rollback", !.why = why, !.todo = t]
    BY <1>1, <1>2 DEF Failed
  <2> HIDE DEF t, f
  <2>3. /\ DOMAIN f = OpFields /\ f.todo = t /\ f.do = q.do /\ f.id = q.id /\ f.undo = "rollback"
        /\ f.why = why /\ f.left = q.left /\ f.archive = q.archive
    BY <1>1, <2>2 DEF OpFields
  <2>4. object /\ q.folder = folder
    BY <1>1, <1>2 DEF MakerShape, Before, Creating, RollingBack, Filling, TakingBack
  <2>5. RollingBack(f, object, folder, last)
    BY <1>2, <2>1, <2>3, <2>4 DEF RollingBack
  <2>6. folder => Head(f.todo) = "untree" /\ f.todo # <<>>
    BY <2>1, <2>3, <2>4
  <2>7. PathsOk(f)
    BY <2>3 DEF PathsOk
  <2>8. MakerShape(f, object, folder, paths, last)
    BY <1>1, <2>3, <2>5, <2>7 DEF MakerShape, PathsOk
  <2> QED
    BY <1>1, <2>3, <2>6, <2>8 DEF f
<1>3. CASE op.undo = "delete"
  <2>2. f = [q EXCEPT !.undo = "none", !.why = why, !.todo = <<"mine", "tree", "gone">>]
    BY <1>1, <1>3 DEF Failed
  <2> HIDE DEF f
  <2>3. /\ DOMAIN f = OpFields /\ f.todo = <<"mine", "tree", "gone">> /\ f.do = q.do /\ f.id = q.id
        /\ f.undo = "none" /\ f.why = why /\ f.left = q.left /\ f.archive = q.archive
    BY <1>1, <2>2 DEF OpFields
  <2>4. object
    BY <1>1, <1>3 DEF MakerShape, Before, Creating, RollingBack, Filling, TakingBack
  <2>5. TakingBack(f, object, folder) /\ PathsOk(f)
    BY <2>3, <2>4 DEF TakingBack, PathsOk
  <2>6. MakerShape(f, object, folder, paths, last)
    BY <1>1, <2>3, <2>5 DEF MakerShape, PathsOk
  <2> QED
    BY <1>1, <1>3, <2>3, <2>6 DEF f
<1>4. CASE op.undo \notin {"create", "delete"}
  <2>1. op.undo = "none"
    BY <1>4 DEF MakerShape, Before, Creating, RollingBack, Filling, TakingBack
  <2>2. f = LIdle(IF q.why = "none" THEN why ELSE q.why)
    BY <1>1, <2>1 DEF Failed
  <2>3. IdleShape(f)
    BY <2>2 DEF LIdle, IdleShape
  <2> QED
    BY <1>4, <2>3
<1> QED
  BY <1>2, <1>3, <1>4

LEMMA OtherFails ==
  ASSUME NEW op, NEW q, NEW folder, NEW why, OtherShape(op, folder), SameCourse(op, q)
  PROVE  IdleShape(Failed(q, why))
<1>1. q.undo = "none"
  BY DEF OtherShape, DeleterShape, ReaderShape, SameCourse
<1> QED
  BY <1>1 DEF Failed, LIdle, IdleShape

---------------------------------------------------------------------------
(* The inductive invariant, for a server that loses no answer, at most one *)
(* failing call and no one at a policy that is still being made.           *)
Calm == Faults \subseteq {"call"} /\ MaxFaults \in {0, 1} /\ Meddling = FALSE

Acting == {"delete", "status", "edit"}
\* A folder no save has made again.
Original(id) == id \in DOMAIN sysvol /\ ~MadeAgain(sysvol[id])
Shape(a) ==
  LET op == doing[a]
      folder == op.id \in DOMAIN sysvol
      paths == DOMAIN FolderOf(op.id)
  IN \/ IdleShape(op)
     \/ MakerShape(op, op.id \in DOMAIN gpcs, folder, paths, faults = MaxFaults)
     \/ OtherShape(op, Original(op.id))
\* Folders have objects if no save made them again; folders and objects have
\* identifiers that were given out.
OwnedInv ==
  /\ DOMAIN gpcs \subseteq used /\ DOMAIN sysvol \subseteq used /\ used \subseteq Guid
  /\ \A id \in DOMAIN sysvol : id \in DOMAIN gpcs \/ MadeAgain(sysvol[id])
  /\ faults \in 0..MaxFaults
ShapesInv == DOMAIN doing = LAdmin /\ \A a \in LAdmin : Shape(a)
\* A policy in the making is its maker's alone.
AloneInv ==
  /\ \A a, b \in LAdmin :
       a # b /\ doing[a].do \in Making /\ doing[a].id # "none" /\ doing[b].do \in Making \cup Acting =>
         doing[b].id # doing[a].id
  /\ \A a \in LAdmin : doing[a].do \in Acting => doing[a].id \in used
\* What is in a folder has the folder's permissions, and only a maker's folder
\* that it has not stamped yet, or is removing, has the share's, or one that a
\* save made again, which no maker is at.
EntryFields == {"directory", "data", "acl"}
AclOf(f) == f[Top].acl
FolderOk(f) ==
  /\ Top \in DOMAIN f
  /\ \A p \in DOMAIN f : /\ DOMAIN f[p] = EntryFields /\ f[p].acl = AclOf(f)
                         /\ f[p].directory = TRUE \/ IsPath(p)
Bare(a, id) ==
  doing[a].do \in Making /\ doing[a].id = id /\ doing[a].todo # <<>>
    /\ Head(doing[a].todo) \in {"stamp", "untree"}
Unmade(id) == \A a \in LAdmin : doing[a].do \in Making => doing[a].id # id
FoldersInv ==
  \A id \in DOMAIN sysvol :
    /\ FolderOk(sysvol[id])
    /\ \/ AclOf(sysvol[id]) = "derived" \/ \E a \in LAdmin : Bare(a, id)
       \/ MadeAgain(sysvol[id]) /\ Unmade(id)
BackupsInv == \A b \in backups : ArchiveOk(b)
LifeInv == OwnedInv /\ ShapesInv /\ AloneInv /\ FoldersInv /\ BackupsInv

(* A session at work is a maker or another; one that is not is idle.       *)
LEMMA UnderwayIs ==
  ASSUME LifeInv, NEW a \in LAdmin
  PROVE  /\ Underway(a) => ~IdleShape(doing[a])
         /\ doing[a].do \in Making =>
              MakerShape(doing[a], doing[a].id \in DOMAIN gpcs, doing[a].id \in DOMAIN sysvol,
                         DOMAIN FolderOf(doing[a].id),
                         faults = MaxFaults)
         /\ doing[a].do \in Acting \cup {"backup"} => OtherShape(doing[a], Original(doing[a].id))
         /\ doing[a].do \in Making \cup Acting \cup {"backup", "none"}
         /\ ~IdleShape(doing[a]) => doing[a].do # "none" /\ DOMAIN doing[a] = OpFields
<1>1. Shape(a)
  BY DEF LifeInv, ShapesInv
<1>2. CASE IdleShape(doing[a])
  BY <1>2 DEF IdleShape, Underway, Making, Acting
<1>3. ASSUME NEW object, NEW folder, NEW paths, NEW last, MakerShape(doing[a], object, folder, paths, last)
      PROVE  doing[a].do \in Making /\ DOMAIN doing[a] = OpFields
  BY <1>3 DEF MakerShape
<1>4. ASSUME NEW folder, OtherShape(doing[a], folder)
      PROVE  doing[a].do \in Acting \cup {"backup"} /\ DOMAIN doing[a] = OpFields
  BY <1>4 DEF OtherShape, DeleterShape, ReaderShape, Acting
<1>5. Making \cap (Acting \cup {"backup"}) = {} /\ "none" \notin Making \cup Acting \cup {"backup"}
  BY DEF Making, Acting
<1>6. CASE MakerShape(doing[a], doing[a].id \in DOMAIN gpcs, doing[a].id \in DOMAIN sysvol,
                      DOMAIN FolderOf(doing[a].id),
                      faults = MaxFaults)
  BY <1>3, <1>5, <1>6 DEF IdleShape
<1>7. CASE OtherShape(doing[a], Original(doing[a].id))
  BY <1>4, <1>5, <1>7 DEF IdleShape
<1> QED
  BY <1>1, <1>2, <1>6, <1>7 DEF Shape

(* What a step of one session leaves to the others.                        *)
Same(id) ==
  /\ id \in DOMAIN gpcs' <=> id \in DOMAIN gpcs
  /\ id \in DOMAIN sysvol' <=> id \in DOMAIN sysvol
  /\ id \in DOMAIN sysvol => sysvol'[id] = sysvol[id]
Spares(a) ==
  \A b \in LAdmin \ {a} :
    /\ doing[b].do \in Making /\ doing[b].id # "none" => Same(doing[b].id)
    /\ doing[b].do = "delete" => (Original(doing[b].id)' => Original(doing[b].id))

(* The others keep their shapes.                                           *)
LEMMA OthersShapes ==
  ASSUME LifeInv, NEW a \in LAdmin, Spares(a), OwnedInv', faults' >= faults,
         NEW b \in LAdmin \ {a}, doing'[b] = doing[b]
  PROVE  Shape(b)'
<1> DEFINE op == doing[b]
           folder == op.id \in DOMAIN sysvol
           folder2 == op.id \in DOMAIN sysvol'
           whole == Original(op.id)
           whole2 == Original(op.id)'
<1>1. CASE IdleShape(op)
  BY <1>1 DEF Shape
<1>2. CASE op.do \in Making
  <2> DEFINE object == op.id \in DOMAIN gpcs
             object2 == op.id \in DOMAIN gpcs'
             paths == DOMAIN FolderOf(op.id)
             paths2 == DOMAIN (IF op.id \in DOMAIN sysvol' THEN sysvol'[op.id] ELSE <<>>)
             last == faults = MaxFaults
             last2 == faults' = MaxFaults
  <2>1. MakerShape(op, object, folder, paths, last)
    BY <1>2, UnderwayIs
  <2>2. last => last2
    BY LifeConstants DEF LifeInv, OwnedInv
  <2>3. op.id # "none" => (object <=> object2) /\ (folder <=> folder2) /\ paths = paths2
    BY <1>2 DEF Spares, Same, FolderOf
  <2>4. op.id = "none" => ~object
    BY LifeStart DEF LifeInv, OwnedInv
  <2> HIDE DEF object, object2, folder, folder2, paths, paths2, last, last2, op
  <2>5. Before(op) \/ (op.id # "none" /\ ~Before(op))
    BY <2>1, <2>4 DEF MakerShape, Creating, RollingBack, Filling, TakingBack
  <2>6. MakerShape(op, object2, folder2, paths2, last2)
    <3>1. CASE Before(op)
      BY <2>1, <3>1 DEF MakerShape
    <3>2. CASE op.id # "none" /\ ~Before(op)
      <4>1. (object <=> object2) /\ (folder <=> folder2) /\ paths = paths2
        BY <2>3, <3>2
      <4>2. object \in BOOLEAN /\ object2 \in BOOLEAN /\ folder \in BOOLEAN /\ folder2 \in BOOLEAN
        BY DEF object, object2, folder, folder2
      <4>3. object = object2 /\ folder = folder2 /\ paths = paths2
        BY <4>1, <4>2
      <4>4. MakerShape(op, object, folder, paths, last2)
        BY <2>1, <2>2 DEF MakerShape, RollingBack
      <4> QED
        BY <4>3, <4>4
    <3> QED
      BY <2>5, <3>1, <3>2
  <2> QED
    BY <2>6 DEF Shape, object2, folder2, paths2, last2, op, FolderOf
<1>3. CASE op.do \in Acting \cup {"backup"}
  <2>1. OtherShape(op, whole)
    BY <1>3, UnderwayIs
  <2>2. op.do = "delete" => (whole2 => whole)
    BY DEF Spares
  <2>3. doing'[b].id = op.id
    OBVIOUS
  <2>4. Original(doing[b].id)' = whole2
    BY <2>3
  <2> HIDE DEF whole, whole2, op
  <2>5. OtherShape(op, whole2)
    BY <2>1, <2>2 DEF OtherShape, DeleterShape
  <2>6. OtherShape(doing'[b], Original(doing[b].id)')
    BY <2>4, <2>5 DEF op
  <2> QED
    BY <2>6 DEF Shape
<1> QED
  BY <1>1, <1>2, <1>3, UnderwayIs DEF IdleShape

(* A step of a session keeps the invariant when it keeps its own shape and *)
(* spares the others.                                                      *)
LEMMA Keeping ==
  ASSUME LifeInv, NEW a \in LAdmin, NEW x, doing' = [doing EXCEPT ![a] = x],
         Spares(a), OwnedInv', faults' >= faults, used \subseteq used', BackupsInv',
         Shape(a)',
         x.do \in Acting => x.id \in used',
         x.do \in Making => (doing[a].do \in Making /\ x.id = doing[a].id) \/ x.id \notin DOMAIN sysvol,
         \A b \in LAdmin \ {a} :
           /\ doing[b].do \in Making /\ doing[b].id # "none" /\ x.do \in Making \cup Acting =>
                x.id # doing[b].id
           /\ x.do \in Making /\ x.id # "none" /\ doing[b].do \in Making \cup Acting =>
                doing[b].id # x.id,
         \A id \in DOMAIN sysvol' :
           \/ /\ id \in DOMAIN sysvol /\ sysvol'[id] = sysvol[id]
              /\ ~Bare(a, id) \/ AclOf(sysvol[id]) = "derived"
           \/ /\ FolderOk(sysvol'[id])
              /\ \/ AclOf(sysvol'[id]) = "derived" \/ Bare(a, id)'
                 \/ MadeAgain(sysvol'[id]) /\ Unmade(id)'
  PROVE  LifeInv'
<1>1. doing'[a] = x /\ DOMAIN doing' = LAdmin /\ \A b \in LAdmin \ {a} : doing'[b] = doing[b]
  BY DEF LifeInv, ShapesInv
<1>2. ShapesInv'
  BY <1>1, OthersShapes DEF ShapesInv
<1>3. AloneInv'
  BY <1>1 DEF LifeInv, AloneInv
<1>4. FoldersInv'
  <2> SUFFICES ASSUME NEW id \in DOMAIN sysvol'
               PROVE  /\ FolderOk(sysvol'[id])
                      /\ \/ AclOf(sysvol'[id]) = "derived" \/ \E b \in LAdmin : Bare(b, id)'
                         \/ MadeAgain(sysvol'[id]) /\ Unmade(id)'
    BY DEF FoldersInv
  <2>1. CASE /\ id \in DOMAIN sysvol /\ sysvol'[id] = sysvol[id]
             /\ ~Bare(a, id) \/ AclOf(sysvol[id]) = "derived"
    <3>1. \A b \in LAdmin \ {a} : Bare(b, id) => Bare(b, id)'
      BY <1>1 DEF Bare
    <3>2. Unmade(id) => Unmade(id)'
      BY <1>1, <2>1 DEF Unmade
    <3>3. MadeAgain(sysvol[id]) => MadeAgain(sysvol'[id])
      BY <2>1
    <3> QED
      BY <2>1, <3>1, <3>2, <3>3 DEF LifeInv, FoldersInv
  <2>2. CASE /\ FolderOk(sysvol'[id])
             /\ AclOf(sysvol'[id]) = "derived" \/ Bare(a, id)' \/ (MadeAgain(sysvol'[id]) /\ Unmade(id)')
    BY <2>2
  <2> QED
    BY <2>1, <2>2
<1> QED
  BY <1>2, <1>3, <1>4 DEF LifeInv

---------------------------------------------------------------------------
(* Which phase a step belongs to.                                          *)
LEMMA PhaseOf ==
  ASSUME NEW op, NEW object, NEW folder, NEW paths, NEW last, MakerShape(op, object, folder, paths, last)
  PROVE  /\ Before(op) <=> Head(op.todo) \in {"source", "backup", "names", "object"}
         /\ Creating(op, object, folder, paths) <=>
              Head(op.todo) \in {"children", "folder", "stamp", "machine", "user", "ini", "made"}
         /\ RollingBack(op, object, folder, last) <=> Head(op.todo) \in {"untree", "unobject"}
         /\ Filling(op, object, folder) <=> Head(op.todo) \in RestSteps
         /\ TakingBack(op, object, folder) <=> Head(op.todo) \in {"mine", "tree", "gone"}
<1>1. op.do \in Making
  BY DEF MakerShape
<1>2. Before(op) => Head(op.todo) \in {"source", "backup", "names", "object"}
  BY <1>1, BeforeHead
<1>3. Creating(op, object, folder, paths) =>
        Head(op.todo) \in {"children", "folder", "stamp", "machine", "user", "ini", "made"}
  <2> SUFFICES ASSUME Creating(op, object, folder, paths)
               PROVE  Head(op.todo) \in {"children", "folder", "stamp", "machine", "user", "ini", "made"}
    OBVIOUS
  <2>1. PICK j \in Lead(op.do) + 3..Lead(op.do) + 9 : op.todo = From(op.do, j)
    BY DEF Creating
  <2>2. Lead(op.do) \in {0, 1}
    BY <1>1, PlanIs
  <2>3. PICK k \in 3..9 : j = Lead(op.do) + k
    <3>1. j - Lead(op.do) \in 3..9 /\ j = Lead(op.do) + (j - Lead(op.do))
      BY <2>2
    <3> QED
      BY <3>1
  <2>4. Head(op.todo) = Create[k]
    BY <1>1, <2>1, <2>3, CreatingHead
  <2>5. k \in {3, 4, 5, 6, 7, 8, 9}
    OBVIOUS
  <2> QED
    BY <2>4, <2>5, CreateIs
<1>4. RollingBack(op, object, folder, last) => Head(op.todo) \in {"untree", "unobject"}
  BY DEF RollingBack
<1>5. Filling(op, object, folder) => Head(op.todo) \in RestSteps
  BY <1>1, FillingHead
<1>6. TakingBack(op, object, folder) => Head(op.todo) \in {"mine", "tree", "gone"}
  BY DEF TakingBack
<1>7. \/ Before(op) \/ Creating(op, object, folder, paths) \/ RollingBack(op, object, folder, last)
      \/ Filling(op, object, folder) \/ TakingBack(op, object, folder)
  BY DEF MakerShape
<1>8. /\ RestSteps \cap {"source", "backup", "names", "object", "children", "folder", "stamp", "machine",
                         "user", "ini", "made", "untree", "unobject", "mine", "tree", "gone"} = {}
  BY DEF RestSteps
<1> QED
  BY <1>2, <1>3, <1>4, <1>5, <1>6, <1>7, <1>8

\* The maker of a policy, and another session, as the invariant has them.
MakerNow(a) ==
  MakerShape(doing[a], doing[a].id \in DOMAIN gpcs, doing[a].id \in DOMAIN sysvol,
             DOMAIN FolderOf(doing[a].id), faults = MaxFaults)
OtherNow(a) == OtherShape(doing[a], Original(doing[a].id))

LEMMA WhoIs ==
  ASSUME LifeInv, NEW a \in LAdmin, Underway(a)
  PROVE  /\ DOMAIN doing[a] = OpFields
         /\ \/ doing[a].do \in Making /\ MakerNow(a)
            \/ doing[a].do \in Acting \cup {"backup"} /\ OtherNow(a) /\ doing[a].do \notin Making
BY UnderwayIs DEF MakerNow, OtherNow, Making, Acting, IdleShape, Underway

(* A step that leaves every object and folder where it is.                 *)
LEMMA Staying ==
  ASSUME LifeInv, NEW a \in LAdmin, Underway(a), NEW x, doing' = [doing EXCEPT ![a] = x],
         UNCHANGED <<sysvol, used>>, DOMAIN gpcs' = DOMAIN gpcs,
         faults' \in 0..MaxFaults, faults' >= faults, BackupsInv',
         Shape(a)', IdleShape(x) \/ (x.do = doing[a].do /\ x.id = doing[a].id),
         \A id \in DOMAIN sysvol : Bare(a, id) => Bare(a, id)'
  PROVE  LifeInv'
<1>1. Spares(a)
  BY DEF Spares, Same, Original
<1>2. OwnedInv'
  BY DEF LifeInv, OwnedInv
<1>6. x.do \in Making => (doing[a].do \in Making /\ x.id = doing[a].id) \/ x.id \notin DOMAIN sysvol
  BY DEF IdleShape, Making
<1>3. x.do \in Acting => x.id \in used'
  BY DEF LifeInv, AloneInv, IdleShape, Acting
<1>4. \A b \in LAdmin \ {a} :
        /\ doing[b].do \in Making /\ doing[b].id # "none" /\ x.do \in Making \cup Acting =>
             x.id # doing[b].id
        /\ x.do \in Making /\ x.id # "none" /\ doing[b].do \in Making \cup Acting =>
             doing[b].id # x.id
  BY DEF LifeInv, AloneInv, IdleShape, Making, Acting
<1>5. ASSUME NEW id \in DOMAIN sysvol'
      PROVE  \/ /\ id \in DOMAIN sysvol /\ sysvol'[id] = sysvol[id]
                /\ ~Bare(a, id) \/ AclOf(sysvol[id]) = "derived"
             \/ /\ FolderOk(sysvol'[id])
                /\ \/ AclOf(sysvol'[id]) = "derived" \/ Bare(a, id)'
                   \/ MadeAgain(sysvol'[id]) /\ Unmade(id)'
  <2>1. id \in DOMAIN sysvol /\ sysvol'[id] = sysvol[id] /\ FolderOk(sysvol[id])
    BY DEF LifeInv, FoldersInv
  <2>2. Bare(a, id) => Bare(a, id)'
    BY <2>1
  <2> QED
    BY <2>1, <2>2
<1> QED
  BY <1>1, <1>2, <1>3, <1>4, <1>5, <1>6, Keeping

(* Looking something up, or writing into an object that is there.          *)
LEMMA LooksInv ==
  ASSUME LifeInv, NEW a \in LAdmin, Underway(a), NEW q, SameCourse(doing[a], q),
         doing[a].do \in Making => PathsOk(q),
         doing[a].do = "backup" => ArchiveOk(q.archive),
         Head(doing[a].todo) \notin {"object", "folder", "made", "stamp", "machine", "untree", "tree", "gone", "unobject"},
         Continues(a, Next1(q)), UNCHANGED <<sysvol, used, faults>>, DOMAIN gpcs' = DOMAIN gpcs, BackupsInv'
  PROVE  LifeInv'
<1> DEFINE x == Next1(q)
           folder == doing[a].id \in DOMAIN sysvol
           paths == DOMAIN FolderOf(doing[a].id)
           object == doing[a].id \in DOMAIN gpcs
           last == faults = MaxFaults
           whole == Original(doing[a].id)
<1>1. doing' = [doing EXCEPT ![a] = x] /\ UNCHANGED <<sysvol, faults>> /\ DOMAIN gpcs' = DOMAIN gpcs
  BY DEF Continues
<1>2. doing'[a] = x
  BY <1>1 DEF LifeInv, ShapesInv
<1>3. \A id \in DOMAIN sysvol : Bare(a, id) => Bare(a, id)'
  BY DEF Bare
<1>4. UNCHANGED <<sysvol, used>> /\ faults' \in 0..MaxFaults /\ faults' >= faults
  BY <1>1, LifeConstants DEF LifeInv, OwnedInv
<1>5. CASE doing[a].do \in Making
  <2>1. MakerShape(doing[a], object, folder, paths, last)
    BY <1>5, UnderwayIs
  <2>2. /\ IdleShape(x) \/ MakerShape(x, object, folder, paths, last)
        /\ IdleShape(x) \/ (x.do = doing[a].do /\ x.id = doing[a].id)
    <3>1. /\ folder \in BOOLEAN /\ PathsOk(q)
          /\ Head(doing[a].todo) \notin {"object", "folder", "made", "stamp", "machine", "untree", "tree", "gone", "unobject"}
      BY <1>5
    <3> HIDE DEF object, folder, paths, last
    <3> QED
      BY <2>1, <3>1, MakerGoesOn
  <2>3. Shape(a)'
    <3>1. CASE IdleShape(x)
      BY <1>2, <3>1 DEF Shape
    <3>2. CASE ~IdleShape(x)
      <4>1. MakerShape(x, object, folder, paths, last) /\ x.id = doing[a].id
        BY <2>2, <3>2
      <4> QED
        BY <1>1, <1>2, <4>1 DEF Shape, FolderOf
    <3> QED
      BY <3>1, <3>2
  <2> HIDE DEF x
  <2> QED
    BY <1>1, <1>3, <1>4, <2>2, <2>3, Staying
<1>6. CASE doing[a].do \notin Making
  <2>1. OtherShape(doing[a], whole)
    BY <1>6, WhoIs DEF OtherNow
  <2>2. /\ IdleShape(x) \/ OtherShape(x, whole)
        /\ IdleShape(x) \/ (x.do = doing[a].do /\ x.id = doing[a].id)
    <3> HIDE DEF whole
    <3>1. q.do = "backup" => ArchiveOk(q.archive)
      BY DEF SameCourse
    <3> QED
      BY <2>1, <3>1, OtherGoesOn
  <2>3. Shape(a)'
    <3>1. CASE IdleShape(x)
      BY <1>2, <3>1 DEF Shape
    <3>2. CASE ~IdleShape(x)
      <4>1. OtherShape(x, whole) /\ x.id = doing[a].id
        BY <2>2, <3>2
      <4>2. Original(doing[a].id)' = whole
        BY <1>1, <1>2, <4>1 DEF Original
      <4> HIDE DEF whole, x
      <4> QED
        BY <1>2, <4>1, <4>2 DEF Shape
    <3> QED
      BY <3>1, <3>2
  <2> HIDE DEF x
  <2> QED
    BY <1>1, <1>3, <1>4, <2>2, <2>3, Staying
<1> QED
  BY <1>5, <1>6

(* A step that is refused or fails.                                        *)
LEMMA FailsInv ==
  ASSUME LifeInv, NEW a \in LAdmin, Underway(a), NEW why, why # "none",
         NEW q, SameCourse(doing[a], q), doing[a].do \in Making => PathsOk(q),
         Continues(a, Failed(q, why)), UNCHANGED <<gpcs, sysvol, used, backups>>,
         doing[a].undo # "rollback", faults' \in 0..MaxFaults, faults' >= faults,
         doing[a].undo = "create" => faults' = MaxFaults
  PROVE  LifeInv'
<1> DEFINE x == Failed(q, why)
           op == doing[a]
           folder == doing[a].id \in DOMAIN sysvol
           paths == DOMAIN FolderOf(doing[a].id)
           object == doing[a].id \in DOMAIN gpcs
           last == faults = MaxFaults
           last2 == faults' = MaxFaults
<1>1. doing' = [doing EXCEPT ![a] = x] /\ BackupsInv'
  BY DEF Continues, LifeInv, BackupsInv
<1>2. doing'[a] = x
  BY <1>1 DEF LifeInv, ShapesInv
<1>3. CASE doing[a].do \in Making
  <2>1. MakerShape(op, object, folder, paths, last)
    BY <1>3, UnderwayIs
  <2>2. MakerShape(op, object, folder, paths, FALSE)
    <3> HIDE DEF object, folder, paths, last
    <3>1. op.undo # "rollback"
      OBVIOUS
    <3> QED
      BY <2>1, <3>1 DEF MakerShape, RollingBack
  <2>3. /\ IdleShape(x) \/ MakerShape(x, object, folder, paths, last2)
        /\ IdleShape(x) \/ (x.do = op.do /\ x.id = op.id)
        /\ op.undo = "create" /\ folder =>
             Head(x.todo) = "untree" /\ x.todo # <<>> /\ x.do = op.do /\ x.id = op.id
    <3>1. folder \in BOOLEAN
      OBVIOUS
    <3>2. PathsOk(q)
      BY <1>3
    <3>3. op.undo = "create" => last2
      OBVIOUS
    <3>4. SameCourse(op, q)
      OBVIOUS
    <3>5. why # "none"
      OBVIOUS
    <3> HIDE DEF object, folder, paths, last, last2, op, x
    <3>6. MayFail(op, q, object, folder, paths, last2, why)
      BY <2>2, <3>1, <3>2, <3>3, <3>4, <3>5 DEF MayFail
    <3> QED
      BY <3>6, MakerFails DEF x
  <2>4. Shape(a)'
    <3>1. CASE IdleShape(x)
      BY <1>2, <3>1 DEF Shape
    <3>2. CASE ~IdleShape(x)
      <4>1. MakerShape(x, object, folder, paths, last2) /\ x.id = doing[a].id
        BY <2>3, <3>2
      <4> QED
        BY <1>1, <1>2, <4>1 DEF Shape, FolderOf
    <3> QED
      BY <3>1, <3>2
  <2>5. ASSUME NEW id \in DOMAIN sysvol, Bare(a, id) PROVE Bare(a, id)'
    <3>1. id = op.id /\ folder /\ Head(op.todo) \in {"stamp", "untree"}
      BY <2>5 DEF Bare
    <3>2. op.undo = "create"
      <4> HIDE DEF object, folder, paths, last
      <4>1. ~RollingBack(op, object, folder, last)
        BY DEF RollingBack
      <4>2. Creating(op, object, folder, paths)
        BY <2>1, <3>1, <4>1, PhaseOf
      <4> QED
        BY <4>2 DEF Creating
    <3> QED
      BY <1>2, <1>3, <2>3, <3>1, <3>2 DEF Bare
  <2> HIDE DEF x
  <2> QED
    BY <1>1, <2>3, <2>4, <2>5, Staying
<1>4. CASE doing[a].do \notin Making
  <2>1. PICK whole : OtherShape(op, whole)
    BY <1>4, WhoIs DEF OtherNow
  <2>2. IdleShape(x)
    <3> QED
      BY <2>1, OtherFails
  <2>3. Shape(a)'
    BY <1>2, <2>2 DEF Shape
  <2>4. \A id \in DOMAIN sysvol : ~Bare(a, id)
    BY <1>4 DEF Bare
  <2> HIDE DEF x
  <2> QED
    BY <1>1, <2>2, <2>3, <2>4, Staying
<1> QED
  BY <1>3, <1>4

(* The operation itself is on its course.                                  *)
LEMMA OwnCourse ==
  ASSUME LifeInv, NEW a \in LAdmin, Underway(a)
  PROVE  /\ SameCourse(doing[a], doing[a])
         /\ doing[a].do \in Making => PathsOk(doing[a])
         /\ doing[a].do = "backup" => ArchiveOk(doing[a].archive)
BY WhoIs DEF SameCourse, PathsOk, MakerNow, OtherNow, MakerShape, OtherShape

(* What is refused ends, unless a new policy is there to be deleted.       *)
LEMMA RefusesInv ==
  ASSUME LifeInv, NEW a \in LAdmin, Underway(a), NEW why, why # "none",
         doing[a].undo \notin {"create", "rollback"},
         LifeRefuses(a, why), UNCHANGED <<used, backups>>
  PROVE  LifeInv'
<1>1. faults' \in 0..MaxFaults /\ faults' >= faults /\ UNCHANGED <<gpcs, sysvol, used, backups>>
  BY LifeConstants DEF LifeRefuses, LifeInv, OwnedInv
<1> QED
  BY <1>1, OwnCourse, FailsInv DEF LifeRefuses

(* A call fails.                                                           *)
LEMMA CallFailsInv ==
  ASSUME LifeInv, Calm, NEW a \in LAdmin, CallFails(a)
  PROVE  LifeInv'
<1> DEFINE q == [doing[a] EXCEPT !.faulty = TRUE]
<1>1. Underway(a) /\ Continues(a, Failed(q, "failed")) /\ UNCHANGED <<gpcs, sysvol, used, backups>>
  BY DEF CallFails, Keeps
<1>2. faults = 0 /\ MaxFaults = 1 /\ faults' = 1
  BY DEF CallFails, Calm, LifeInv, OwnedInv
<1>3. SameCourse(doing[a], q) /\ q.left = doing[a].left /\ q.archive = doing[a].archive
  BY <1>1, WhoIs DEF SameCourse, OpFields
<1> HIDE DEF q
<1>4. doing[a].do \in Making => PathsOk(q)
  BY <1>1, <1>3, OwnCourse DEF PathsOk, SameCourse
<1>5. doing[a].undo # "rollback"
  <2>1. CASE doing[a].do \in Making /\ MakerNow(a)
    <3> DEFINE folder == doing[a].id \in DOMAIN sysvol
               paths == DOMAIN FolderOf(doing[a].id)
               object == doing[a].id \in DOMAIN gpcs
    <3>1. MakerShape(doing[a], object, folder, paths, faults = MaxFaults)
      BY <2>1 DEF MakerNow
    <3>2. ~(faults = MaxFaults)
      BY <1>2
    <3> HIDE DEF object, folder, paths
    <3> QED
      BY <3>1, <3>2 DEF MakerShape, Before, Creating, RollingBack, Filling, TakingBack
  <2>2. CASE OtherNow(a)
    BY <2>2 DEF OtherNow, OtherShape, DeleterShape, ReaderShape
  <2> QED
    BY <1>1, <2>1, <2>2, WhoIs
<1> QED
  BY <1>1, <1>2, <1>3, <1>4, <1>5, FailsInv

---------------------------------------------------------------------------
(* The phase of the session at a step.                                     *)
HeadOf(a) == Head(doing[a].todo)
PathsOf(a) == DOMAIN FolderOf(doing[a].id)
CreatingNow(a) ==
  Creating(doing[a], doing[a].id \in DOMAIN gpcs, doing[a].id \in DOMAIN sysvol, PathsOf(a))
LEMMA MakerAt ==
  ASSUME NEW a \in LAdmin, MakerNow(a)
  PROVE  /\ HeadOf(a) \in {"source", "backup", "names", "object"} => Before(doing[a])
         /\ HeadOf(a) \in {"children", "folder", "stamp", "machine", "user", "ini", "made"} => CreatingNow(a)
         /\ HeadOf(a) \in {"untree", "unobject"} =>
              RollingBack(doing[a], doing[a].id \in DOMAIN gpcs, doing[a].id \in DOMAIN sysvol, faults = MaxFaults)
         /\ HeadOf(a) \in RestSteps =>
              Filling(doing[a], doing[a].id \in DOMAIN gpcs, doing[a].id \in DOMAIN sysvol)
         /\ HeadOf(a) \in {"mine", "tree", "gone"} =>
              TakingBack(doing[a], doing[a].id \in DOMAIN gpcs, doing[a].id \in DOMAIN sysvol)
         /\ HeadOf(a) \notin {"children", "folder", "stamp", "machine", "user", "ini", "made", "untree", "unobject"} =>
              doing[a].undo \notin {"create", "rollback"}
         /\ HeadOf(a) \notin {"pack", "flags", "parents", "save", "bump", "restamp"}
<1> DEFINE op == doing[a]
           object == op.id \in DOMAIN gpcs
           folder == op.id \in DOMAIN sysvol
           paths == DOMAIN FolderOf(op.id)
           last == faults = MaxFaults
<1>1. MakerShape(op, object, folder, paths, last)
  BY DEF MakerNow
<1> HIDE DEF op, object, folder, paths, last
<1>2. /\ Before(op) <=> Head(op.todo) \in {"source", "backup", "names", "object"}
      /\ Creating(op, object, folder, paths) <=>
           Head(op.todo) \in {"children", "folder", "stamp", "machine", "user", "ini", "made"}
      /\ RollingBack(op, object, folder, last) <=> Head(op.todo) \in {"untree", "unobject"}
      /\ Filling(op, object, folder) <=> Head(op.todo) \in RestSteps
      /\ TakingBack(op, object, folder) <=> Head(op.todo) \in {"mine", "tree", "gone"}
  BY <1>1, PhaseOf
<1>3. /\ Head(op.todo) \notin {"children", "folder", "stamp", "machine", "user", "ini", "made", "untree", "unobject"} =>
           op.undo \notin {"create", "rollback"}
      /\ Head(op.todo) \notin {"pack", "flags", "parents", "save", "bump", "restamp"}
  <2>1. \/ Before(op) \/ Creating(op, object, folder, paths) \/ RollingBack(op, object, folder, last)
        \/ Filling(op, object, folder) \/ TakingBack(op, object, folder)
    BY <1>1 DEF MakerShape
  <2> QED
    BY <1>2, <2>1 DEF Before, Filling, TakingBack, RestSteps
<1> QED
  BY <1>2, <1>3 DEF op, object, folder, paths, last, HeadOf, PathsOf, CreatingNow

LEMMA OtherAt ==
  ASSUME NEW a \in LAdmin, OtherNow(a)
  PROVE  /\ HeadOf(a) \in {"source", "tree", "gone", "list", "files", "pack", "flags", "parents", "save", "bump", "restamp"}
         /\ doing[a].undo = "none"
         /\ HeadOf(a) \in {"tree", "gone"} => DeleterShape(doing[a], Original(doing[a].id))
         /\ HeadOf(a) \in {"parents", "save", "bump", "restamp"} => doing[a].do = "edit"
         /\ HeadOf(a) \in {"list", "files", "pack"} => doing[a].do = "backup"
<1> DEFINE op == doing[a]
           folder == Original(op.id)
<1>1. DeleterShape(op, folder) \/ ReaderShape(op)
  BY DEF OtherNow, OtherShape
<1> HIDE DEF op, folder
<1>2. CASE DeleterShape(op, folder)
  <2>1. op.undo = "none" /\ op.do = "delete" /\ Head(op.todo) \in {"source", "tree", "gone"}
    BY <1>2 DEF DeleterShape
  <2> QED
    BY <1>2, <2>1 DEF op, folder, HeadOf, Acting
<1>3. CASE ReaderShape(op)
  <2>1. Head(op.todo) \in OtherSteps(op.do)
    <3> DEFINE S == OtherSteps(op.do)
    <3>1. op.todo \in Seq(S) /\ op.todo # <<>>
      BY <1>3 DEF ReaderShape
    <3> HIDE DEF S
    <3> QED
      BY <3>1 DEF S
  <2>2. /\ Head(op.todo) \in {"source", "list", "files", "pack", "flags", "parents", "save", "bump", "restamp"}
        /\ Head(op.todo) \in {"parents", "save", "bump", "restamp"} => op.do = "edit"
        /\ Head(op.todo) \in {"list", "files", "pack"} => op.do = "backup"
    BY <1>3, <2>1 DEF ReaderShape, OtherSteps
  <2> QED
    BY <1>3, <2>2 DEF ReaderShape, op, folder, HeadOf, Acting
<1> QED
  BY <1>1, <1>2, <1>3

(* The maker of a policy whose object is there, and its id: nobody else's. *)
LEMMA MakersOwn ==
  ASSUME LifeInv, NEW b \in LAdmin, doing[b].do \in Making, doing[b].id # "none"
  PROVE  doing[b].id \in DOMAIN gpcs /\ doing[b].id \in used
<1>1. MakerNow(b)
  BY UnderwayIs DEF MakerNow
<1>2. doing[b].id \in DOMAIN gpcs
  BY <1>1 DEF MakerNow, MakerShape, Before, Creating, RollingBack, Filling, TakingBack
<1> QED
  BY <1>2 DEF LifeInv, OwnedInv

---------------------------------------------------------------------------
(* Steps that look something up, or write into an object.                  *)
CreatingSteps == {"children", "folder", "stamp", "machine", "user", "ini", "made"}

LEMMA RefusesAt ==
  ASSUME LifeInv, NEW a \in LAdmin, Underway(a), HeadOf(a) \notin CreatingSteps \cup {"untree", "unobject"},
         NEW why, why # "none", LifeRefuses(a, why), Keeps
  PROVE  LifeInv'
<1>1. doing[a].undo \notin {"create", "rollback"}
  BY WhoIs, MakerAt, OtherAt DEF CreatingSteps
<1> QED
  BY <1>1, RefusesInv DEF Keeps

LEMMA CarriedOut ==
  ASSUME Calm, NEW a \in LAdmin, NEW q, NEW gs, NEW fs, Carries(a, q, gs, fs)
  PROVE  gpcs' = gs /\ sysvol' = fs /\ Continues(a, Next1(q)) /\ faults' = faults
BY DEF Carries, Calm

\* Nothing but what it has read changes of the operation.
LEMMA ReadsInv ==
  ASSUME LifeInv, NEW a \in LAdmin, Underway(a), NEW q,
         SameCourse(doing[a], q), q.left = doing[a].left, q.archive = doing[a].archive,
         HeadOf(a) \notin {"object", "folder", "made", "stamp", "machine", "untree", "tree", "gone", "unobject"},
         Continues(a, Next1(q)), UNCHANGED <<sysvol, faults>>, DOMAIN gpcs' = DOMAIN gpcs, Keeps
  PROVE  LifeInv'
<1>1. /\ doing[a].do \in Making => PathsOk(q)
      /\ doing[a].do = "backup" => ArchiveOk(q.archive)
  BY OwnCourse DEF PathsOk, SameCourse
<1>2. BackupsInv' /\ used' = used
  BY DEF Keeps, LifeInv, BackupsInv
<1> QED
  BY <1>1, <1>2, LooksInv DEF HeadOf

LEMMA LooksAt ==
  ASSUME LifeInv, NEW a \in LAdmin, Underway(a),
         HeadOf(a) \notin {"object", "folder", "made", "stamp", "machine", "untree", "tree", "gone", "unobject"},
         Looks(a, doing[a]), Keeps
  PROVE  LifeInv'
BY OwnCourse, ReadsInv DEF Looks

LEMMA TakenNameInv ==
  ASSUME LifeInv, NEW a \in LAdmin, TakenName(a)
  PROVE  LifeInv'
<1>1. Underway(a) /\ HeadOf(a) = "names" /\ Keeps
  BY DEF TakenName, AtCall, HeadOf
<1>2. LifeRefuses(a, "refused") \/ Looks(a, doing[a])
  BY DEF TakenName
<1> QED
  BY <1>1, <1>2, RefusesAt, LooksAt DEF CreatingSteps

LEMMA AddChildrenInv ==
  ASSUME LifeInv, NEW a \in LAdmin, AddChildren(a)
  PROVE  LifeInv'
<1>1. Underway(a) /\ HeadOf(a) = "children" /\ Keeps
  BY DEF AddChildren, AtCall, HeadOf
<1>2. MakerNow(a)
  BY <1>1, WhoIs, OtherAt
<1>3. doing[a].id \in DOMAIN gpcs
  BY <1>1, <1>2, MakerAt DEF CreatingNow, Creating
<1> QED
  BY <1>1, <1>3, LooksAt DEF AddChildren

LEMMA ReadSourceInv ==
  ASSUME LifeInv, NEW a \in LAdmin, ReadSource(a)
  PROVE  LifeInv'
<1> DEFINE q == [doing[a] EXCEPT !.of = gpcs[doing[a].source]]
<1>1. Underway(a) /\ HeadOf(a) = "source" /\ Keeps
  BY DEF ReadSource, AtCall, HeadOf
<1>2. LifeRefuses(a, "refused") \/ Looks(a, q)
  BY DEF ReadSource
<1>3. SameCourse(doing[a], q) /\ q.left = doing[a].left /\ q.archive = doing[a].archive
  BY <1>1, WhoIs DEF SameCourse, OpFields
<1> HIDE DEF q
<1>4. Looks(a, q) => Continues(a, Next1(q)) /\ UNCHANGED <<sysvol, faults>> /\ DOMAIN gpcs' = DOMAIN gpcs
  BY DEF Looks
<1> QED
  BY <1>1, <1>2, <1>3, <1>4, RefusesAt, ReadsInv DEF CreatingSteps

LEMMA ListFolderInv ==
  ASSUME LifeInv, NEW a \in LAdmin, ListFolder(a)
  PROVE  LifeInv'
<1> DEFINE q == [doing[a] EXCEPT !.left = DOMAIN FolderOf(doing[a].source) \ {Top}]
<1>1. Underway(a) /\ HeadOf(a) = "list" /\ Keeps
  BY DEF ListFolder, AtCall, HeadOf
<1>2. LifeRefuses(a, "refused") \/ Looks(a, q)
  BY DEF ListFolder
<1>3. SameCourse(doing[a], q) /\ q.archive = doing[a].archive
  BY <1>1, WhoIs DEF SameCourse, OpFields
<1>4. doing[a].do # "restore"
  <2>1. CASE doing[a].do \in Making /\ MakerNow(a)
    <3>1. doing[a].do \in Making /\ Filling(doing[a], doing[a].id \in DOMAIN gpcs, doing[a].id \in DOMAIN sysvol)
      BY <1>1, <2>1, MakerAt DEF RestSteps
    <3>2. Head(doing[a].todo) = "list" => doing[a].do = "copy"
      BY <3>1, FillingHead
    <3> QED
      BY <1>1, <3>2 DEF HeadOf
  <2>2. CASE OtherNow(a)
    BY <1>1, <2>2, OtherAt
  <2> QED
    BY <1>1, <2>1, <2>2, WhoIs
<1> HIDE DEF q
<1>5. /\ doing[a].do \in Making => PathsOk(q)
      /\ doing[a].do = "backup" => ArchiveOk(q.archive)
  BY <1>1, <1>3, <1>4, OwnCourse DEF PathsOk, SameCourse
<1>6. ASSUME Looks(a, q) PROVE LifeInv'
  <2>1. /\ Continues(a, Next1(q)) /\ UNCHANGED <<sysvol, used, faults>> /\ DOMAIN gpcs' = DOMAIN gpcs
        /\ BackupsInv'
    BY <1>1, <1>6 DEF Looks, Keeps, LifeInv, BackupsInv
  <2> QED
    BY <1>1, <1>3, <1>5, <2>1, LooksInv DEF HeadOf
<1> QED
  BY <1>1, <1>2, <1>6, RefusesAt DEF CreatingSteps

LEMMA FilesDoneInv ==
  ASSUME LifeInv, NEW a \in LAdmin, FilesDone(a)
  PROVE  LifeInv'
<1>1. Underway(a) /\ HeadOf(a) = "files" /\ Keeps /\ Looks(a, doing[a])
  BY DEF FilesDone, AtCall, HeadOf
<1> QED
  BY <1>1, LooksAt

LEMMA MineInv ==
  ASSUME LifeInv, NEW a \in LAdmin, Mine(a)
  PROVE  LifeInv'
<1>1. Underway(a) /\ HeadOf(a) = "mine" /\ Keeps
  BY DEF Mine, AtCall, HeadOf
<1>2. LifeRefuses(a, "failed") \/ Looks(a, doing[a])
  BY DEF Mine
<1> QED
  BY <1>1, <1>2, RefusesAt, LooksAt DEF CreatingSteps

LEMMA PackInv ==
  ASSUME LifeInv, NEW a \in LAdmin, Pack(a)
  PROVE  LifeInv'
<1> DEFINE b == [doing[a].archive EXCEPT !.exts = doing[a].of.exts, !.manifest = TRUE, !.object = doing[a].of]
<1>1. /\ Underway(a) /\ HeadOf(a) = "pack" /\ backups' = backups \cup {b}
      /\ Looks(a, doing[a]) /\ used' = used
  BY DEF Pack, AtCall, HeadOf
<1>2. doing[a].do = "backup" /\ OtherNow(a)
  BY <1>1, WhoIs, MakerAt, OtherAt
<1>3. ArchiveOk(doing[a].archive)
  BY <1>2 DEF OtherNow, OtherShape
<1>4. ArchiveOk(b)
  BY <1>3 DEF ArchiveOk
<1> HIDE DEF b
<1>5. BackupsInv'
  BY <1>1, <1>4 DEF LifeInv, BackupsInv
<1>6. /\ Continues(a, Next1(doing[a])) /\ UNCHANGED <<sysvol, used, faults>> /\ DOMAIN gpcs' = DOMAIN gpcs
  BY <1>1 DEF Looks
<1> QED
  BY <1>1, <1>5, <1>6, OwnCourse, LooksInv DEF HeadOf

LEMMA OpenBackupInv ==
  ASSUME LifeInv, NEW a \in LAdmin, OpenBackup(a)
  PROVE  LifeInv'
<1>1. Underway(a) /\ HeadOf(a) = "backup" /\ Keeps
  BY DEF OpenBackup, AtCall, HeadOf
<1>2. CASE LifeRefuses(a, "refused")
  BY <1>1, <1>2, RefusesAt DEF CreatingSteps
<1>3. CASE ~LifeRefuses(a, "refused")
  <2>1. PICK b, name, object : b \in backups /\
          Looks(a, [doing[a] EXCEPT !.name = name, !.archive = b, !.of = object, !.left = DOMAIN b.files])
    BY <1>3 DEF OpenBackup
  <2> DEFINE q == [doing[a] EXCEPT !.name = name, !.archive = b, !.of = object, !.left = DOMAIN b.files]
  <2>2. SameCourse(doing[a], q) /\ q.archive = b /\ q.left = DOMAIN b.files
    BY <1>1, WhoIs DEF SameCourse, OpFields
  <2>3. Looks(a, q)
    BY <2>1
  <2> HIDE DEF q
  <2>4. ArchiveOk(q.archive)
    BY <2>1, <2>2 DEF LifeInv, BackupsInv
  <2>5. PathsOk(q)
    BY <2>2, <2>4 DEF PathsOk
  <2>6. /\ Continues(a, Next1(q)) /\ UNCHANGED <<sysvol, used, faults>> /\ DOMAIN gpcs' = DOMAIN gpcs
        /\ BackupsInv'
    BY <1>1, <2>3 DEF Looks, Keeps, LifeInv, BackupsInv
  <2> QED
    BY <1>1, <2>2, <2>4, <2>5, <2>6, LooksInv DEF HeadOf
<1> QED
  BY <1>2, <1>3

---------------------------------------------------------------------------
(* Steps that write into a policy's object.                                *)
LEMMA ShowMadeInv ==
  ASSUME LifeInv, NEW a \in LAdmin, ShowMade(a)
  PROVE  LifeInv'
<1>1. Underway(a) /\ HeadOf(a) = "shown" /\ Keeps
  BY DEF ShowMade, AtCall, HeadOf
<1>2. MakerNow(a)
  BY <1>1, WhoIs, OtherAt
<1>3. doing[a].id \in DOMAIN gpcs
  BY <1>1, <1>2, MakerAt DEF RestSteps, Filling
<1> QED
  BY <1>1, <1>3, LooksAt DEF ShowMade

LEMMA WriteAttributesInv ==
  ASSUME LifeInv, Calm, NEW a \in LAdmin, WriteAttributes(a)
  PROVE  LifeInv'
<1>1. Underway(a) /\ HeadOf(a) = "attributes" /\ Keeps
  BY DEF WriteAttributes, AtCall, HeadOf
<1>2. CASE Looks(a, doing[a])
  BY <1>1, <1>2, LooksAt
<1>3. CASE LifeRefuses(a, "failed")
  BY <1>1, <1>3, RefusesAt DEF CreatingSteps
<1>4. ASSUME NEW object, Carries(a, doing[a], [gpcs EXCEPT ![doing[a].id] = object], sysvol)
      PROVE  LifeInv'
  <2>1. Continues(a, Next1(doing[a])) /\ UNCHANGED <<sysvol, faults>> /\ DOMAIN gpcs' = DOMAIN gpcs
    BY <1>4, CarriedOut
  <2> QED
    BY <1>1, <2>1, OwnCourse, ReadsInv
<1>5. \/ Looks(a, doing[a]) \/ LifeRefuses(a, "failed")
      \/ Carries(a, doing[a], [gpcs EXCEPT ![doing[a].id] = Attributed(doing[a], gpcs[doing[a].id])], sysvol)
  BY DEF WriteAttributes
<1> QED
  BY <1>2, <1>3, <1>4, <1>5

LEMMA WriteFlagsInv ==
  ASSUME LifeInv, Calm, NEW a \in LAdmin, WriteFlags(a)
  PROVE  LifeInv'
<1>1. Underway(a) /\ HeadOf(a) = "flags" /\ Keeps
  BY DEF WriteFlags, AtCall, HeadOf
<1>2. CASE Looks(a, doing[a])
  BY <1>1, <1>2, LooksAt
<1>3. CASE LifeRefuses(a, "failed")
  BY <1>1, <1>3, RefusesAt DEF CreatingSteps
<1>4. ASSUME NEW off, Carries(a, doing[a], [gpcs EXCEPT ![doing[a].id].off = off], sysvol)
      PROVE  LifeInv'
  <2>1. Continues(a, Next1(doing[a])) /\ UNCHANGED <<sysvol, faults>> /\ DOMAIN gpcs' = DOMAIN gpcs
    BY <1>4, CarriedOut
  <2> QED
    BY <1>1, <2>1, OwnCourse, ReadsInv
<1>5. \/ Looks(a, doing[a]) \/ LifeRefuses(a, "failed")
      \/ \E off : Carries(a, doing[a], [gpcs EXCEPT ![doing[a].id].off = off], sysvol)
  BY DEF WriteFlags
<1> QED
  BY <1>2, <1>3, <1>4, <1>5

LEMMA BumpHalfInv ==
  ASSUME LifeInv, Calm, NEW a \in LAdmin, BumpHalf(a)
  PROVE  LifeInv'
<1> DEFINE q == [doing[a] EXCEPT !.of = gpcs[doing[a].id]]
           gs == [gpcs EXCEPT ![doing[a].id].version = @ + 1, ![doing[a].id].exts = {"machine"}]
<1>1. Underway(a) /\ HeadOf(a) = "bump" /\ Keeps
  BY DEF BumpHalf, AtCall, HeadOf
<1>2. CASE LifeRefuses(a, "failed")
  BY <1>1, <1>2, RefusesAt DEF CreatingSteps
<1>3. CASE Carries(a, q, gs, sysvol)
  <2>1. DOMAIN gs = DOMAIN gpcs
    OBVIOUS
  <2>2. SameCourse(doing[a], q) /\ q.left = doing[a].left /\ q.archive = doing[a].archive
    BY <1>1, WhoIs DEF SameCourse, OpFields
  <2> HIDE DEF q, gs
  <2>3. Continues(a, Next1(q)) /\ UNCHANGED <<sysvol, faults>> /\ DOMAIN gpcs' = DOMAIN gpcs
    BY <1>3, <2>1, CarriedOut
  <2> QED
    BY <1>1, <2>2, <2>3, ReadsInv
<1>4. LifeRefuses(a, "failed") \/ Carries(a, q, gs, sysvol)
  BY DEF BumpHalf
<1> QED
  BY <1>2, <1>3, <1>4

---------------------------------------------------------------------------
(* Folders.                                                                *)
LEMMA PathsAre ==
  /\ IsPath(Ini) /\ Front(Ini) = Top
  /\ IsPath(Setting) /\ Front(Setting) = <<"Machine">> /\ <<"Machine">> \in Parents(Setting)
  /\ \A h \in Half : IsPath(Folder(h)) /\ Front(Folder(h)) = Top
<1>1. ASSUME NEW x PROVE Front(<<x>>) = Top
  BY DEF Front, Top
<1>2. SubSeq(Setting, 1, 1) = <<"Machine">> /\ Len(Setting) - 1 = 1
  <2> DEFINE S == {"Machine", "pol"}
             t == SubSeq(Setting, 1, 1)
             u == <<"Machine">>
  <2>1. Setting \in Seq(S) /\ Len(Setting) = 2 /\ Setting[1] = "Machine" /\ u \in Seq(S) /\ Len(u) = 1 /\ u[1] = "Machine"
    BY DEF Setting
  <2>2. t \in Seq(S) /\ Len(t) = 1 /\ t[1] = Setting[1]
    <3>1. \A i \in 1..1 : Setting[i] \in S
      BY <2>1
    <3> HIDE DEF S
    <3>2. /\ t \in Seq(S) /\ Len(t) = (IF 1 <= 1 THEN 1 - 1 + 1 ELSE 0)
          /\ \A i \in 1..1 - 1 + 1 : t[i] = Setting[1 + i - 1]
      BY <2>1, <3>1, SubSeqProperties
    <3> HIDE DEF t
    <3> QED
      BY <3>2
  <2> HIDE DEF S, t, u
  <2>3. \A i \in 1..1 : t[i] = u[i]
    BY <2>1, <2>2
  <2>4. t = u
    BY <2>1, <2>2, <2>3, SeqEqual
  <2> QED
    BY <2>1, <2>4 DEF t, u
<1>3. <<"Machine">> \in Parents(Setting) /\ Front(Setting) = <<"Machine">>
  <2>1. Front(Setting) = <<"Machine">>
    BY <1>2 DEF Front
  <2>2. 1 \in 1..(Len(Setting) - 1)
    BY <1>2
  <2>3. SubSeq(Setting, 1, 1) \in Parents(Setting)
    BY <2>2, Zenon DEF Parents
  <2> QED
    BY <1>2, <2>1, <2>3
<1> QED
  BY <1>1, <1>2, <1>3 DEF Ini, Setting, Folder, IsPath, Half

\* g is folder f with more in it.
Extended(g, f, paths) == FolderOk(g) /\ AclOf(g) = AclOf(f) /\ DOMAIN g = DOMAIN f \cup paths
\* It has the same permissions, and was made again if the folder was.
LEMMA ExtendedIs ==
  ASSUME NEW f, NEW g, NEW paths, Extended(g, f, paths)
  PROVE  /\ FolderOk(g) /\ (AclOf(f) = "derived" => AclOf(g) = "derived")
         /\ MadeAgain(f) => MadeAgain(g)
BY DEF Extended, AclOf, MadeAgain
\* Something new in a folder.
LEMMA MadeOk ==
  ASSUME NEW f, FolderOk(f), NEW p, p \notin DOMAIN f, Front(p) \in DOMAIN f,
         NEW directory, directory = TRUE \/ IsPath(p), NEW data
  PROVE  Extended(Made(f, p, directory, data), f, {p})
<1> DEFINE e == [directory |-> directory, data |-> data, acl |-> f[Front(p)].acl]
           g == Put(f, p, e)
<1>1. DOMAIN e = EntryFields /\ e.acl = AclOf(f) /\ (e.directory = TRUE \/ IsPath(p))
  BY DEF EntryFields, FolderOk, AclOf
<1> HIDE DEF e
<1>2. DOMAIN g = DOMAIN f \cup {p} /\ g[p] = e /\ \A r \in DOMAIN f : g[r] = f[r]
  BY DEF Put
<1>3. Made(f, p, directory, data) = g
  BY DEF Made, e
<1> HIDE DEF g
<1>4. Extended(g, f, {p})
  BY <1>1, <1>2 DEF FolderOk, AclOf, Extended
<1> QED
  BY <1>3, <1>4

\* A file, new or not.
LEMMA WrittenOk ==
  ASSUME NEW f, FolderOk(f), NEW p, p \in DOMAIN f \/ (Front(p) \in DOMAIN f /\ IsPath(p)), NEW data
  PROVE  Extended(WrittenFile(f, p, data), f, {p})
<1>1. CASE p \in DOMAIN f
  <2> DEFINE e == [f[p] EXCEPT !.data = data]
             g == [f EXCEPT ![p] = e]
  <2>1. WrittenFile(f, p, data) = g
    BY <1>1 DEF WrittenFile
  <2>2. DOMAIN e = EntryFields /\ e.acl = f[p].acl /\ e.directory = f[p].directory
    BY <1>1 DEF EntryFields, FolderOk
  <2> HIDE DEF e
  <2>3. DOMAIN g = DOMAIN f /\ g[p] = e /\ \A r \in DOMAIN f : r # p => g[r] = f[r]
    BY <1>1
  <2> HIDE DEF g
  <2>4. \A r \in DOMAIN f : g[r].acl = f[r].acl /\ g[r].directory = f[r].directory /\ DOMAIN g[r] = EntryFields
    BY <2>2, <2>3 DEF FolderOk
  <2>5. Extended(g, f, {p})
    BY <1>1, <2>3, <2>4 DEF FolderOk, AclOf, Extended
  <2> QED
    BY <2>1, <2>5
<1>2. CASE p \notin DOMAIN f
  <2>1. PICK directory : directory = FALSE
    OBVIOUS
  <2>2. WrittenFile(f, p, data) = Made(f, p, directory, data)
    BY <1>2, <2>1 DEF WrittenFile
  <2>3. p \notin DOMAIN f /\ Front(p) \in DOMAIN f /\ (directory = TRUE \/ IsPath(p))
    BY <1>2
  <2>4. Extended(Made(f, p, directory, data), f, {p})
    BY <2>3, MadeOk
  <2> QED
    BY <2>2, <2>4
<1> QED
  BY <1>1, <1>2

\* The folders a file needs.
LEMMA FilledOk ==
  ASSUME NEW f, FolderOk(f), NEW p
  PROVE  Extended(FilledUp(f, WithParents(f, p)), f, Parents(p))
<1> DEFINE w == WithParents(f, p)
           g == FilledUp(f, w)
<1>1. DOMAIN w = Parents(p)
      /\ \A r \in Parents(p) : DOMAIN w[r] = EntryFields /\ w[r].acl = AclOf(f) /\ w[r].directory = TRUE
  BY DEF WithParents, EntryFields, AclOf
<1> HIDE DEF w
<1>2. /\ DOMAIN g = DOMAIN f \cup Parents(p) /\ \A r \in DOMAIN f : g[r] = f[r]
      /\ \A r \in Parents(p) : r \notin DOMAIN f => g[r] = w[r]
  BY <1>1 DEF FilledUp
<1> HIDE DEF g
<1>3. Extended(g, f, Parents(p))
  BY <1>1, <1>2 DEF FolderOk, AclOf, Extended
<1> QED
  BY <1>3 DEF g, w

---------------------------------------------------------------------------
(* Steps that write into a policy's folder.                                *)

\* Nobody else is making the policy of a session that writes into it, so its
\* folder has the permissions of the policy, save before its maker set them or
\* after a save made it again.
LEMMA Stamped ==
  ASSUME LifeInv, NEW a \in LAdmin, doing[a].do \in Making \cup Acting, doing[a].id \in DOMAIN sysvol,
         doing[a].do \in Making => HeadOf(a) \notin {"stamp", "untree"}
  PROVE  /\ \/ AclOf(sysvol[doing[a].id]) = "derived"
            \/ doing[a].do \notin Making /\ MadeAgain(sysvol[doing[a].id])
         /\ FolderOk(sysvol[doing[a].id]) /\ doing[a].id # "none"
<1>1. doing[a].id # "none"
  BY LifeStart DEF LifeInv, OwnedInv
<1>2. ASSUME NEW b \in LAdmin PROVE ~Bare(b, doing[a].id)
  BY <1>1 DEF Bare, HeadOf, LifeInv, AloneInv
<1> QED
  BY <1>1, <1>2 DEF LifeInv, FoldersInv, Unmade

\* The policy c of session a gets a folder g, or another one.
LEMMA FolderWrites ==
  ASSUME LifeInv, NEW a \in LAdmin, Underway(a), doing[a].do \in Making \cup Acting, NEW c, c = doing[a].id,
         c \in used, NEW g, FolderOk(g), c \in DOMAIN gpcs \/ MadeAgain(g),
         Original(c) \/ MadeAgain(g) \/ doing[a].do \in Making,
         AclOf(g) = "derived" \/ Bare(a, c)' \/ (MadeAgain(g) /\ doing[a].do \in Acting),
         DOMAIN sysvol' = DOMAIN sysvol \cup {c}, sysvol'[c] = g,
         \A id \in DOMAIN sysvol \ {c} : sysvol'[id] = sysvol[id],
         NEW x, Continues(a, x), UNCHANGED <<gpcs, faults>>, Keeps,
         Shape(a)', IdleShape(x) \/ (x.do = doing[a].do /\ x.id = c)
  PROVE  LifeInv'
<1>1. doing' = [doing EXCEPT ![a] = x] /\ UNCHANGED <<gpcs, faults, used, backups>>
  BY DEF Continues, Keeps
<1>2. c # "none" /\ c \in used
  BY LifeStart DEF LifeInv, OwnedInv
<1>9. doing'[a] = x /\ \A b \in LAdmin \ {a} : doing'[b] = doing[b]
  BY <1>1 DEF LifeInv, ShapesInv
<1>10. Making \cap Acting = {}
  BY DEF Making, Acting
<1>3. \A b \in LAdmin \ {a} :
        /\ doing[b].do \in Making /\ doing[b].id # "none" => doing[b].id # c
        /\ doing[a].do \in Making /\ doing[b].do \in Acting => doing[b].id # c
  BY <1>2 DEF LifeInv, AloneInv
<1>4. Spares(a)
  <2> SUFFICES ASSUME NEW b \in LAdmin \ {a}
               PROVE  /\ doing[b].do \in Making /\ doing[b].id # "none" => Same(doing[b].id)
                      /\ doing[b].do = "delete" => (Original(doing[b].id)' => Original(doing[b].id))
    BY DEF Spares
  <2>1. ASSUME doing[b].do \in Making, doing[b].id # "none" PROVE Same(doing[b].id)
    BY <1>1, <1>3, <2>1 DEF Same
  <2>2. ASSUME doing[b].do = "delete", Original(doing[b].id)' PROVE Original(doing[b].id)
    <3> DEFINE d == doing[b].id
    <3>1. doing'[b].id = d
      BY <1>9
    <3>2. d \in DOMAIN sysvol' /\ ~MadeAgain(sysvol'[d])
      BY <2>2, <3>1 DEF Original
    <3>3. CASE d = c
      <4>1. doing[a].do \notin Making
        BY <1>3, <2>2, <3>3 DEF Acting
      <4> QED
        BY <3>2, <3>3, <4>1
    <3>4. CASE d # c
      BY <3>2, <3>4 DEF Original
    <3> QED
      BY <3>3, <3>4
  <2> QED
    BY <2>1, <2>2
<1>5. OwnedInv' /\ BackupsInv' /\ faults' >= faults /\ used \subseteq used'
  <2>1. ASSUME NEW id \in DOMAIN sysvol' PROVE id \in used /\ (id \in DOMAIN gpcs \/ MadeAgain(sysvol'[id]))
    <3>1. CASE id = c
      BY <1>2, <3>1
    <3>2. CASE id # c
      BY <3>2 DEF LifeInv, OwnedInv
    <3> QED
      BY <3>1, <3>2
  <2> QED
    BY <1>1, <2>1, LifeConstants DEF LifeInv, OwnedInv, BackupsInv
<1>11. x.do \in Making => (doing[a].do \in Making /\ x.id = doing[a].id) \/ x.id \notin DOMAIN sysvol
  BY DEF IdleShape, Making
<1>12. MadeAgain(g) /\ doing[a].do \in Acting => Unmade(c)'
  <2> SUFFICES ASSUME doing[a].do \in Acting, NEW b \in LAdmin, doing'[b].do \in Making
               PROVE  doing'[b].id # c
    BY DEF Unmade
  <2>1. b # a
    BY <1>9, <1>10 DEF IdleShape, Making
  <2> QED
    BY <1>2, <1>3, <1>9, <2>1
<1>6. x.do \in Acting => x.id \in used'
  BY <1>1, <1>2 DEF IdleShape, Acting
<1>7. \A b \in LAdmin \ {a} :
        /\ doing[b].do \in Making /\ doing[b].id # "none" /\ x.do \in Making \cup Acting =>
             x.id # doing[b].id
        /\ x.do \in Making /\ x.id # "none" /\ doing[b].do \in Making \cup Acting =>
             doing[b].id # x.id
  BY DEF LifeInv, AloneInv, IdleShape, Making, Acting
<1>8. ASSUME NEW id \in DOMAIN sysvol'
      PROVE  \/ /\ id \in DOMAIN sysvol /\ sysvol'[id] = sysvol[id]
                /\ ~Bare(a, id) \/ AclOf(sysvol[id]) = "derived"
             \/ /\ FolderOk(sysvol'[id])
                /\ \/ AclOf(sysvol'[id]) = "derived" \/ Bare(a, id)'
                   \/ MadeAgain(sysvol'[id]) /\ Unmade(id)'
  <2>1. CASE id = c
    BY <1>12, <2>1
  <2>2. CASE id # c
    BY <2>2 DEF Bare
  <2> QED
    BY <2>1, <2>2
<1> QED
  BY <1>1, <1>4, <1>5, <1>6, <1>7, <1>8, <1>11, Keeping

\* The maker of a policy writes into its folder and goes on.
LEMMA MakerWrites ==
  ASSUME LifeInv, NEW a \in LAdmin, Underway(a), MakerNow(a), doing[a].do \in Making,
         HeadOf(a) \notin {"object", "folder", "made", "untree", "tree", "gone", "unobject"},
         doing[a].id \in DOMAIN gpcs, doing[a].id \in DOMAIN sysvol,
         NEW g, FolderOk(g), AclOf(g) = "derived",
         HeadOf(a) = "stamp" => DOMAIN g = {Top},
         HeadOf(a) = "machine" => DOMAIN g = {Top, <<"Machine">>},
         sysvol' = [sysvol EXCEPT ![doing[a].id] = g],
         Continues(a, Next1(doing[a])), UNCHANGED <<gpcs, faults>>, Keeps
  PROVE  LifeInv'
<1>0. PICK op, c : op = doing[a] /\ c = doing[a].id
  OBVIOUS
<1> DEFINE x == Next1(op)
           object == c \in DOMAIN gpcs
           folder == c \in DOMAIN sysvol
           paths == DOMAIN FolderOf(c)
           later == DOMAIN g
           last == faults = MaxFaults
<1>1. /\ IdleShape(x) \/ MakerShape(x, object, folder, later, last)
      /\ IdleShape(x) \/ (x.do = op.do /\ x.id = op.id)
  <2>1. MakerShape(op, object, folder, paths, last)
    BY <1>0 DEF MakerNow
  <2>2. /\ SameCourse(op, op) /\ PathsOk(op) /\ folder \in BOOLEAN
        /\ Head(op.todo) \notin {"object", "folder", "made", "untree", "tree", "gone", "unobject"}
        /\ Head(op.todo) = "stamp" => later = {Top}
        /\ Head(op.todo) = "machine" => later = {Top, <<"Machine">>}
    BY <1>0, OwnCourse DEF HeadOf
  <2> HIDE DEF object, folder, paths, later, last
  <2> QED
    BY <2>1, <2>2, MakerGoesOn
<1>2. doing'[a] = x
  BY <1>0 DEF Continues, LifeInv, ShapesInv
<1>3. Shape(a)'
  <2>1. CASE IdleShape(x)
    BY <1>2, <2>1 DEF Shape
  <2>2. CASE ~IdleShape(x)
    <3>1. MakerShape(x, object, folder, later, last) /\ x.id = c
      BY <1>0, <1>1, <2>2
    <3>2. /\ DOMAIN sysvol' = DOMAIN sysvol /\ sysvol'[c] = g /\ c \in DOMAIN sysvol
      BY <1>0
    <3> HIDE DEF x
    <3> QED
      BY <1>2, <3>1, <3>2 DEF Shape, FolderOf
  <2> QED
    BY <2>1, <2>2
<1>4. Continues(a, x) /\ (IdleShape(x) \/ (x.do = doing[a].do /\ x.id = c))
  BY <1>0, <1>1
<1>5. c \in DOMAIN gpcs /\ DOMAIN sysvol' = DOMAIN sysvol \cup {c} /\ sysvol'[c] = g
      /\ (\A id \in DOMAIN sysvol \ {c} : sysvol'[id] = sysvol[id]) /\ c \in used
  BY <1>0 DEF LifeInv, OwnedInv
<1> HIDE DEF x
<1> QED
  BY <1>0, <1>3, <1>4, <1>5, FolderWrites

\* A session that saves into a policy does, or makes its folder again.
LEMMA OtherWrites ==
  ASSUME LifeInv, NEW a \in LAdmin, Underway(a), OtherNow(a), doing[a].do = "edit",
         NEW c, c = doing[a].id,
         NEW g, FolderOk(g), (Original(c) /\ AclOf(g) = "derived") \/ MadeAgain(g),
         DOMAIN sysvol' = DOMAIN sysvol \cup {c}, sysvol'[c] = g,
         \A id \in DOMAIN sysvol \ {c} : sysvol'[id] = sysvol[id],
         Continues(a, Next1(doing[a])), UNCHANGED <<gpcs, faults>>, Keeps
  PROVE  LifeInv'
<1> DEFINE op == doing[a]
           x == Next1(doing[a])
           whole == Original(doing[a].id)
<1>1. /\ IdleShape(x) \/ OtherShape(x, whole)
      /\ IdleShape(x) \/ (x.do = op.do /\ x.id = op.id)
  <2>1. OtherShape(op, whole)
    BY DEF OtherNow
  <2>2. Head(op.todo) \notin {"tree", "gone"}
    BY OtherAt DEF HeadOf, DeleterShape
  <2>3. SameCourse(op, op) /\ (op.do = "backup" => ArchiveOk(op.archive))
    BY OwnCourse
  <2> HIDE DEF op, whole
  <2> QED
    BY <2>1, <2>2, <2>3, OtherGoesOn DEF op
<1>2. doing'[a] = x
  BY DEF Continues, LifeInv, ShapesInv
<1>3. Shape(a)'
  <2>1. CASE IdleShape(x)
    BY <1>2, <2>1 DEF Shape
  <2>2. CASE ~IdleShape(x)
    <3>1. OtherShape(x, whole) /\ x.do = "edit"
      BY <1>1, <2>2
    <3> HIDE DEF x, whole
    <3>2. ASSUME NEW w PROVE OtherShape(x, w)
      BY <3>1 DEF OtherShape, DeleterShape
    <3> QED
      BY <1>2, <3>2 DEF Shape
  <2> QED
    BY <2>1, <2>2
<1>4. Continues(a, x) /\ (IdleShape(x) \/ (x.do = doing[a].do /\ x.id = c))
  BY <1>1
<1>5. c \in used /\ (c \in DOMAIN gpcs \/ MadeAgain(g))
  BY DEF LifeInv, AloneInv, OwnedInv, Acting, Original
<1>6. doing[a].do \in Acting
  BY DEF Acting
<1> HIDE DEF x
<1> QED
  BY <1>3, <1>4, <1>5, <1>6, FolderWrites

\* Where a policy being created is, from the step it is at.
LEMMA CreatingIs ==
  ASSUME LifeInv, NEW a \in LAdmin, Underway(a), HeadOf(a) \in CreatingSteps
  PROVE  /\ MakerNow(a) /\ doing[a].do \in Making /\ doing[a].id \in DOMAIN gpcs
         /\ HeadOf(a) \in {"stamp", "machine", "user", "ini", "made"} => doing[a].id \in DOMAIN sysvol
         /\ HeadOf(a) \in {"children", "folder"} => doing[a].id \notin DOMAIN sysvol
         /\ HeadOf(a) \in {"stamp", "machine"} => DOMAIN sysvol[doing[a].id] = {Top}
         /\ HeadOf(a) = "user" => DOMAIN sysvol[doing[a].id] = {Top, <<"Machine">>}
<1> DEFINE op == doing[a]
           object == op.id \in DOMAIN gpcs
           folder == op.id \in DOMAIN sysvol
           paths == DOMAIN FolderOf(op.id)
<1>1. MakerNow(a) /\ op.do \in Making
  BY WhoIs, OtherAt DEF CreatingSteps
<1>2. Creating(op, object, folder, paths)
  BY <1>1, MakerAt DEF CreatingNow, CreatingSteps, PathsOf
<1> HIDE DEF op, object, folder, paths
<1>3. PICK j \in Lead(op.do) + 3..Lead(op.do) + 9 :
        /\ op.todo = From(op.do, j) /\ folder = (j > Lead(op.do) + 4)
        /\ j \in {Lead(op.do) + 5, Lead(op.do) + 6} => paths = {Top}
        /\ j = Lead(op.do) + 7 => paths = {Top, <<"Machine">>}
  BY <1>2 DEF Creating
<1>4. Lead(op.do) \in {0, 1}
  BY <1>1, PlanIs
<1>5. PICK k \in 3..9 : j = Lead(op.do) + k
  <2>1. j - Lead(op.do) \in 3..9 /\ j = Lead(op.do) + (j - Lead(op.do))
    BY <1>4
  <2> QED
    BY <2>1
<1>6. Head(op.todo) = Create[k]
  BY <1>1, <1>3, <1>5, CreatingHead
<1>7. /\ Head(op.todo) \in {"stamp", "machine", "user", "ini", "made"} => folder
      /\ Head(op.todo) \in {"children", "folder"} => ~folder
      /\ Head(op.todo) \in {"stamp", "machine"} => paths = {Top}
      /\ Head(op.todo) = "user" => paths = {Top, <<"Machine">>}
  <2>1. /\ k \in {5, 6, 7, 8, 9} => folder
        /\ k \in {3, 4} => ~folder
        /\ k \in {5, 6} => paths = {Top}
        /\ k = 7 => paths = {Top, <<"Machine">>}
    <3>1. (j > Lead(op.do) + 4) = (k > 4)
      BY <1>4, <1>5
    <3>2. /\ k = 5 => j = Lead(op.do) + 5
          /\ k = 6 => j = Lead(op.do) + 6
          /\ k = 7 => j = Lead(op.do) + 7
      BY <1>4, <1>5
    <3>3. folder = (k > 4)
      BY <1>3, <3>1
    <3>4. (k \in {5, 6, 7, 8, 9} => k > 4) /\ (k \in {3, 4} => ~(k > 4))
      OBVIOUS
    <3> QED
      BY <1>3, <3>2, <3>3, <3>4
  <2>2. k \in {3, 4, 5, 6, 7, 8, 9}
    OBVIOUS
  <2> QED
    BY <1>6, <2>1, <2>2, CreateIs
<1>8. object
  BY <1>2 DEF Creating
<1> QED
  BY <1>1, <1>7, <1>8 DEF op, object, folder, paths, HeadOf, FolderOf

LEMMA StampTreeInv ==
  ASSUME LifeInv, Calm, NEW a \in LAdmin, StampTree(a)
  PROVE  LifeInv'
<1> DEFINE c == doing[a].id
           g == [sysvol[c] EXCEPT ![Top].acl = "derived"]
           fs == [sysvol EXCEPT ![c][Top].acl = "derived"]
<1>1. Underway(a) /\ HeadOf(a) = "stamp" /\ Keeps
  BY DEF StampTree, AtCall, HeadOf
<1>2. MakerNow(a) /\ doing[a].do \in Making /\ c \in DOMAIN gpcs /\ c \in DOMAIN sysvol /\ DOMAIN sysvol[c] = {Top}
  BY <1>1, CreatingIs DEF CreatingSteps
<1>3. Carries(a, doing[a], gpcs, fs)
  BY <1>2 DEF StampTree
<1>4. fs = [sysvol EXCEPT ![c] = g]
  OBVIOUS
<1>5. FolderOk(sysvol[c])
  BY <1>2 DEF LifeInv, FoldersInv
<1>6. FolderOk(g) /\ AclOf(g) = "derived" /\ DOMAIN g = {Top}
  <2> DEFINE e == [sysvol[c][Top] EXCEPT !.acl = "derived"]
  <2>1. g = [sysvol[c] EXCEPT ![Top] = e]
    OBVIOUS
  <2>2. DOMAIN e = EntryFields /\ e.acl = "derived" /\ e.directory = sysvol[c][Top].directory
    BY <1>2, <1>5 DEF FolderOk, EntryFields
  <2> HIDE DEF e, g
  <2>3. DOMAIN g = {Top} /\ g[Top] = e
    BY <1>2, <2>1
  <2> QED
    BY <1>2, <1>5, <2>2, <2>3 DEF FolderOk, AclOf
<1> HIDE DEF g, fs
<1>7. sysvol' = [sysvol EXCEPT ![c] = g] /\ Continues(a, Next1(doing[a])) /\ UNCHANGED <<gpcs, faults>>
  BY <1>3, <1>4, CarriedOut
<1>8. HeadOf(a) \notin {"object", "folder", "made", "untree", "tree", "gone", "unobject"} /\ HeadOf(a) # "machine"
  BY <1>1
<1> QED
  BY <1>1, <1>2, <1>6, <1>7, <1>8, MakerWrites

LEMMA MakeHalfInv ==
  ASSUME LifeInv, Calm, NEW a \in LAdmin, MakeHalf(a)
  PROVE  LifeInv'
<1>1. PICK h \in Half :
        /\ AtCall(a, h)
        /\ IF doing[a].id \notin DOMAIN sysvol \/ Folder(h) \in DOMAIN FolderOf(doing[a].id)
           THEN LifeRefuses(a, "failed")
           ELSE Carries(a, doing[a], gpcs,
                        [sysvol EXCEPT ![doing[a].id] = Made(@, Folder(h), TRUE, 0)])
        /\ Keeps
  BY DEF MakeHalf
<1> DEFINE c == doing[a].id
           p == Folder(h)
           fs == [sysvol EXCEPT ![c] = Made(@, p, TRUE, 0)]
<1>2. Underway(a) /\ HeadOf(a) = h /\ h \in {"machine", "user"}
  BY <1>1 DEF AtCall, HeadOf, Half
<1>3. MakerNow(a) /\ doing[a].do \in Making /\ c \in DOMAIN gpcs /\ c \in DOMAIN sysvol
  BY <1>2, CreatingIs DEF CreatingSteps
<1>4. p \notin DOMAIN sysvol[c] /\ (h = "machine" => DOMAIN sysvol[c] \cup {p} = {Top, <<"Machine">>})
  <2>1. CASE h = "machine"
    <3>1. DOMAIN sysvol[c] = {Top} /\ p = <<"Machine">>
      BY <1>2, <2>1, CreatingIs DEF CreatingSteps, Folder
    <3>2. <<"Machine">> # Top
      BY DEF Top
    <3> QED
      BY <3>1, <3>2
  <2>2. CASE h = "user"
    <3>1. DOMAIN sysvol[c] = {Top, <<"Machine">>} /\ p = <<"User">>
      BY <1>2, <2>2, CreatingIs DEF CreatingSteps, Folder
    <3>2. <<"User">> # Top /\ <<"User">> # <<"Machine">>
      BY DEF Top
    <3> QED
      BY <2>2, <3>1, <3>2
  <2> QED
    BY <1>2, <2>1, <2>2
<1>5. Carries(a, doing[a], gpcs, fs)
  BY <1>1, <1>3, <1>4 DEF FolderOf
<1>6. AclOf(sysvol[c]) = "derived" /\ FolderOk(sysvol[c])
  BY <1>2, <1>3, Stamped
<1>7. PICK directory, data : directory = TRUE /\ data = 0
  OBVIOUS
<1> DEFINE g == Made(sysvol[c], p, directory, data)
<1>8. fs = [sysvol EXCEPT ![c] = g]
  BY <1>7
<1>9. Front(p) \in DOMAIN sysvol[c]
  BY <1>6, PathsAre DEF FolderOk
<1>10. Extended(g, sysvol[c], {p})
  <2> DEFINE f == sysvol[c]
  <2>1. FolderOk(f) /\ p \notin DOMAIN f /\ Front(p) \in DOMAIN f /\ (directory = TRUE \/ IsPath(p))
    BY <1>4, <1>6, <1>7, <1>9
  <2> HIDE DEF f, p
  <2>2. Extended(Made(f, p, directory, data), f, {p})
    BY <2>1, MadeOk
  <2> QED
    BY <2>2 DEF f, p
<1> HIDE DEF g, fs
<1>11. FolderOk(g) /\ AclOf(g) = "derived" /\ DOMAIN g = DOMAIN sysvol[c] \cup {p}
  BY <1>6, <1>10 DEF Extended
<1>12. sysvol' = [sysvol EXCEPT ![c] = g] /\ Continues(a, Next1(doing[a])) /\ UNCHANGED <<gpcs, faults>>
  BY <1>5, <1>8, CarriedOut
<1>13. /\ HeadOf(a) \notin {"object", "folder", "made", "untree", "tree", "gone", "unobject"} /\ HeadOf(a) # "stamp"
       /\ HeadOf(a) = "machine" => DOMAIN g = {Top, <<"Machine">>}
  BY <1>2, <1>4, <1>11
<1> QED
  BY <1>1, <1>2, <1>3, <1>11, <1>12, <1>13, MakerWrites

\* GPT.INI, by the maker of a policy or by an editor.
LEMMA WriteIniInv ==
  ASSUME LifeInv, Calm, NEW a \in LAdmin, NEW step \in {"ini", "version", "restamp"}, NEW version,
         WriteIni(a, step, version)
  PROVE  LifeInv'
<1> DEFINE c == doing[a].id
           g == WrittenFile(sysvol[c], Ini, version)
           fs == [sysvol EXCEPT ![c] = WrittenFile(@, Ini, version)]
<1>1. Underway(a) /\ HeadOf(a) = step /\ Keeps
  BY DEF WriteIni, AtCall, HeadOf
<1>2. CASE c \in DOMAIN sysvol
  <2>1. Carries(a, doing[a], gpcs, fs)
    BY <1>2 DEF WriteIni
  <2>2. fs = [sysvol EXCEPT ![c] = g]
    OBVIOUS
  <2>3. sysvol' = [sysvol EXCEPT ![c] = g] /\ Continues(a, Next1(doing[a])) /\ UNCHANGED <<gpcs, faults>>
    <3> HIDE DEF g, fs
    <3> QED
      BY <2>1, <2>2, CarriedOut
  <2>4. HeadOf(a) \notin {"stamp", "untree"} /\ doing[a].do \in Making \cup Acting
    BY <1>1, WhoIs, OtherAt
  <2>5. /\ FolderOk(sysvol[c])
        /\ AclOf(sysvol[c]) = "derived" \/ (doing[a].do \notin Making /\ MadeAgain(sysvol[c]))
    BY <1>2, <2>4, Stamped
  <2>6. Extended(g, sysvol[c], {Ini})
    <3> DEFINE f == sysvol[c]
    <3>1. FolderOk(f) /\ Front(Ini) \in DOMAIN f /\ IsPath(Ini)
      BY <2>5, PathsAre DEF FolderOk
    <3> HIDE DEF f
    <3>2. Extended(WrittenFile(f, Ini, version), f, {Ini})
      BY <3>1, WrittenOk
    <3> QED
      BY <3>2 DEF f
  <2> HIDE DEF g
  <2>7. FolderOk(g) /\ (AclOf(g) = "derived" \/ (doing[a].do \notin Making /\ MadeAgain(g)))
    BY <2>5, <2>6, ExtendedIs
  <2>8. HeadOf(a) \notin {"object", "folder", "made", "stamp", "machine", "untree", "tree", "gone", "unobject"}
    BY <1>1
  <2>9. CASE doing[a].do \in Making /\ MakerNow(a)
    <3>1. c \in DOMAIN gpcs
      BY <2>9, <1>2, Stamped, <2>4, MakersOwn
    <3> QED
      BY <1>1, <1>2, <2>3, <2>7, <2>8, <2>9, <3>1, MakerWrites
  <2>10. CASE OtherNow(a) /\ doing[a].do \notin Making
    <3>1. doing[a].do = "edit"
      BY <1>1, <2>10, OtherAt
    <3>2. (Original(c) /\ AclOf(g) = "derived") \/ MadeAgain(g)
      BY <1>2, <2>5, <2>6, <2>7, ExtendedIs DEF Original
    <3>3. /\ DOMAIN sysvol' = DOMAIN sysvol \cup {c} /\ sysvol'[c] = g
          /\ \A id \in DOMAIN sysvol \ {c} : sysvol'[id] = sysvol[id]
      BY <1>2, <2>3
    <3> QED
      BY <1>1, <2>3, <2>7, <2>10, <3>1, <3>2, <3>3, OtherWrites
  <2> QED
    BY <1>1, <2>9, <2>10, WhoIs
<1>3. CASE c \notin DOMAIN sysvol
  <2>1. LifeRefuses(a, "failed")
    BY <1>3 DEF WriteIni
  <2>2. step # "ini"
    BY <1>1, <1>3, CreatingIs DEF CreatingSteps
  <2> QED
    BY <1>1, <2>1, <2>2, RefusesAt DEF CreatingSteps
<1> QED
  BY <1>2, <1>3

LEMMA SaveInv ==
  ASSUME LifeInv, Calm, NEW a \in LAdmin, Save(a)
  PROVE  LifeInv'
<1> DEFINE c == doing[a].id
           fs == [sysvol EXCEPT ![c] = WrittenFile(@, Setting, lifeOps)]
<1>1. Underway(a) /\ HeadOf(a) = "save" /\ Keeps
  BY DEF Save, AtCall, HeadOf
<1>2. CASE LifeRefuses(a, "failed")
  BY <1>1, <1>2, RefusesAt DEF CreatingSteps
<1>3. CASE <<"Machine">> \in DOMAIN FolderOf(c) /\ Carries(a, doing[a], gpcs, fs)
  <2>1. c \in DOMAIN sysvol /\ <<"Machine">> \in DOMAIN sysvol[c]
    <3>1. CASE c \in DOMAIN sysvol
      BY <1>3, <3>1 DEF FolderOf
    <3>2. CASE c \notin DOMAIN sysvol
      BY <1>3, <3>2 DEF FolderOf
    <3> QED
      BY <3>1, <3>2
  <2>2. doing[a].do = "edit" /\ OtherNow(a)
    BY <1>1, WhoIs, MakerAt, OtherAt
  <2>3. FolderOk(sysvol[c]) /\ (AclOf(sysvol[c]) = "derived" \/ MadeAgain(sysvol[c]))
    <3>1. doing[a].do \in Making \cup Acting /\ doing[a].do \notin Making
      BY <2>2 DEF Making, Acting
    <3> QED
      BY <1>1, <2>1, <3>1, Stamped
  <2>4. PICK data : data = lifeOps
    OBVIOUS
  <2> DEFINE g == WrittenFile(sysvol[c], Setting, data)
  <2>5. fs = [sysvol EXCEPT ![c] = g]
    BY <2>4
  <2>6. sysvol' = [sysvol EXCEPT ![c] = g] /\ Continues(a, Next1(doing[a])) /\ UNCHANGED <<gpcs, faults>>
    <3> HIDE DEF g, fs
    <3> QED
      BY <1>3, <2>5, CarriedOut
  <2>7. Extended(g, sysvol[c], {Setting})
    <3> DEFINE f == sysvol[c]
    <3>1. FolderOk(f) /\ Front(Setting) \in DOMAIN f /\ IsPath(Setting)
      BY <2>1, <2>3, PathsAre
    <3> HIDE DEF f
    <3>2. Extended(WrittenFile(f, Setting, data), f, {Setting})
      BY <3>1, WrittenOk
    <3> QED
      BY <3>2 DEF f
  <2> HIDE DEF g
  <2>8. FolderOk(g) /\ ((Original(c) /\ AclOf(g) = "derived") \/ MadeAgain(g))
    BY <2>1, <2>3, <2>7, ExtendedIs DEF Original
  <2>9. /\ DOMAIN sysvol' = DOMAIN sysvol \cup {c} /\ sysvol'[c] = g
        /\ \A id \in DOMAIN sysvol \ {c} : sysvol'[id] = sysvol[id]
    BY <2>1, <2>6
  <2> QED
    BY <1>1, <2>2, <2>6, <2>8, <2>9, OtherWrites
<1> QED
  BY <1>2, <1>3 DEF Save

\* A save makes the folders above its file, the policy's own too.
LEMMA MakeParentsInv ==
  ASSUME LifeInv, Calm, NEW a \in LAdmin, MakeParents(a)
  PROVE  LifeInv'
<1>1. PICK c, f : c = doing[a].id /\ f = FolderOrNew(c)
  OBVIOUS
<1> DEFINE g == FilledUp(f, WithParents(f, Setting))
           fs == Put(sysvol, c, g)
<1>2. Underway(a) /\ HeadOf(a) = "parents" /\ Keeps /\ Carries(a, doing[a], gpcs, fs)
  BY <1>1 DEF MakeParents, AtCall, HeadOf
<1>3. doing[a].do = "edit" /\ OtherNow(a)
  BY <1>2, WhoIs, MakerAt, OtherAt
<1>4. /\ FolderOk(f)
      /\ \/ c \in DOMAIN sysvol /\ f = sysvol[c] /\ (AclOf(f) = "derived" \/ MadeAgain(f))
         \/ c \notin DOMAIN sysvol /\ AclOf(f) = "share"
  <2>1. CASE c \in DOMAIN sysvol
    <3>1. f = sysvol[c]
      BY <1>1, <2>1 DEF FolderOrNew
    <3>2. doing[a].do \in Making \cup Acting /\ doing[a].do \notin Making
      BY <1>3 DEF Making, Acting
    <3> QED
      BY <1>1, <1>2, <2>1, <3>1, <3>2, Stamped
  <2>2. CASE c \notin DOMAIN sysvol
    <3>1. f = NewFolder
      BY <1>1, <2>2 DEF FolderOrNew
    <3>2. DOMAIN f = {Top} /\ DOMAIN f[Top] = EntryFields /\ f[Top].acl = "share" /\ f[Top].directory = TRUE
      BY <3>1 DEF NewFolder, EntryFields
    <3> QED
      BY <2>2, <3>2 DEF FolderOk, AclOf
  <2> QED
    BY <2>1, <2>2
<1>5. Extended(g, f, Parents(Setting))
  BY <1>4, FilledOk
<1> HIDE DEF g
<1>6. (Original(c) /\ AclOf(g) = "derived") \/ MadeAgain(g)
  <2>1. <<"Machine">> \in DOMAIN g
    BY <1>5, PathsAre DEF Extended
  <2>2. AclOf(g) = AclOf(f) /\ (MadeAgain(f) => MadeAgain(g))
    BY <1>5, ExtendedIs DEF Extended
  <2>3. AclOf(f) = "share" => MadeAgain(g)
    BY <2>1, <2>2 DEF AclOf, MadeAgain
  <2> QED
    BY <1>4, <2>2, <2>3 DEF Original
<1>7. sysvol' = fs /\ Continues(a, Next1(doing[a])) /\ UNCHANGED <<gpcs, faults>>
  <2> HIDE DEF fs
  <2> QED
    BY <1>2, CarriedOut
<1>8. /\ DOMAIN sysvol' = DOMAIN sysvol \cup {c} /\ sysvol'[c] = g
      /\ \A id \in DOMAIN sysvol \ {c} : sysvol'[id] = sysvol[id]
  BY <1>7 DEF Put
<1>9. FolderOk(g)
  BY <1>5 DEF Extended
<1> QED
  BY <1>1, <1>2, <1>3, <1>6, <1>7, <1>8, <1>9, OtherWrites

\* The maker of a policy is at its files.
LEMMA FilesAt ==
  ASSUME LifeInv, NEW a \in LAdmin, Underway(a), HeadOf(a) = "files", doing[a].do \in Making
  PROVE  /\ MakerNow(a) /\ doing[a].id \in DOMAIN gpcs /\ doing[a].id \in DOMAIN sysvol
         /\ Filling(doing[a], TRUE, TRUE)
         /\ FolderOk(sysvol[doing[a].id]) /\ AclOf(sysvol[doing[a].id]) = "derived"
<1>1. MakerNow(a)
  BY WhoIs
<1>2. Filling(doing[a], doing[a].id \in DOMAIN gpcs, doing[a].id \in DOMAIN sysvol)
  BY <1>1, MakerAt DEF RestSteps
<1>3. doing[a].id \in DOMAIN gpcs /\ doing[a].id \in DOMAIN sysvol /\ Filling(doing[a], TRUE, TRUE)
  BY <1>2 DEF Filling
<1> QED
  BY <1>1, <1>3, Stamped

\* It takes one off its list, whatever that writes into its folder.
LEMMA FileTaken ==
  ASSUME LifeInv, NEW a \in LAdmin, Underway(a), HeadOf(a) = "files", doing[a].do \in Making,
         NEW path, Continues(a, [doing[a] EXCEPT !.left = @ \ {path}]),
         NEW g, FolderOk(g), AclOf(g) = "derived",
         DOMAIN sysvol' = DOMAIN sysvol, sysvol'[doing[a].id] = g,
         \A id \in DOMAIN sysvol \ {doing[a].id} : sysvol'[id] = sysvol[id],
         UNCHANGED <<gpcs, faults>>, Keeps
  PROVE  LifeInv'
<1>0. PICK op, c : op = doing[a] /\ c = doing[a].id
  OBVIOUS
<1> DEFINE q == [op EXCEPT !.left = @ \ {path}]
           later == DOMAIN g
           last == faults = MaxFaults
<1>1. /\ Filling(op, TRUE, TRUE) /\ c \in DOMAIN gpcs /\ c \in DOMAIN sysvol /\ op.id = c
      /\ DOMAIN op = OpFields /\ PathsOk(op) /\ op.do \in Making
  BY <1>0, FilesAt, OwnCourse, WhoIs
<1>2. q = [op EXCEPT !.left = op.left \ {path}]
  BY <1>1 DEF OpFields
<1>3. Continues(a, q)
  BY <1>0
<1> HIDE DEF q
<1>4. SameCourse(op, q) /\ q.left = op.left \ {path} /\ q.archive = op.archive
  BY <1>1, <1>2 DEF SameCourse, OpFields
<1>5. PathsOk(q) /\ Filling(q, TRUE, TRUE)
  BY <1>1, <1>4 DEF PathsOk, SameCourse, Filling
<1>6. MakerShape(q, TRUE, TRUE, later, last)
  <2> HIDE DEF later, last
  <2> QED
    BY <1>1, <1>4, <1>5 DEF MakerShape, SameCourse, PathsOk
<1>7. doing'[a] = q
  BY <1>3 DEF Continues, LifeInv, ShapesInv
<1>8. q.id = c /\ q.do = doing[a].do
  BY <1>0, <1>1, <1>4 DEF SameCourse
<1>9. sysvol'[c] = g /\ c \in DOMAIN sysvol' /\ c \in DOMAIN gpcs' /\ faults' = faults
  BY <1>0, <1>1
<1>10. Shape(a)'
  BY <1>6, <1>7, <1>8, <1>9 DEF Shape, FolderOf
<1>11. DOMAIN sysvol' = DOMAIN sysvol \cup {c} /\ \A id \in DOMAIN sysvol \ {c} : sysvol'[id] = sysvol[id]
  BY <1>0, <1>1
<1>12. c \in used
  BY <1>1 DEF LifeInv, OwnedInv
<1> QED
  BY <1>0, <1>1, <1>3, <1>8, <1>9, <1>10, <1>11, <1>12, FolderWrites

LEMMA CopyFileInv ==
  ASSUME LifeInv, NEW a \in LAdmin, CopyFile(a)
  PROVE  LifeInv'
<1> DEFINE c == doing[a].id
           from == FolderOf(doing[a].source)
<1>1. Underway(a) /\ HeadOf(a) = "files" /\ doing[a].do \in Making /\ Keeps
  BY DEF CopyFile, AtCall, HeadOf, Making
<1>2. PICK path \in NextPaths(doing[a]) :
        IF path \notin DOMAIN from \/ c \notin DOMAIN sysvol \/ Front(path) \notin DOMAIN sysvol[c]
        THEN LifeRefuses(a, "failed")
        ELSE /\ sysvol' = [sysvol EXCEPT ![c] = Arrived(doing[a], @, path, from[path])]
             /\ Continues(a, [doing[a] EXCEPT !.left = @ \ {path}])
             /\ UNCHANGED <<gpcs, faults>>
  BY DEF CopyFile
<1>3. CASE LifeRefuses(a, "failed")
  BY <1>1, <1>3, RefusesAt DEF CreatingSteps
<1>4. CASE ~LifeRefuses(a, "failed")
  <2>1. /\ path \in DOMAIN from /\ c \in DOMAIN sysvol /\ Front(path) \in DOMAIN sysvol[c]
        /\ sysvol' = [sysvol EXCEPT ![c] = Arrived(doing[a], @, path, from[path])]
        /\ Continues(a, [doing[a] EXCEPT !.left = @ \ {path}])
        /\ UNCHANGED <<gpcs, faults>>
    BY <1>2, <1>4
  <2>2. PICK entry, op, f : entry = from[path] /\ op = doing[a] /\ f = sysvol[c]
    OBVIOUS
  <2> DEFINE g == Arrived(op, f, path, entry)
  <2>3. DOMAIN sysvol' = DOMAIN sysvol /\ sysvol'[c] = g /\ \A id \in DOMAIN sysvol \ {c} : sysvol'[id] = sysvol[id]
    BY <2>1, <2>2
  <2>4. FolderOk(f) /\ AclOf(f) = "derived"
    BY <1>1, <2>2, FilesAt
  <2>5. entry.directory = TRUE \/ IsPath(path)
    <3>1. FolderOk(from)
      <4>1. doing[a].source \in DOMAIN sysvol
        BY <2>1 DEF FolderOf
      <4> QED
        BY <4>1 DEF FolderOf, LifeInv, FoldersInv
    <3> HIDE DEF from
    <3> QED
      BY <2>1, <2>2, <3>1 DEF FolderOk
  <2>6. FolderOk(g) /\ AclOf(g) = "derived"
    <3>1. Front(path) \in DOMAIN f
      BY <2>1, <2>2
    <3>2. CASE entry.directory /\ path \in DOMAIN f
      BY <2>4, <3>2 DEF Arrived
    <3>3. CASE entry.directory /\ path \notin DOMAIN f
      <4>1. PICK directory, data : directory = TRUE /\ data = 0
        OBVIOUS
      <4>2. g = Made(f, path, directory, data)
        BY <3>3, <4>1 DEF Arrived
      <4>3. directory = TRUE \/ IsPath(path)
        BY <4>1
      <4> HIDE DEF g
      <4>4. Extended(Made(f, path, directory, data), f, {path})
        BY <2>4, <3>1, <3>3, <4>3, MadeOk
      <4> QED
        BY <2>4, <4>2, <4>4 DEF Extended
    <3>4. CASE ~entry.directory
      <4>1. PICK data : data = entry.data
        OBVIOUS
      <4>2. g = WrittenFile(f, path, data)
        BY <3>4, <4>1 DEF Arrived
      <4>3. path \in DOMAIN f \/ (Front(path) \in DOMAIN f /\ IsPath(path))
        BY <2>5, <3>1, <3>4
      <4> HIDE DEF g
      <4>4. Extended(WrittenFile(f, path, data), f, {path})
        BY <2>4, <4>3, WrittenOk
      <4> QED
        BY <2>4, <4>2, <4>4 DEF Extended
    <3> QED
      BY <3>2, <3>3, <3>4
  <2> HIDE DEF g
  <2> QED
    BY <1>1, <2>1, <2>3, <2>6, FileTaken
<1> QED
  BY <1>3, <1>4

LEMMA UnpackFileInv ==
  ASSUME LifeInv, NEW a \in LAdmin, UnpackFile(a)
  PROVE  LifeInv'
<1> DEFINE c == doing[a].id
<1>1. Underway(a) /\ HeadOf(a) = "files" /\ doing[a].do = "restore" /\ doing[a].do \in Making /\ Keeps
  BY DEF UnpackFile, AtCall, HeadOf, Making
<1>2. c \in DOMAIN sysvol /\ FolderOk(sysvol[c]) /\ AclOf(sysvol[c]) = "derived" /\ PathsOk(doing[a])
  BY <1>1, FilesAt, OwnCourse
<1>3. PICK path, data :
        /\ path \in doing[a].left
        /\ \/ /\ UNCHANGED sysvol
              /\ Continues(a, [doing[a] EXCEPT !.left = @ \ {path}])
           \/ UNCHANGED sysvol /\ Continues(a, Failed(doing[a], "failed"))
           \/ /\ sysvol' = Put(sysvol, c, WrittenFile(FilledUp(sysvol[c], WithParents(sysvol[c], path)), path, data))
              /\ Continues(a, [doing[a] EXCEPT !.left = @ \ {path}])
        /\ UNCHANGED <<gpcs, faults>>
  <2>1. FolderOrNew(c) = sysvol[c]
    BY <1>2 DEF FolderOrNew
  <2> QED
    BY <1>2, <2>1 DEF UnpackFile
<1>4. CASE UNCHANGED sysvol /\ Continues(a, [doing[a] EXCEPT !.left = @ \ {path}])
  <2>1. PICK g : g = sysvol[c]
    OBVIOUS
  <2>2. /\ FolderOk(g) /\ AclOf(g) = "derived" /\ DOMAIN sysvol' = DOMAIN sysvol /\ sysvol'[c] = g
        /\ \A id \in DOMAIN sysvol \ {c} : sysvol'[id] = sysvol[id]
    BY <1>2, <1>4, <2>1
  <2> QED
    BY <1>1, <1>3, <1>4, <2>2, FileTaken
<1>5. CASE UNCHANGED sysvol /\ Continues(a, Failed(doing[a], "failed"))
  <2>1. LifeRefuses(a, "failed")
    BY <1>3, <1>5 DEF LifeRefuses
  <2> QED
    BY <1>1, <2>1, RefusesAt DEF CreatingSteps
<1>6. CASE /\ sysvol' = Put(sysvol, c, WrittenFile(FilledUp(sysvol[c], WithParents(sysvol[c], path)), path, data))
           /\ Continues(a, [doing[a] EXCEPT !.left = @ \ {path}])
  <2>1. PICK f : f = sysvol[c]
    OBVIOUS
  <2> DEFINE h == FilledUp(f, WithParents(f, path))
             g == WrittenFile(h, path, data)
  <2>2. DOMAIN sysvol' = DOMAIN sysvol /\ sysvol'[c] = g /\ \A id \in DOMAIN sysvol \ {c} : sysvol'[id] = sysvol[id]
    <3>1. sysvol' = Put(sysvol, c, g)
      BY <1>6, <2>1
    <3> HIDE DEF g
    <3> QED
      BY <1>2, <3>1 DEF Put
  <2>3. FolderOk(f) /\ AclOf(f) = "derived"
    BY <1>2, <2>1
  <2>4. Extended(h, f, Parents(path))
    BY <2>3, FilledOk
  <2>5. IsPath(path)
    BY <1>1, <1>2, <1>3 DEF PathsOk, ArchiveOk
  <2> HIDE DEF h
  <2>6. FolderOk(h) /\ AclOf(h) = "derived" /\ Front(path) \in DOMAIN h
    BY <2>3, <2>4, <2>5 DEF Extended, IsPath, FolderOk
  <2>7. Extended(g, h, {path})
    BY <2>5, <2>6, WrittenOk
  <2> HIDE DEF g
  <2>8. FolderOk(g) /\ AclOf(g) = "derived"
    BY <2>6, <2>7 DEF Extended
  <2> QED
    BY <1>1, <1>3, <1>6, <2>2, <2>8, FileTaken
<1> QED
  BY <1>3, <1>4, <1>5, <1>6

LEMMA WriteVersionInv ==
  ASSUME LifeInv, Calm, NEW a \in LAdmin, WriteVersion(a)
  PROVE  LifeInv'
<1>1. CASE WriteIni(a, "version", doing[a].of.version)
  BY <1>1, WriteIniInv
<1>2. CASE AtCall(a, "version") /\ Looks(a, doing[a]) /\ Keeps
  <2>1. Underway(a) /\ HeadOf(a) = "version"
    BY <1>2 DEF AtCall, HeadOf
  <2> QED
    BY <1>2, <2>1, LooksAt
<1> QED
  BY <1>1, <1>2 DEF WriteVersion

\* A backup takes a file, whose name is a path.
LEMMA PackFileInv ==
  ASSUME LifeInv, NEW a \in LAdmin, PackFile(a)
  PROVE  LifeInv'
<1> DEFINE from == FolderOf(doing[a].source)
           op == doing[a]
<1>1. Underway(a) /\ HeadOf(a) = "files" /\ doing[a].do = "backup" /\ Keeps
  BY DEF PackFile, AtCall, HeadOf
<1>2. OtherNow(a) /\ DOMAIN op = OpFields /\ op.do \notin Making
  BY <1>1, WhoIs DEF Making
<1>3. ArchiveOk(op.archive)
  BY <1>1, <1>2 DEF OtherNow, OtherShape
<1>4. CASE \E why \in {"failed", "refused"} : LifeRefuses(a, why)
  BY <1>1, <1>4, RefusesAt DEF CreatingSteps
<1>5. ASSUME NEW q, SameCourse(op, q), ArchiveOk(q.archive), Continues(a, q), UNCHANGED <<gpcs, sysvol, faults>>
      PROVE  LifeInv'
  <2>1. doing' = [doing EXCEPT ![a] = q]
    BY <1>5 DEF Continues
  <2>2. doing'[a] = q
    BY <2>1 DEF LifeInv, ShapesInv
  <2> DEFINE whole == Original(op.id)
  <2>3. OtherShape(q, whole)
    <3>1. OtherShape(op, whole)
      BY <1>2 DEF OtherNow
    <3> HIDE DEF whole, op
    <3> QED
      BY <1>5, <3>1 DEF OtherShape, SameCourse, DeleterShape, ReaderShape
  <2>4. q.do = op.do /\ q.id = op.id
    BY <1>5 DEF SameCourse
  <2>5. Shape(a)'
    <3>1. Original(doing[a].id)' = whole
      BY <1>5, <2>2, <2>4 DEF Original
    <3> HIDE DEF whole
    <3> QED
      BY <2>2, <2>3, <3>1 DEF Shape
  <2>6. BackupsInv' /\ used' = used /\ faults' \in 0..MaxFaults /\ faults' >= faults
    BY <1>1, <1>5, LifeConstants DEF Keeps, LifeInv, OwnedInv, BackupsInv
  <2>7. \A id \in DOMAIN sysvol : ~Bare(a, id)
    BY <1>2 DEF Bare
  <2> QED
    BY <1>1, <1>5, <2>1, <2>4, <2>5, <2>6, <2>7, Staying
<1>6. PICK path \in NextPaths(op) :
        \/ \E why \in {"failed", "refused"} : LifeRefuses(a, why)
        \/ Continues(a, [op EXCEPT !.left = @ \ {path}]) /\ UNCHANGED <<gpcs, sysvol, faults>>
        \/ /\ path \in DOMAIN from /\ ~from[path].directory
           /\ Continues(a, [op EXCEPT !.left = @ \ {path}, !.archive.files = Put(@, path, from[path].data)])
           /\ UNCHANGED <<gpcs, sysvol, faults>>
  BY DEF PackFile
<1>7. CASE Continues(a, [op EXCEPT !.left = @ \ {path}]) /\ UNCHANGED <<gpcs, sysvol, faults>>
  <2> DEFINE q == [op EXCEPT !.left = @ \ {path}]
  <2>1. SameCourse(op, q) /\ q.archive = op.archive
    BY <1>2 DEF SameCourse, OpFields
  <2>2. Continues(a, q)
    BY <1>7
  <2> HIDE DEF q
  <2>3. ArchiveOk(q.archive)
    BY <1>3, <2>1
  <2> QED
    BY <1>5, <1>7, <2>1, <2>2, <2>3
<1>8. CASE /\ path \in DOMAIN from /\ ~from[path].directory
           /\ Continues(a, [op EXCEPT !.left = @ \ {path}, !.archive.files = Put(@, path, from[path].data)])
           /\ UNCHANGED <<gpcs, sysvol, faults>>
  <2>1. PICK data : data = from[path].data
    OBVIOUS
  <2> DEFINE q == [op EXCEPT !.left = @ \ {path}, !.archive.files = Put(@, path, data)]
             b == [op.archive EXCEPT !.files = Put(@, path, data)]
  <2>2. Continues(a, q)
    BY <1>8, <2>1
  <2>3. SameCourse(op, q) /\ q.archive = b
    BY <1>2 DEF SameCourse, OpFields
  <2>4. IsPath(path)
    <3>1. doing[a].source \in DOMAIN sysvol
      BY <1>8 DEF FolderOf
    <3>2. FolderOk(from)
      BY <3>1 DEF FolderOf, LifeInv, FoldersInv
    <3> HIDE DEF from
    <3> QED
      BY <1>8, <3>2 DEF FolderOk
  <2>5. ArchiveOk(b)
    <3>1. "files" \in DOMAIN b /\ b.files = Put(op.archive.files, path, data)
      BY <1>3 DEF ArchiveOk
    <3> HIDE DEF b
    <3>2. DOMAIN b.files = DOMAIN op.archive.files \cup {path}
      BY <3>1 DEF Put
    <3> QED
      BY <1>3, <2>4, <3>1, <3>2 DEF ArchiveOk
  <2> HIDE DEF q, b
  <2> QED
    BY <1>5, <1>8, <2>2, <2>3, <2>5
<1> QED
  BY <1>4, <1>6, <1>7, <1>8

---------------------------------------------------------------------------
(* Steps that make or remove an object or a folder, and beginning.         *)

\* A creation is at one of its steps.
LEMMA CreatingStep ==
  ASSUME LifeInv, NEW a \in LAdmin, Underway(a), HeadOf(a) \in CreatingSteps
  PROVE  \E k \in 3..9 :
           /\ doing[a].todo = From(doing[a].do, Lead(doing[a].do) + k) /\ HeadOf(a) = Create[k]
           /\ doing[a].undo = "create" /\ doing[a].why = "none"
<1> DEFINE op == doing[a]
           object == op.id \in DOMAIN gpcs
           folder == op.id \in DOMAIN sysvol
           paths == DOMAIN FolderOf(op.id)
<1>1. MakerNow(a) /\ op.do \in Making
  BY WhoIs, OtherAt DEF CreatingSteps
<1>2. Creating(op, object, folder, paths)
  BY <1>1, MakerAt DEF CreatingNow, CreatingSteps, PathsOf
<1> HIDE DEF op, object, folder, paths
<1>3. PICK j \in Lead(op.do) + 3..Lead(op.do) + 9 : op.todo = From(op.do, j)
  BY <1>2 DEF Creating
<1>4. Lead(op.do) \in {0, 1}
  BY <1>1, PlanIs
<1>5. PICK k \in 3..9 : j = Lead(op.do) + k
  <2>1. j - Lead(op.do) \in 3..9 /\ j = Lead(op.do) + (j - Lead(op.do))
    BY <1>4
  <2> QED
    BY <2>1
<1>6. Head(op.todo) = Create[k]
  BY <1>1, <1>3, <1>5, CreatingHead
<1>7. op.undo = "create" /\ op.why = "none"
  BY <1>2 DEF Creating
<1> QED
  BY <1>3, <1>5, <1>6, <1>7 DEF op, HeadOf

LEMMA AddObjectInv ==
  ASSUME LifeInv, Calm, NEW a \in LAdmin, AddObject(a)
  PROVE  LifeInv'
<1>1. Underway(a) /\ HeadOf(a) = "object"
  BY DEF AddObject, AtCall, HeadOf
<1>0. PICK id \in Guid \ used :
        /\ used' = used \cup {id}
        /\ Carries(a, [doing[a] EXCEPT !.id = id, !.undo = "create"],
                   Put(gpcs, id, [name |-> doing[a].name, version |-> 0, off |-> {}, exts |-> {}]), sysvol)
        /\ UNCHANGED <<backups, lifeOps>>
  BY DEF AddObject
<1> DEFINE new == [name |-> doing[a].name, version |-> 0, off |-> {}, exts |-> {}]
<1>2a. PICK gs : gs = Put(gpcs, id, new)
  OBVIOUS
<1>2. /\ used' = used \cup {id} /\ DOMAIN gs = DOMAIN gpcs \cup {id}
      /\ Carries(a, [doing[a] EXCEPT !.id = id, !.undo = "create"], gs, sysvol)
      /\ UNCHANGED <<backups, lifeOps>>
  <2>1. DOMAIN gs = DOMAIN gpcs \cup {id}
    <3> HIDE DEF new
    <3> QED
      BY <1>2a DEF Put
  <2> QED
    BY <1>0, <1>2a, <2>1
<1> HIDE DEF new
<1>3. PICK op : op = doing[a]
  OBVIOUS
<1> DEFINE q == [op EXCEPT !.id = id, !.undo = "create"]
           x == Next1(q)
<1>4. gpcs' = gs /\ sysvol' = sysvol /\ Continues(a, x) /\ faults' = faults
  <2>1. Carries(a, q, gs, sysvol)
    BY <1>2, <1>3
  <2> HIDE DEF q
  <2> QED
    BY <2>1, CarriedOut
<1>5. MakerNow(a) /\ op.do \in Making /\ Before(op) /\ DOMAIN op = OpFields /\ PathsOk(op)
  BY <1>1, <1>3, WhoIs, MakerAt, OtherAt, OwnCourse
<1>6. Len(op.todo) > 1 /\ Tail(op.todo) = From(op.do, Lead(op.do) + 3)
  BY <1>1, <1>3, <1>5, BeforeHead DEF HeadOf
<1>7. /\ DOMAIN q = OpFields /\ q.todo = op.todo /\ q.do = op.do /\ q.id = id /\ q.undo = "create"
      /\ q.why = "none" /\ q.folder = FALSE /\ q.left = op.left /\ q.archive = op.archive
  BY <1>5 DEF Before, OpFields
<1> HIDE DEF q
<1>8. /\ DOMAIN x = OpFields /\ x.todo = From(op.do, Lead(op.do) + 3) /\ x.do = op.do /\ x.id = id
      /\ x.undo = "create" /\ x.why = "none" /\ x.folder = FALSE
      /\ x.left = op.left /\ x.archive = op.archive
  BY <1>6, <1>7, Next1Is
<1> HIDE DEF x
<1>9. id \notin DOMAIN gpcs /\ id \notin DOMAIN sysvol /\ id \in Guid /\ id # "none" /\ id \notin used
  BY LifeStart DEF LifeInv, OwnedInv
<1> DEFINE paths == DOMAIN <<>>
           last == faults = MaxFaults
<1>10. Creating(x, TRUE, FALSE, paths)
  <2> DEFINE l == Lead(op.do)
  <2>1. l \in {0, 1}
    BY <1>5, PlanIs
  <2>2. x.todo = From(x.do, l + 3) /\ l = Lead(x.do)
    BY <1>8
  <2> HIDE DEF paths, l
  <2>3. /\ l + 3 \in l + 3..l + 9 /\ FALSE = (l + 3 > l + 4) /\ l + 3 \notin {l + 5, l + 6, l + 7}
    BY <2>1
  <2> QED
    BY <1>8, <2>2, <2>3 DEF Creating
<1>11. MakerShape(x, TRUE, FALSE, paths, last)
  <2> HIDE DEF paths, last
  <2> QED
    BY <1>5, <1>8, <1>10 DEF MakerShape, PathsOk
<1>12. doing' = [doing EXCEPT ![a] = x] /\ doing'[a] = x
  BY <1>4 DEF Continues, LifeInv, ShapesInv
<1>13. Shape(a)'
  <2>1. (doing'[a].id \in DOMAIN gpcs') = TRUE /\ (doing'[a].id \in DOMAIN sysvol') = FALSE
    BY <1>2, <1>4, <1>8, <1>9, <1>12
  <2>2. DOMAIN FolderOf(doing[a].id)' = paths
    BY <2>1 DEF FolderOf
  <2>3. (faults' = MaxFaults) = last
    BY <1>4
  <2> HIDE DEF paths, last
  <2> QED
    BY <1>11, <1>12, <2>1, <2>2, <2>3 DEF Shape
<1>14. Spares(a)
  <2>1. \A b \in LAdmin \ {a} : doing[b].do \in Making /\ doing[b].id # "none" => doing[b].id # id
    BY <1>9, MakersOwn
  <2>2. \A b \in LAdmin \ {a} : doing'[b] = doing[b]
    BY <1>12
  <2> QED
    BY <1>2, <1>4, <2>1, <2>2 DEF Spares, Same, Original
<1>15. OwnedInv' /\ BackupsInv' /\ faults' >= faults /\ used \subseteq used'
  BY <1>2, <1>4, LifeConstants DEF LifeInv, OwnedInv, BackupsInv
<1>16. x.do \in Acting => x.id \in used'
  BY <1>2, <1>8
<1>17. \A b \in LAdmin \ {a} :
        /\ doing[b].do \in Making /\ doing[b].id # "none" /\ x.do \in Making \cup Acting =>
             x.id # doing[b].id
        /\ x.do \in Making /\ x.id # "none" /\ doing[b].do \in Making \cup Acting =>
             doing[b].id # x.id
  <2> SUFFICES ASSUME NEW b \in LAdmin \ {a}, doing[b].do \in Making \cup Acting PROVE doing[b].id # id
    BY <1>8
  <2>1. CASE doing[b].do \in Acting
    BY <1>9, <2>1 DEF LifeInv, AloneInv
  <2>2. CASE doing[b].do \in Making
    BY <1>9, <2>2, MakersOwn
  <2> QED
    BY <2>1, <2>2
<1>18. ASSUME NEW i \in DOMAIN sysvol'
       PROVE  i \in DOMAIN sysvol /\ sysvol'[i] = sysvol[i] /\ ~Bare(a, i)
  BY <1>1, <1>4 DEF Bare, HeadOf
<1>19. x.do \in Making => (doing[a].do \in Making /\ x.id = doing[a].id) \/ x.id \notin DOMAIN sysvol
  BY <1>8, <1>9
<1> QED
  BY <1>12, <1>13, <1>14, <1>15, <1>16, <1>17, <1>18, <1>19, Keeping

LEMMA MakeFolderInv ==
  ASSUME LifeInv, Calm, NEW a \in LAdmin, MakeFolder(a)
  PROVE  LifeInv'
<1>1. Underway(a) /\ HeadOf(a) = "folder" /\ Keeps
  BY DEF MakeFolder, AtCall, HeadOf
<1>2. PICK op, c, g, fs : /\ op = doing[a] /\ c = doing[a].id /\ g = NewFolder /\ fs = Put(sysvol, c, g)
  OBVIOUS
<1> DEFINE q == [op EXCEPT !.folder = TRUE]
           x == Next1(q)
<1>3. gpcs' = gpcs /\ sysvol' = fs /\ Continues(a, x) /\ faults' = faults
  <2>1. Carries(a, q, gpcs, fs)
    BY <1>2 DEF MakeFolder
  <2> HIDE DEF q
  <2> QED
    BY <2>1, CarriedOut
<1>4. /\ op.do \in Making /\ c \in DOMAIN gpcs /\ DOMAIN op = OpFields /\ PathsOk(op) /\ op.id = c
  BY <1>1, <1>2, CreatingIs, WhoIs, OwnCourse DEF CreatingSteps
<1>5. PICK k \in 3..9 :
        /\ op.todo = From(op.do, Lead(op.do) + k) /\ HeadOf(a) = Create[k]
        /\ op.undo = "create" /\ op.why = "none"
  BY <1>1, <1>2, CreatingStep DEF CreatingSteps
<1>6. k = 4
  <2>1. k \in {3, 4, 5, 6, 7, 8, 9}
    OBVIOUS
  <2> QED
    BY <1>1, <1>5, <2>1, CreateIs
<1>7. Len(op.todo) > 1 /\ Tail(op.todo) = From(op.do, Lead(op.do) + 5)
  <2> DEFINE l == Lead(op.do)
  <2>1. l \in {0, 1}
    BY <1>4, PlanIs
  <2>2. l + 4 + 1 = l + 5
    BY <2>1
  <2>3. Len(op.todo) > 1 /\ Tail(op.todo) = From(op.do, l + 4 + 1)
    <3>1. /\ Len(op.todo) > 1 <=> op.do # "create" \/ k < 9
          /\ Len(op.todo) > 1 => Tail(op.todo) = From(op.do, l + k + 1)
      BY <1>4, <1>5, CreatingHead
    <3> QED
      BY <1>6, <3>1
  <2> QED
    BY <2>2, <2>3
<1>8. /\ DOMAIN q = OpFields /\ q.todo = op.todo /\ q.do = op.do /\ q.id = c /\ q.undo = "create"
      /\ q.why = "none" /\ q.folder = TRUE /\ q.left = op.left /\ q.archive = op.archive
  BY <1>4, <1>5 DEF OpFields
<1> HIDE DEF q
<1>9. /\ DOMAIN x = OpFields /\ x.todo = From(op.do, Lead(op.do) + 5) /\ x.do = op.do /\ x.id = c
      /\ x.undo = "create" /\ x.why = "none" /\ x.folder = TRUE
      /\ x.left = op.left /\ x.archive = op.archive
  BY <1>7, <1>8, Next1Is
<1> HIDE DEF x
<1> DEFINE last == faults = MaxFaults
<1>10. Head(x.todo) = "stamp" /\ x.todo # <<>>
  <2>1. x.todo = From(x.do, Lead(x.do) + 5) /\ x.do \in Making /\ 5 \in 3..9
    BY <1>4, <1>9
  <2>2. Head(x.todo) = Create[5] /\ x.todo # <<>>
    BY <2>1, CreatingHead
  <2> QED
    BY <2>2, CreateIs
<1>11. DOMAIN g = {Top} /\ FolderOk(g)
  BY <1>2 DEF NewFolder, FolderOk, AclOf, EntryFields
<1>12. Creating(x, TRUE, TRUE, {Top})
  <2> DEFINE l == Lead(op.do)
  <2>1. l \in {0, 1}
    BY <1>4, PlanIs
  <2>2. x.todo = From(x.do, l + 5) /\ l = Lead(x.do)
    BY <1>9
  <2> HIDE DEF l
  <2>3. /\ l + 5 \in l + 3..l + 9 /\ TRUE = (l + 5 > l + 4) /\ l + 5 # l + 7
    BY <2>1
  <2> QED
    BY <1>9, <2>2, <2>3 DEF Creating
<1>13. MakerShape(x, TRUE, TRUE, {Top}, last)
  <2> HIDE DEF last
  <2> QED
    BY <1>4, <1>9, <1>12 DEF MakerShape, PathsOk
<1>14. doing'[a] = x
  BY <1>3 DEF Continues, LifeInv, ShapesInv
<1>15. /\ DOMAIN sysvol' = DOMAIN sysvol \cup {c} /\ sysvol'[c] = g
       /\ \A id \in DOMAIN sysvol \ {c} : sysvol'[id] = sysvol[id]
  BY <1>2, <1>3 DEF Put
<1>16. Shape(a)'
  <2>1. x.id \in DOMAIN gpcs' /\ x.id \in DOMAIN sysvol' /\ DOMAIN sysvol'[x.id] = {Top}
    BY <1>3, <1>4, <1>9, <1>11, <1>15
  <2> QED
    BY <1>3, <1>13, <1>14, <2>1 DEF Shape, FolderOf
<1>17. Bare(a, c)'
  BY <1>4, <1>9, <1>10, <1>14 DEF Bare
<1>18. x.do = doing[a].do /\ x.id = c /\ c \in used
  BY <1>2, <1>4, <1>9 DEF LifeInv, OwnedInv
<1> QED
  BY <1>1, <1>2, <1>3, <1>4, <1>11, <1>15, <1>16, <1>17, <1>18, FolderWrites

LEMMA ReadBackInv ==
  ASSUME LifeInv, NEW a \in LAdmin, ReadBack(a)
  PROVE  LifeInv'
<1>1. Underway(a) /\ HeadOf(a) = "made" /\ Keeps
  BY DEF ReadBack, AtCall, HeadOf
<1>2. PICK op, c : op = doing[a] /\ c = doing[a].id
  OBVIOUS
<1> DEFINE q == [op EXCEPT !.undo = IF op.do = "create" THEN "none" ELSE "delete"]
           x == Next1(q)
           paths == DOMAIN FolderOf(c)
           last == faults = MaxFaults
<1>3. op.do \in Making /\ c \in DOMAIN gpcs /\ c \in DOMAIN sysvol /\ DOMAIN op = OpFields /\ PathsOk(op) /\ op.id = c
  BY <1>1, <1>2, CreatingIs, WhoIs, OwnCourse DEF CreatingSteps
<1>4. UNCHANGED <<gpcs, sysvol, faults>> /\ Continues(a, x)
  BY <1>2, <1>3 DEF ReadBack, Looks
<1>5. PICK k \in 3..9 :
        /\ op.todo = From(op.do, Lead(op.do) + k) /\ HeadOf(a) = Create[k] /\ op.why = "none"
  BY <1>1, <1>2, CreatingStep DEF CreatingSteps
<1>6. k = 9
  <2>1. k \in {3, 4, 5, 6, 7, 8, 9}
    OBVIOUS
  <2> QED
    BY <1>1, <1>5, <2>1, CreateIs
<1>7. /\ Len(op.todo) > 1 <=> op.do # "create"
      /\ Len(op.todo) > 1 =>
           Tail(op.todo) = From(op.do, Lead(op.do) + 9 + 1) /\ Lead(op.do) + 10 <= Len(LifePlan(op.do))
  <2>1. /\ Len(op.todo) > 1 <=> op.do # "create" \/ k < 9
        /\ Len(op.todo) > 1 => Tail(op.todo) = From(op.do, Lead(op.do) + k + 1)
        /\ k = 9 /\ Len(op.todo) > 1 => Lead(op.do) + 10 <= Len(LifePlan(op.do))
    BY <1>3, <1>5, CreatingHead
  <2> QED
    BY <1>6, <2>1
<1>8. /\ DOMAIN q = OpFields /\ q.todo = op.todo /\ q.do = op.do /\ q.id = c
      /\ q.undo = (IF op.do = "create" THEN "none" ELSE "delete")
      /\ q.why = "none" /\ q.left = op.left /\ q.archive = op.archive
  BY <1>3, <1>5 DEF OpFields
<1> HIDE DEF q
<1>9. IdleShape(x) \/ (MakerShape(x, TRUE, TRUE, paths, last) /\ x.do = op.do /\ x.id = c)
  <2>1. CASE ~(Len(op.todo) > 1)
    BY <1>8, <2>1, Next1Is
  <2>2. CASE Len(op.todo) > 1
    <3>1. /\ DOMAIN x = OpFields /\ x.todo = Tail(op.todo) /\ x.do = op.do /\ x.id = c /\ x.undo = "delete"
          /\ x.why = "none" /\ x.left = op.left /\ x.archive = op.archive
      BY <1>7, <1>8, <2>2, Next1Is
    <3> HIDE DEF x, paths, last
    <3>2. Filling(x, TRUE, TRUE)
      <4> DEFINE l == Lead(op.do)
                 n == Len(LifePlan(op.do))
      <4>1. l \in {0, 1} /\ n \in Nat
        BY <1>3, PlanIs
      <4>2. l + 9 + 1 = l + 10 /\ l + 10 <= n
        BY <1>7, <2>2, <4>1
      <4>3. x.todo = From(op.do, l + 10)
        BY <1>7, <2>2, <3>1, <4>2
      <4> HIDE DEF l, n
      <4>4. l + 10 \in l + 10..n
        BY <4>1, <4>2
      <4> QED
        BY <3>1, <4>3, <4>4 DEF Filling, l, n
    <3> QED
      BY <1>3, <3>1, <3>2 DEF MakerShape, PathsOk
  <2> QED
    BY <2>1, <2>2
<1> HIDE DEF x
<1>10. doing' = [doing EXCEPT ![a] = x] /\ doing'[a] = x
  BY <1>4 DEF Continues, LifeInv, ShapesInv
<1>11. Shape(a)'
  BY <1>3, <1>4, <1>9, <1>10 DEF Shape, FolderOf
<1>12. \A id \in DOMAIN sysvol : ~Bare(a, id)
  BY <1>1 DEF Bare, HeadOf
<1>13. UNCHANGED <<sysvol, used>> /\ DOMAIN gpcs' = DOMAIN gpcs /\ faults' \in 0..MaxFaults /\ faults' >= faults /\ BackupsInv'
  BY <1>1, <1>4, LifeConstants DEF Keeps, LifeInv, OwnedInv, BackupsInv
<1>14. IdleShape(x) \/ (x.do = doing[a].do /\ x.id = doing[a].id)
  BY <1>2, <1>9
<1> QED
  BY <1>1, <1>10, <1>11, <1>12, <1>13, <1>14, Staying

LEMMA RemoveTreeInv ==
  ASSUME LifeInv, Calm, NEW a \in LAdmin, RemoveTree(a)
  PROVE  LifeInv'
<1>1. Underway(a) /\ HeadOf(a) \in {"tree", "untree"} /\ Keeps
  BY DEF RemoveTree, AtCall, HeadOf
<1>2. PICK op, c : op = doing[a] /\ c = doing[a].id
  OBVIOUS
<1> DEFINE x == Next1(op)
           object == c \in DOMAIN gpcs
           folder == c \in DOMAIN sysvol
           last == faults = MaxFaults
<1>3. /\ DOMAIN sysvol' = DOMAIN sysvol \ {c} /\ \A id \in DOMAIN sysvol' : sysvol'[id] = sysvol[id]
      /\ gpcs' = gpcs /\ faults' = faults /\ Continues(a, x)
  <2>1. CASE c \in DOMAIN sysvol
    <3>1. PICK fs : fs = Drop(sysvol, c)
      OBVIOUS
    <3>2. Carries(a, op, gpcs, fs)
      BY <1>2, <2>1, <3>1 DEF RemoveTree
    <3>3. gpcs' = gpcs /\ sysvol' = fs /\ Continues(a, x) /\ faults' = faults
      BY <3>2, CarriedOut
    <3> QED
      BY <3>1, <3>3 DEF Drop
  <2>2. CASE c \notin DOMAIN sysvol
    BY <1>2, <2>2 DEF RemoveTree, Looks
  <2> QED
    BY <2>1, <2>2
<1>4. DOMAIN op = OpFields /\ SameCourse(op, op) /\ (op.do \in Making => PathsOk(op)) /\ op.id = c
  BY <1>1, <1>2, WhoIs, OwnCourse
<1>5. op.do \in Making \cup Acting
  BY <1>1, <1>2, WhoIs, OtherAt DEF DeleterShape, Acting
<1>6. /\ IdleShape(x) \/ MakerShape(x, object, FALSE, DOMAIN <<>>, last) \/ OtherShape(x, FALSE)
      /\ IdleShape(x) \/ (x.do = op.do /\ x.id = op.id)
  <2>1. CASE ~(Len(op.todo) > 1)
    BY <1>4, <2>1, Next1Is
  <2>2. CASE Len(op.todo) > 1
    <3>1. /\ DOMAIN x = OpFields /\ x.todo = Tail(op.todo) /\ x.do = op.do /\ x.id = op.id
          /\ x.undo = op.undo /\ x.why = op.why /\ x.left = op.left /\ x.archive = op.archive
      BY <1>4, <2>2, Next1Is
    <3> HIDE DEF x
    <3>2. CASE op.do \in Making /\ MakerNow(a)
      <4>1. /\ Head(op.todo) = "untree" => RollingBack(op, object, folder, last)
            /\ Head(op.todo) = "tree" => TakingBack(op, object, folder)
        BY <1>2, <3>2, MakerAt DEF HeadOf
      <4> HIDE DEF object, folder, last
      <4>2. CASE Head(op.todo) = "untree"
        <5>1. op.todo = <<"untree", "unobject">>
          BY <4>1, <4>2 DEF RollingBack
        <5>2. x.todo = <<"unobject">>
          BY <3>1, <5>1
        <5>3. RollingBack(x, object, FALSE, last)
          BY <3>1, <4>1, <4>2, <5>2 DEF RollingBack
        <5>4. PathsOk(x)
          BY <1>4, <3>1, <3>2 DEF PathsOk
        <5>5. MakerShape(x, object, FALSE, DOMAIN <<>>, last)
          BY <3>1, <3>2, <5>3, <5>4 DEF MakerShape, PathsOk
        <5> QED
          BY <3>1, <5>5
      <4>3. CASE Head(op.todo) = "tree"
        <5>1. op.todo = <<"tree", "gone">>
          BY <4>1, <4>3 DEF TakingBack
        <5>2. x.todo = <<"gone">>
          BY <3>1, <5>1
        <5>3. TakingBack(x, object, FALSE)
          BY <3>1, <4>1, <4>3, <5>2 DEF TakingBack
        <5>4. PathsOk(x)
          BY <1>4, <3>1, <3>2 DEF PathsOk
        <5>5. MakerShape(x, object, FALSE, DOMAIN <<>>, last)
          BY <3>1, <3>2, <5>3, <5>4 DEF MakerShape, PathsOk
        <5> QED
          BY <3>1, <5>5
      <4> QED
        BY <1>1, <1>2, <4>2, <4>3 DEF HeadOf
    <3>3. CASE op.do \notin Making /\ OtherNow(a)
      <4>1. DeleterShape(op, Original(c)) /\ Head(op.todo) = "tree"
        BY <1>1, <1>2, <3>3, OtherAt DEF HeadOf
      <4>2. op.todo = <<"tree", "gone">>
        BY <4>1 DEF DeleterShape
      <4>3. x.todo = <<"gone">>
        BY <3>1, <4>2
      <4>4. OtherShape(x, FALSE)
        BY <3>1, <4>1, <4>3 DEF OtherShape, DeleterShape
      <4> QED
        BY <3>1, <4>4
    <3> QED
      BY <1>1, <1>2, <3>2, <3>3, WhoIs
  <2> QED
    BY <2>1, <2>2
<1> HIDE DEF x
<1>7. doing' = [doing EXCEPT ![a] = x] /\ doing'[a] = x
  BY <1>3 DEF Continues, LifeInv, ShapesInv
<1>8. Shape(a)'
  <2>1. CASE IdleShape(x)
    BY <1>7, <2>1 DEF Shape
  <2>2. CASE ~IdleShape(x)
    <3>1. x.id = c
      BY <1>4, <1>6, <2>2
    <3>2. (doing'[a].id \in DOMAIN gpcs') = object /\ (doing'[a].id \in DOMAIN sysvol') = FALSE
      BY <1>3, <1>7, <3>1
    <3>3. DOMAIN FolderOf(doing[a].id)' = DOMAIN <<>>
      BY <3>2 DEF FolderOf
    <3>4. (faults' = MaxFaults) = last
      BY <1>3
    <3>6. Original(doing[a].id)' = FALSE
      BY <3>2 DEF Original
    <3> HIDE DEF object, last
    <3>5. MakerShape(doing'[a], object, FALSE, DOMAIN <<>>, last) \/ OtherShape(doing'[a], FALSE)
      BY <1>6, <1>7, <2>2
    <3> QED
      BY <3>2, <3>3, <3>4, <3>5, <3>6 DEF Shape
  <2> QED
    BY <2>1, <2>2
<1>9. Spares(a)
  <2>1. \A b \in LAdmin \ {a} : doing[b].do \in Making /\ doing[b].id # "none" => doing[b].id # c
    BY <1>2, <1>5 DEF LifeInv, AloneInv
  <2>2. \A b \in LAdmin \ {a} : doing'[b] = doing[b]
    BY <1>7
  <2>3. \A id \in DOMAIN sysvol' : id \in DOMAIN sysvol /\ sysvol'[id] = sysvol[id]
    BY <1>3
  <2> QED
    BY <1>3, <2>1, <2>2, <2>3 DEF Spares, Same, Original
<1>10. OwnedInv' /\ BackupsInv' /\ faults' >= faults /\ used \subseteq used' /\ used' = used
  BY <1>1, <1>3, LifeConstants DEF Keeps, LifeInv, OwnedInv, BackupsInv
<1>11. x.do \in Acting => x.id \in used'
  BY <1>2, <1>6, <1>10 DEF LifeInv, AloneInv, IdleShape, Acting
<1>12. \A b \in LAdmin \ {a} :
        /\ doing[b].do \in Making /\ doing[b].id # "none" /\ x.do \in Making \cup Acting =>
             x.id # doing[b].id
        /\ x.do \in Making /\ x.id # "none" /\ doing[b].do \in Making \cup Acting =>
             doing[b].id # x.id
  BY <1>2, <1>6 DEF LifeInv, AloneInv, IdleShape, Making, Acting
<1>13. ASSUME NEW id \in DOMAIN sysvol'
       PROVE  id \in DOMAIN sysvol /\ sysvol'[id] = sysvol[id] /\ ~Bare(a, id)
  BY <1>2, <1>3 DEF Bare
<1>14. x.do \in Making => (doing[a].do \in Making /\ x.id = doing[a].id) \/ x.id \notin DOMAIN sysvol
  BY <1>2, <1>4, <1>6 DEF IdleShape, Making
<1> QED
  BY <1>7, <1>8, <1>9, <1>10, <1>11, <1>12, <1>13, <1>14, Keeping

LEMMA RemoveObjectInv ==
  ASSUME LifeInv, Calm, NEW a \in LAdmin, RemoveObject(a)
  PROVE  LifeInv'
<1>1. Underway(a) /\ HeadOf(a) \in {"gone", "unobject"} /\ Keeps
  BY DEF RemoveObject, AtCall, HeadOf
<1>2. PICK op, c : op = doing[a] /\ c = doing[a].id
  OBVIOUS
<1> DEFINE x == Next1(op)
           object == c \in DOMAIN gpcs
           folder == c \in DOMAIN sysvol
           last == faults = MaxFaults
           whole == Original(c)
<1>3. /\ op.do \in Making \cup Acting /\ ~whole /\ op.todo \in {<<"gone">>, <<"unobject">>}
      /\ ~object => op.undo \notin {"create", "rollback"}
  <2>1. CASE op.do \in Making /\ MakerNow(a)
    <3>1. /\ Head(op.todo) = "unobject" => RollingBack(op, object, folder, last)
          /\ Head(op.todo) = "gone" => TakingBack(op, object, folder)
      BY <1>2, <2>1, MakerAt DEF HeadOf
    <3>2. Head(op.todo) \in {"gone", "unobject"}
      BY <1>1, <1>2 DEF HeadOf
    <3>3. whole => folder
      BY DEF Original
    <3> HIDE DEF object, folder, last, whole
    <3>4. ~folder /\ op.todo \in {<<"gone">>, <<"unobject">>} /\ object
      BY <3>1, <3>2 DEF RollingBack, TakingBack
    <3> QED
      BY <2>1, <3>3, <3>4
  <2>2. CASE op.do \notin Making /\ OtherNow(a)
    <3>1. DeleterShape(op, whole) /\ Head(op.todo) = "gone" /\ op.undo = "none"
      BY <1>1, <1>2, <2>2, OtherAt DEF HeadOf
    <3> HIDE DEF object, folder, last, whole
    <3> QED
      BY <3>1 DEF DeleterShape, Acting
  <2> QED
    BY <1>1, <1>2, <2>1, <2>2, WhoIs
<1>4. CASE c \notin DOMAIN gpcs
  <2>1. LifeRefuses(a, "failed")
    BY <1>2, <1>4 DEF RemoveObject
  <2>2. doing[a].undo \notin {"create", "rollback"}
    BY <1>2, <1>3, <1>4
  <2> QED
    BY <1>1, <2>1, <2>2, RefusesInv DEF Keeps
<1>5. CASE c \in DOMAIN gpcs
  <2>1. DOMAIN gpcs' = DOMAIN gpcs \ {c} /\ sysvol' = sysvol /\ faults' = faults /\ Continues(a, x)
    <3>1. PICK gs : gs = Drop(gpcs, c)
      OBVIOUS
    <3>2. Carries(a, op, gs, sysvol)
      BY <1>2, <1>5, <3>1 DEF RemoveObject
    <3>3. gpcs' = gs /\ sysvol' = sysvol /\ Continues(a, x) /\ faults' = faults
      BY <3>2, CarriedOut
    <3> QED
      BY <3>1, <3>3 DEF Drop
  <2>2. IdleShape(x)
    <3>1. ~(Len(op.todo) > 1)
      <4>1. CASE op.todo = <<"gone">>
        BY <4>1
      <4>2. CASE op.todo = <<"unobject">>
        BY <4>2
      <4> QED
        BY <1>3, <4>1, <4>2
    <3>2. DOMAIN op = OpFields
      BY <1>1, <1>2, WhoIs
    <3> QED
      BY <3>1, <3>2, Next1Is
  <2> HIDE DEF x
  <2>3. doing' = [doing EXCEPT ![a] = x] /\ doing'[a] = x
    BY <2>1 DEF Continues, LifeInv, ShapesInv
  <2>4. Shape(a)'
    BY <2>2, <2>3 DEF Shape
  <2>5. Spares(a)
    <3>1. \A b \in LAdmin \ {a} : doing[b].do \in Making /\ doing[b].id # "none" => doing[b].id # c
      BY <1>2, <1>3 DEF LifeInv, AloneInv
    <3>2. \A b \in LAdmin \ {a} : doing'[b] = doing[b]
      BY <2>3
    <3> QED
      BY <2>1, <3>1, <3>2 DEF Spares, Same, Original
  <2>6. OwnedInv' /\ BackupsInv' /\ faults' >= faults /\ used \subseteq used' /\ used' = used
    <3>1. \A id \in DOMAIN sysvol' : id \in DOMAIN gpcs' \/ MadeAgain(sysvol'[id])
      BY <1>3, <2>1 DEF LifeInv, OwnedInv, Original
    <3> QED
      BY <1>1, <2>1, <3>1, LifeConstants DEF Keeps, LifeInv, OwnedInv, BackupsInv
  <2>7. x.do \notin Making \cup Acting
    BY <2>2 DEF IdleShape, Making, Acting
  <2>8. ASSUME NEW id \in DOMAIN sysvol'
        PROVE  id \in DOMAIN sysvol /\ sysvol'[id] = sysvol[id] /\ ~Bare(a, id)
    BY <1>1, <2>1 DEF Bare, HeadOf
  <2> QED
    BY <2>3, <2>4, <2>5, <2>6, <2>7, <2>8, Keeping
<1> QED
  BY <1>4, <1>5

LEMMA LBeginInv ==
  ASSUME LifeInv, Calm, NEW a \in LAdmin, LBegin(a)
  PROVE  LifeInv'
<1>1. PICK r, x :
        /\ r \in LAsked
        /\ r.do \in Acting => r.policy \in used /\ ~InTheMaking(r.policy)
        /\ doing' = [doing EXCEPT ![a] = x]
        /\ DOMAIN x = OpFields /\ x.do = r.do /\ x.todo = LifePlan(r.do)
        /\ x.id = (IF r.do \in Making THEN "none" ELSE r.policy)
        /\ x.undo = "none" /\ x.why = "none" /\ x.folder = FALSE /\ x.left = {} /\ x.archive = NoArchive
  <2>1. PICK r \in LAsked :
       /\ r.do \in {"delete", "status", "edit"} => r.policy \in used /\ (Meddling \/ ~InTheMaking(r.policy))
       /\ doing' = [doing EXCEPT ![a] =
            [do |-> r.do, todo |-> LifePlan(r.do), result |-> "none", source |-> r.policy,
             id |-> IF r.do \in {"create", "copy", "restore"} THEN "none" ELSE r.policy, name |-> r.name, off |-> r.off, on |-> r.on,
             undo |-> "none", folder |-> FALSE, left |-> {}, of |-> [name |-> "none"],
             archive |-> NoArchive, why |-> "none", faulty |-> FALSE,
             nth |-> lifeOps + 1, alone |-> \A b \in LAdmin \ {a} : ~Underway(b)]]
    BY DEF LBegin
  <2> DEFINE y ==
            [do |-> r.do, todo |-> LifePlan(r.do), result |-> "none", source |-> r.policy,
             id |-> IF r.do \in {"create", "copy", "restore"} THEN "none" ELSE r.policy, name |-> r.name, off |-> r.off, on |-> r.on,
             undo |-> "none", folder |-> FALSE, left |-> {}, of |-> [name |-> "none"],
             archive |-> NoArchive, why |-> "none", faulty |-> FALSE,
             nth |-> lifeOps + 1, alone |-> \A b \in LAdmin \ {a} : ~Underway(b)]
  <2>2. PICK x : x = y
    OBVIOUS
  <2>3. doing' = [doing EXCEPT ![a] = x]
    BY <2>1, <2>2
  <2>4. /\ DOMAIN x = OpFields /\ x.do = r.do /\ x.todo = LifePlan(r.do)
        /\ x.id = (IF r.do \in Making THEN "none" ELSE r.policy)
        /\ x.undo = "none" /\ x.why = "none" /\ x.folder = FALSE /\ x.left = {} /\ x.archive = NoArchive
    BY <2>2 DEF OpFields, Making
  <2> HIDE DEF y
  <2>5. r.do \in Acting => r.policy \in used /\ ~InTheMaking(r.policy)
    BY <2>1 DEF Calm, Acting
  <2> QED
    BY <2>3, <2>4, <2>5
<1>2. UNCHANGED <<gpcs, sysvol, backups, used, faults>> /\ ~Underway(a)
  BY DEF LBegin
<1>3. r.do \in Making \cup Acting \cup {"backup"}
  BY <1>1, LifeConstants DEF LRequest, Making, Acting
<1>4. doing'[a] = x
  BY <1>1 DEF LifeInv, ShapesInv
<1>5. ArchiveOk(x.archive)
  BY <1>1 DEF ArchiveOk, NoArchive
<1>6. Shape(a)'
  <2>1. CASE r.do \in Making
    <3> DEFINE n == Len(LifePlan(x.do))
               l == Lead(x.do)
    <3>1. l \in {0, 1} /\ n \in Nat /\ n >= l + 9 /\ LifePlan(x.do) \in Seq(Steps)
      BY <1>1, <2>1, PlanIs
    <3>2. x.todo = From(x.do, 1)
      <4> DEFINE p == LifePlan(x.do)
      <4>1. p \in Seq(Steps)
        BY <3>1
      <4> HIDE DEF p
      <4>2. SubSeq(p, 1, Len(p)) = p
        <5>1. Len(p) \in Nat /\ \A i \in 1..Len(p) : p[i] \in Steps
          BY <4>1
        <5> DEFINE t == SubSeq(p, 1, Len(p))
        <5>2. /\ t \in Seq(Steps) /\ Len(t) = (IF 1 <= Len(p) THEN Len(p) - 1 + 1 ELSE 0)
              /\ \A i \in 1..Len(p) - 1 + 1 : t[i] = p[1 + i - 1]
          BY <5>1, SubSeqProperties
        <5> HIDE DEF t
        <5>3. Len(t) = Len(p) /\ \A i \in 1..Len(p) : t[i] = p[i]
          BY <5>1, <5>2
        <5>4. t = p
          BY <4>1, <5>2, <5>3, SeqEqual
        <5> QED
          BY <5>4 DEF t
      <4> QED
        BY <1>1, <4>2 DEF From, p
    <3>3. Before(x)
      <4>1. 1 \in 1..l + 2
        BY <3>1
      <4> QED
        BY <1>1, <2>1, <3>2, <4>1 DEF Before
    <3>4. ASSUME NEW object, NEW folder, NEW paths, NEW last PROVE MakerShape(x, object, folder, paths, last)
      BY <1>1, <1>5, <2>1, <3>3 DEF MakerShape
    <3> QED
      BY <1>4, <3>4 DEF Shape
  <2>2. CASE r.do \in Acting \cup {"backup"}
    <3>1. ASSUME NEW folder PROVE OtherShape(x, folder)
      <4>1. CASE r.do = "delete"
        <5>1. x.todo = <<"source", "tree", "gone">>
          BY <1>1, <4>1 DEF LifePlan
        <5> QED
          BY <1>1, <4>1, <5>1 DEF OtherShape, DeleterShape
      <4>2. CASE r.do \in {"backup", "status", "edit"}
        <5>1. x.todo \in Seq(OtherSteps(x.do)) /\ x.todo # <<>>
          <6>1. CASE r.do = "backup"
            <7>1. x.todo = <<"source", "list", "files", "pack">> /\ OtherSteps(x.do) = {"source", "list", "files", "pack"}
              BY <1>1, <6>1 DEF LifePlan, OtherSteps
            <7> QED
              BY <7>1
          <6>2. CASE r.do = "status"
            <7>1. x.todo = <<"source", "flags">> /\ OtherSteps(x.do) = {"source", "flags"}
              BY <1>1, <6>2 DEF LifePlan, OtherSteps
            <7> QED
              BY <7>1
          <6>3. CASE r.do = "edit"
            <7>1. /\ x.todo = <<"source", "parents", "save", "bump", "restamp">>
                  /\ OtherSteps(x.do) = {"source", "parents", "save", "bump", "restamp"}
              BY <1>1, <6>3 DEF LifePlan, OtherSteps
            <7> QED
              BY <7>1
          <6> QED
            BY <4>2, <6>1, <6>2, <6>3
        <5> QED
          BY <1>1, <1>5, <4>2, <5>1 DEF OtherShape, ReaderShape
      <4> QED
        BY <2>2, <4>1, <4>2 DEF Acting
    <3> QED
      BY <1>4, <3>1 DEF Shape
  <2> QED
    BY <1>3, <2>1, <2>2
<1>7. OwnedInv' /\ BackupsInv' /\ faults' >= faults /\ used \subseteq used'
  BY <1>2, LifeConstants DEF LifeInv, OwnedInv, BackupsInv
<1>8. Making \cap Acting = {}
  BY DEF Making, Acting
<1>9. x.do \in Acting => x.id \in used'
  BY <1>1, <1>2, <1>8
<1>10. ASSUME NEW b \in LAdmin \ {a}
       PROVE  /\ doing[b].do \in Making /\ doing[b].id # "none" /\ x.do \in Making \cup Acting =>
                   x.id # doing[b].id
              /\ x.do \in Making /\ x.id # "none" /\ doing[b].do \in Making \cup Acting =>
                   doing[b].id # x.id
  <2>1. ASSUME doing[b].do \in Making, r.do \in Acting PROVE r.policy # doing[b].id
    BY <1>1, <2>1 DEF InTheMaking, Makes, Making
  <2> QED
    BY <1>1, <1>8, <2>1
<1>11. Spares(a)
  <2>1. \A b \in LAdmin \ {a} : doing'[b] = doing[b]
    BY <1>1 DEF LifeInv, ShapesInv
  <2> QED
    BY <1>2, <2>1 DEF Spares, Same, Original
<1>13. x.do \in Making => (doing[a].do \in Making /\ x.id = doing[a].id) \/ x.id \notin DOMAIN sysvol
  BY <1>1, LifeStart DEF LifeInv, OwnedInv
<1>12. ASSUME NEW id \in DOMAIN sysvol'
       PROVE  id \in DOMAIN sysvol /\ sysvol'[id] = sysvol[id] /\ ~Bare(a, id)
  BY <1>2 DEF Bare, Underway
<1> QED
  BY <1>1, <1>6, <1>7, <1>9, <1>10, <1>11, <1>12, <1>13, Keeping

---------------------------------------------------------------------------
(* The invariant.                                                          *)
LEMMA LifeInitInv == LifeInit => LifeInv
<1> SUFFICES ASSUME LifeInit PROVE LifeInv
  OBVIOUS
<1>1. OwnedInv
  BY LifeConstants, LifeStart DEF LifeInit, OwnedInv
<1>2. ShapesInv
  BY DEF LifeInit, ShapesInv, Shape, IdleShape, LIdle
<1>3. AloneInv
  BY DEF LifeInit, AloneInv, LIdle, Making, Acting
<1>4. FoldersInv
  <2> SUFFICES ASSUME NEW id \in DOMAIN Folders PROVE FolderOk(Folders[id]) /\ AclOf(Folders[id]) = "derived"
    BY DEF LifeInit, FoldersInv
  <2>1. /\ Top \in DOMAIN Folders[id]
        /\ \A p \in DOMAIN Folders[id] :
             IsPath(p) /\ Folders[id][p] \in SysvolEntry /\ Folders[id][p].acl = "derived"
    BY LifeStart
  <2>2. \A e \in SysvolEntry : DOMAIN e = EntryFields
    BY DEF SysvolEntry, EntryFields
  <2> QED
    BY <2>1, <2>2 DEF FolderOk, AclOf
<1>5. BackupsInv
  BY LifeConstants, LifeStart DEF LifeInit, BackupsInv, ArchiveOk, IsArchive
<1> QED
  BY <1>1, <1>2, <1>3, <1>4, <1>5 DEF LifeInv

LEMMA LifeNextInv ==
  ASSUME LifeInv, Calm, [LifeNext]_lifeVars
  PROVE  LifeInv'
<1>1. CASE UNCHANGED lifeVars
  <2>1. UNCHANGED <<gpcs, sysvol, backups, doing, used, faults>>
    BY <1>1 DEF lifeVars
  <2>2. OwnedInv' /\ AloneInv' /\ BackupsInv'
    BY <2>1 DEF LifeInv, OwnedInv, AloneInv, BackupsInv
  <2>3. ShapesInv'
    BY <2>1 DEF LifeInv, ShapesInv, Shape, Original, FolderOf
  <2>4. FoldersInv'
    BY <2>1 DEF LifeInv, FoldersInv, Bare, Unmade
  <2> QED
    BY <2>2, <2>3, <2>4 DEF LifeInv
<1>2. ASSUME NEW a \in LAdmin, LifeStep(a) PROVE LifeInv'
  <2>1. LBegin(a) => LifeInv'
    BY LBeginInv
  <2>2. CallFails(a) => LifeInv'
    BY CallFailsInv
  <2>3. TakenName(a) \/ AddObject(a) \/ AddChildren(a) \/ MakeFolder(a) \/ StampTree(a) => LifeInv'
    BY TakenNameInv, AddObjectInv, AddChildrenInv, MakeFolderInv, StampTreeInv
  <2>4. MakeHalf(a) \/ ReadBack(a) \/ ReadSource(a) \/ ListFolder(a) => LifeInv'
    BY MakeHalfInv, ReadBackInv, ReadSourceInv, ListFolderInv
  <2>5. NewIni(a) => LifeInv'
    BY WriteIniInv DEF NewIni
  <2>6. CopyFile(a) \/ PackFile(a) \/ UnpackFile(a) \/ FilesDone(a) => LifeInv'
    BY CopyFileInv, PackFileInv, UnpackFileInv, FilesDoneInv
  <2>7. WriteAttributes(a) \/ WriteVersion(a) \/ ShowMade(a) \/ Pack(a) \/ OpenBackup(a) => LifeInv'
    BY WriteAttributesInv, WriteVersionInv, ShowMadeInv, PackInv, OpenBackupInv
  <2>8. Mine(a) \/ RemoveTree(a) \/ RemoveObject(a) \/ WriteFlags(a) => LifeInv'
    BY MineInv, RemoveTreeInv, RemoveObjectInv, WriteFlagsInv
  <2>10. MakeParents(a) \/ Save(a) \/ BumpHalf(a) => LifeInv'
    BY MakeParentsInv, SaveInv, BumpHalfInv
  <2>9. Restamp(a) => LifeInv'
    BY WriteIniInv DEF Restamp
  <2> QED
    BY <1>2, <2>1, <2>2, <2>3, <2>4, <2>5, <2>6, <2>7, <2>8, <2>9, <2>10 DEF LifeStep
<1> QED
  BY <1>1, <1>2 DEF LifeNext

(* Every folder belongs to a policy and everything in it carries the       *)
(* policy's permissions, save the folders a save made again after another  *)
(* session's deletion had taken them, whatever the sessions do at the same *)
(* time, on a server that loses no answer and fails one call at most, when *)
(* nobody deletes or edits a policy that is still being made (create_gpo,  *)
(* copy_gpo, restore_gpo and their rollback, delete_gpo).                  *)
THEOREM FoldersOwnedHolds ==
  ASSUME Faults \subseteq {"call"}, MaxFaults \in {0, 1}, Meddling = FALSE
  PROVE  LifeSpec => []FoldersOwned
<1>1. Calm
  BY DEF Calm
<1>2. LifeInv => FoldersOwned
  <2> SUFFICES ASSUME LifeInv PROVE NoOrphanTree /\ PermissionsInherited
    BY DEF FoldersOwned
  <2>1. NoOrphanTree
    BY DEF LifeInv, OwnedInv, NoOrphanTree
  <2>2. PermissionsInherited
    <3> SUFFICES ASSUME NEW id \in DOMAIN sysvol
                 PROVE  /\ \A p \in DOMAIN sysvol[id] : sysvol[id][p].acl = sysvol[id][Top].acl
                        /\ \/ sysvol[id][Top].acl = "derived" \/ MadeAgain(sysvol[id])
                           \/ \E a \in LAdmin : Underway(a) /\ doing[a].id = id
      BY DEF PermissionsInherited
    <3>1. /\ FolderOk(sysvol[id])
          /\ \/ AclOf(sysvol[id]) = "derived" \/ MadeAgain(sysvol[id])
             \/ \E a \in LAdmin : Bare(a, id)
      BY DEF LifeInv, FoldersInv
    <3> QED
      BY <3>1 DEF FolderOk, AclOf, Bare, Underway
  <2> QED
    BY <2>1, <2>2
<1>3. LifeInit => LifeInv
  BY LifeInitInv
<1>4. LifeInv /\ [LifeNext]_lifeVars => LifeInv'
  BY <1>1, LifeNextInv
<1> QED
  BY <1>2, <1>3, <1>4, PTL DEF LifeSpec
=============================================================================
