---------------------------- MODULE PolicyProofs ----------------------------
(***************************************************************************)
(* Where policies apply, and what Samba's own policies keep: theorems      *)
(* about GpoLinks, with or without operations that overlap, about          *)
(* Manifests and about Preferences, for any containers, policies, files,   *)
(* requests and number of sessions.                                        *)
(***************************************************************************)
EXTENDS GpoLinks, Manifests, Preferences, CollectionsProofs, FiniteSetTheorems

---------------------------------------------------------------------------
(* Reversing a list keeps its links, one for each policy.                  *)
LEMMA ReverseOnce ==
  ASSUME NEW s \in Seq(Link), LinkedOnce(s)
  PROVE  Reverse(s) \in Seq(Link) /\ Len(Reverse(s)) = Len(s) /\ LinkedOnce(Reverse(s))
<1> DEFINE r == Reverse(s)
<1>1. r \in Seq(Link) /\ Len(r) = Len(s)
  BY DEF Reverse
<1>2. \A i \in 1..Len(s) : r[i] = s[Len(s) - i + 1]
  BY DEF Reverse
<1> HIDE DEF r
<1>3. ASSUME NEW i \in 1..Len(s), NEW j \in 1..Len(s), r[i].policy = r[j].policy
      PROVE  i = j
  <2>1. s[Len(s) - i + 1].policy = s[Len(s) - j + 1].policy
    BY <1>2, <1>3
  <2>2. Len(s) - i + 1 = Len(s) - j + 1
    BY <2>1 DEF LinkedOnce
  <2> QED
    BY <2>2
<1>4. LinkedOnce(r)
  BY <1>1, <1>3 DEF LinkedOnce
<1> QED
  BY <1>1, <1>4 DEF r

(* A list without one of its links has one link for each policy, none for  *)
(* that link's.                                                            *)
LEMMA RemoveOnce ==
  ASSUME NEW s \in Seq(Link), LinkedOnce(s), NEW i \in 1..Len(s)
  PROVE  /\ RemoveAt(s, i) \in Seq(Link) /\ Len(RemoveAt(s, i)) = Len(s) - 1
         /\ LinkedOnce(RemoveAt(s, i)) /\ ~LinkedIn(RemoveAt(s, i), s[i].policy)
<1> DEFINE r == RemoveAt(s, i)
           At(j) == IF j < i THEN j ELSE j + 1
<1>1. /\ r \in Seq(Link) /\ Len(r) = Len(s) - 1
      /\ \A j \in 1..Len(r) : r[j] = IF j < i THEN s[j] ELSE s[j + 1]
  BY RemoveAtIs
<1> HIDE DEF r
<1>2. \A j \in 1..Len(r) : At(j) \in 1..Len(s) \ {i} /\ r[j] = s[At(j)]
  BY <1>1
<1>3. \A j, k \in 1..Len(r) : At(j) = At(k) => j = k
  BY <1>1
<1> HIDE DEF At
<1>4. ASSUME NEW j \in 1..Len(r), NEW k \in 1..Len(r), r[j].policy = r[k].policy
      PROVE  j = k
  <2>1. At(j) = At(k)
    BY <1>2, <1>4 DEF LinkedOnce
  <2> QED
    BY <1>3, <2>1
<1>5. ASSUME NEW j \in 1..Len(r), r[j].policy = s[i].policy
      PROVE  FALSE
  BY <1>2, <1>5 DEF LinkedOnce
<1>6. LinkedOnce(r)
  BY <1>4 DEF LinkedOnce
<1>7. ~LinkedIn(r, s[i].policy)
  BY <1>5 DEF LinkedIn
<1> QED
  BY <1>1, <1>6, <1>7 DEF r

(* A link for another policy can be put at any place.                      *)
LEMMA InsertOnce ==
  ASSUME NEW s \in Seq(Link), LinkedOnce(s), NEW e \in Link, ~LinkedIn(s, e.policy),
         NEW k \in 1..Len(s) + 1
  PROVE  InsertAt(s, k, e) \in Seq(Link) /\ LinkedOnce(InsertAt(s, k, e))
<1> DEFINE r == InsertAt(s, k, e)
           At(j) == IF j < k THEN j ELSE j - 1
<1>1. /\ r \in Seq(Link) /\ Len(r) = Len(s) + 1
      /\ \A j \in 1..Len(r) : r[j] = IF j < k THEN s[j] ELSE IF j = k THEN e ELSE s[j - 1]
  BY InsertAtIs
<1> HIDE DEF r
<1>2. \A j \in 1..Len(r) \ {k} : At(j) \in 1..Len(s) /\ r[j] = s[At(j)]
  BY <1>1
<1>3. r[k] = e
  BY <1>1
<1>4. \A j, l \in 1..Len(r) \ {k} : At(j) = At(l) => j = l
  BY <1>1
<1> HIDE DEF At
<1>5. \A j \in 1..Len(r) \ {k} : r[j].policy # e.policy
  BY <1>2 DEF LinkedIn
<1>6. ASSUME NEW j \in 1..Len(r), NEW l \in 1..Len(r), r[j].policy = r[l].policy
      PROVE  j = l
  <2>1. CASE j # k /\ l # k
    BY <1>2, <1>4, <1>6, <2>1 DEF LinkedOnce
  <2>2. CASE j = k \/ l = k
    BY <1>3, <1>5, <1>6, <2>2
  <2> QED
    BY <2>1, <2>2
<1> QED
  BY <1>1, <1>6 DEF r, LinkedOnce

(* The place of a linked policy.                                           *)
LEMMA PositionOf ==
  ASSUME NEW s \in Seq(Link), LinkedOnce(s), NEW p, LinkedIn(s, p)
  PROVE  Position(s, p) \in 1..Len(s) /\ s[Position(s, p)].policy = p
<1>1. PICK i \in 1..Len(s) : s[i].policy = p
  BY DEF LinkedIn
<1>2. \A j \in DOMAIN s : s[j].policy = p => i <= j
  BY <1>1 DEF LinkedOnce
<1> QED
  BY <1>1, <1>2 DEF Position

(* The list an accepted operation writes is well formed.                   *)
LEMMA ChangedOnce ==
  ASSUME NEW s \in Seq(Link), LinkedOnce(s), NEW o \in Op, Accepted(s, o)
  PROVE  /\ Changed(s, o) \in Seq(Link) /\ LinkedOnce(Changed(s, o))
         /\ o.do = "update" /\ o.order > 0 =>
              o.order \in 1..Len(Changed(s, o)) /\ Changed(s, o)[o.order].policy = o.policy
<1>1. CASE o.do = "add"
  <2> DEFINE e == [policy |-> o.policy, options |-> o.set]
             r == <<e>> \o s
  <2>1. e \in Link
    BY DEF Op, Link
  <2>2. ~LinkedIn(s, e.policy)
    BY <1>1 DEF Accepted
  <2> HIDE DEF e
  <2>3. r \in Seq(Link) /\ Len(r) = Len(s) + 1
    BY <2>1
  <2>4. r[1] = e /\ \A j \in 2..Len(r) : r[j] = s[j - 1] /\ j - 1 \in 1..Len(s)
    BY <2>1, <2>3
  <2>5. Changed(s, o) = r
    BY <1>1 DEF Changed, e
  <2> HIDE DEF r
  <2>6. ASSUME NEW j \in 1..Len(r), NEW k \in 1..Len(r), r[j].policy = r[k].policy
        PROVE  j = k
    <3>1. \A l \in 2..Len(r) : r[l].policy # r[1].policy
      BY <2>2, <2>4 DEF LinkedIn
    <3>2. CASE j = 1 \/ k = 1
      BY <2>3, <2>6, <3>1, <3>2
    <3>3. CASE j # 1 /\ k # 1
      <4>1. j \in 2..Len(r) /\ k \in 2..Len(r)
        BY <2>3, <3>3
      <4>2. /\ j - 1 \in DOMAIN s /\ k - 1 \in DOMAIN s
            /\ s[j - 1].policy = s[k - 1].policy
        BY <2>4, <2>6, <4>1
      <4>3. j - 1 = k - 1
        BY ONLY <4>2, LinkedOnce(s) DEF LinkedOnce
      <4> QED
        BY <4>1, <4>3
    <3> QED
      BY <3>2, <3>3
  <2> QED
    BY <1>1, <2>3, <2>5, <2>6 DEF LinkedOnce
<1>2. CASE o.do \notin {"add", "update"}
  <2>1. LinkedIn(s, o.policy) /\ Changed(s, o) = RemoveAt(s, Position(s, o.policy))
    BY <1>2 DEF Accepted, Changed
  <2> QED
    BY <1>2, <2>1, PositionOf, RemoveOnce
<1>3. CASE o.do = "update"
  <2> DEFINE i == Position(s, o.policy)
             c == [s EXCEPT ![i].options = (@ \cup o.set) \ o.clear]
  <2>1. LinkedIn(s, o.policy) /\ o.order <= Len(s) /\ o.order \in Nat
    BY <1>3 DEF Accepted, Op
  <2>2. i \in 1..Len(s) /\ s[i].policy = o.policy
    BY <2>1, PositionOf
  <2> DEFINE e == [s[i] EXCEPT !.options = (@ \cup o.set) \ o.clear]
  <2> HIDE DEF i
  <2>3. e \in Link /\ e.policy = s[i].policy
    <3>1. s[i] \in Link
      BY <2>2
    <3> QED
      BY <3>1 DEF Link, Op
  <2>4. c = [s EXCEPT ![i] = e]
    BY <2>2
  <2>5. Changed(s, o) = IF o.order = 0 THEN c ELSE Move(c, i, o.order)
    BY <1>3 DEF Changed, Updated, i
  <2> HIDE DEF c, e
  <2>6. c \in Seq(Link) /\ Len(c) = Len(s)
        /\ \A j \in 1..Len(s) : c[j].policy = s[j].policy
    BY <2>2, <2>3, <2>4
  <2>7. LinkedOnce(c)
    BY <2>6 DEF LinkedOnce
  <2>8. CASE o.order # 0
    <3>1. RemoveAt(c, i) \in Seq(Link) /\ Len(RemoveAt(c, i)) = Len(c) - 1
          /\ LinkedOnce(RemoveAt(c, i)) /\ ~LinkedIn(RemoveAt(c, i), c[i].policy)
      BY <2>2, <2>6, <2>7, RemoveOnce
    <3>2. c[i] \in Link
      BY <2>2, <2>6
    <3>3. o.order \in 1..Len(RemoveAt(c, i)) + 1
      BY <2>1, <2>6, <2>8, <3>1
    <3>4. Changed(s, o) = InsertAt(RemoveAt(c, i), o.order, c[i])
      BY <2>5, <2>8 DEF Move
    <3>5. /\ Len(Changed(s, o)) = Len(s) /\ Changed(s, o)[o.order] = c[i]
          /\ o.order \in 1..Len(Changed(s, o))
      <4> DEFINE q == RemoveAt(c, i)
                 k == o.order
      <4>1. q \in Seq(Link) /\ Len(q) + 1 = Len(s) /\ k \in 1..Len(q) + 1
        BY <2>6, <3>1, <3>3
      <4> HIDE DEF q, k
      <4>2. /\ InsertAt(q, k, c[i]) \in Seq(Link) /\ Len(InsertAt(q, k, c[i])) = Len(q) + 1
            /\ InsertAt(q, k, c[i])[k] = c[i]
        BY <3>2, <4>1, InsertAtIs
      <4> QED
        BY <3>4, <4>1, <4>2 DEF q, k
    <3> QED
      BY <2>2, <2>6, <3>1, <3>2, <3>3, <3>4, <3>5, InsertOnce
  <2> QED
    BY <2>1, <2>5, <2>6, <2>7, <2>8
<1> QED
  BY <1>1, <1>2, <1>3

---------------------------------------------------------------------------
(* The inductive invariant: what a session is about to write is well       *)
(* formed whenever it was read, so it does not matter what others write in *)
(* between.                                                                *)
ListInv ==
  /\ \A c \in Container : LinkedOnce(gplink[c])
  /\ \A a \in Admin : LinkedOnce(value[a])
Inv == TypeOK /\ ListInv

(* The invariant holds at the start.                                       *)
LEMMA InitInv == Init => Inv
<1> SUFFICES ASSUME Init PROVE Inv
  OBVIOUS
<1>1. \A c \in Container : gplink[c] \in Given[c] /\ Given[c] \subseteq Seq(Link)
  BY ConstantsAssumption DEF Init
<1>2. gplink \in [Container -> Seq(Link)]
  BY <1>1 DEF Init
<1>3. TypeOK
  BY <1>2, ConstantsAssumption DEF Init, TypeOK
<1>4. ListInv
  BY <1>1, GivenAssumption DEF Init, ListInv, LinkedOnce
<1> QED
  BY <1>3, <1>4 DEF Inv

(* An operation that returns, or goes on without a list, keeps the         *)
(* invariant of the sessions.                                              *)
LEMMA ReturnInv ==
  ASSUME Inv, NEW a \in Admin, pc[a] # "idle", Return(a), UNCHANGED ops
  PROVE  /\ pc' \in [Admin -> {"idle", "target", "read", "write", "find", "delete"}]
         /\ \A b \in Admin : op'[b] \in IF pc'[b] = "idle" THEN {None} ELSE Op
         /\ DOMAIN op' = Admin
         /\ value' \in [Admin -> Seq(Link)] /\ ops' \in 0..MaxOps
         /\ \A b \in Admin : LinkedOnce(value'[b])
<1>1. value' \in [Admin -> Seq(Link)] /\ \A b \in Admin : LinkedOnce(value'[b])
  BY DEF Inv, TypeOK, ListInv, Return, LinkedOnce
<1>2. pc' \in [Admin -> {"idle", "target", "read", "write", "find", "delete"}]
  BY DEF Inv, TypeOK, Return, Goto
<1>3. DOMAIN op' = Admin /\ \A b \in Admin : op'[b] \in IF pc'[b] = "idle" THEN {None} ELSE Op
  BY DEF Inv, TypeOK, Return, Goto
<1> QED
  BY <1>1, <1>2, <1>3 DEF Inv, TypeOK

(* The same for one that goes to its next step.                            *)
LEMMA GotoInv ==
  ASSUME Inv, NEW a \in Admin, pc[a] # "idle",
         NEW l \in {"target", "read", "write", "find", "delete"}, Goto(a, l),
         UNCHANGED <<directoryVars, op, ops>>, waived' \subseteq Policy,
         value' \in [Admin -> Seq(Link)], \A b \in Admin : LinkedOnce(value'[b])
  PROVE  Inv'
<1>1. pc' \in [Admin -> {"idle", "target", "read", "write", "find", "delete"}]
  BY DEF Inv, TypeOK, Goto
<1>2. \A b \in Admin : op'[b] \in IF pc'[b] = "idle" THEN {None} ELSE Op
  BY DEF Inv, TypeOK, Goto
<1>3. TypeOK'
  BY <1>1, <1>2 DEF Inv, TypeOK, directoryVars
<1>4. ListInv'
  BY DEF Inv, ListInv, directoryVars
<1> QED
  BY <1>3, <1>4 DEF Inv

(* Every step of every session keeps it.                                   *)
LEMMA NextInv == Inv /\ [Next]_vars => Inv'
<1> SUFFICES ASSUME Inv, [Next]_vars PROVE Inv'
  OBVIOUS
<1>1. ASSUME NEW a \in Admin, NEW o \in Asked, Begin(a, o)
      PROVE  Inv'
  <2>1. o \in Op /\ None \notin Op
    BY ConstantsAssumption
  <2>2. pc' \in [Admin -> {"idle", "target", "read", "write", "find", "delete"}] /\ pc'[a] # "idle"
    BY <1>1 DEF Inv, TypeOK, Begin, Goto
  <2>3. DOMAIN op' = Admin /\ \A b \in Admin : op'[b] \in IF pc'[b] = "idle" THEN {None} ELSE Op
    BY <1>1, <2>1, <2>2 DEF Inv, TypeOK, Begin, Goto
  <2>4. ops' \in 0..MaxOps
    BY <1>1, ConstantsAssumption DEF Inv, TypeOK, Begin
  <2>5. TypeOK'
    BY <1>1, <2>2, <2>3, <2>4 DEF Inv, TypeOK, Begin, directoryVars
  <2> QED
    BY <1>1, <2>5 DEF Inv, ListInv, Begin, directoryVars
<1>2. ASSUME NEW a \in Admin, Target(a)
      PROVE  Inv'
  <2>1. CASE Return(a)
    BY <1>2, <2>1, ReturnInv DEF Inv, TypeOK, ListInv, Target, directoryVars
  <2>2. CASE ~Return(a)
    BY <1>2, <2>2, GotoInv DEF Inv, TypeOK, ListInv, Target, directoryVars
  <2> QED
    BY <2>1, <2>2
<1>3. ASSUME NEW a \in Admin, Read(a)
      PROVE  Inv'
  <2> DEFINE o == op[a]
             links == Parse(gplink[o.container])
  <2>1. pc[a] = "read" /\ o \in Op /\ UNCHANGED <<directoryVars, ops, waived>>
    BY <1>3 DEF Read, Inv, TypeOK
  <2>2. CASE Return(a)
    BY <2>1, <2>2, ReturnInv DEF Inv, TypeOK, ListInv, directoryVars
  <2>3. CASE ~Return(a) /\ o.do = "block"
    BY <1>3, <2>1, <2>3, GotoInv DEF Read, Inv, TypeOK, ListInv
  <2>4. CASE ~Return(a) /\ o.do # "block"
    <3>1. Accepted(links, o) /\ Goto(a, "write") /\ UNCHANGED op
          /\ value' = [value EXCEPT ![a] = Changed(links, o)]
      BY <1>3, <2>4 DEF Read
    <3>2. o.container \in Container
      BY <2>1, <2>4 DEF Op
    <3>3. links \in Seq(Link) /\ LinkedOnce(links)
      BY <3>2, ReverseOnce DEF Inv, TypeOK, ListInv, Parse
    <3>4. Changed(links, o) \in Seq(Link) /\ LinkedOnce(Changed(links, o))
      BY <2>1, <3>1, <3>2, <3>3, ChangedOnce
    <3>5. value' \in [Admin -> Seq(Link)] /\ \A b \in Admin : LinkedOnce(value'[b])
      BY <3>1, <3>4 DEF Inv, TypeOK, ListInv
    <3> QED
      BY <2>1, <3>1, <3>5, GotoInv DEF Inv, TypeOK
  <2> QED
    BY <2>2, <2>3, <2>4
<1>4. ASSUME NEW a \in Admin, Write(a)
      PROVE  Inv'
  <2> DEFINE o == op[a]
  <2>1. pc[a] = "write" /\ o \in Op /\ Return(a) /\ UNCHANGED <<policies, ops, waived>>
    BY <1>4 DEF Write, Inv, TypeOK
  <2>2. o.container \in Container
    BY <2>1 DEF Op
  <2>3. CASE o.do = "block"
    <3>1. blocked' \subseteq Container /\ gplink' = gplink
      BY <1>4, <2>2, <2>3 DEF Write, Inv, TypeOK
    <3> QED
      BY <2>1, <3>1, ReturnInv DEF Inv, TypeOK, ListInv
  <2>4. CASE o.do # "block"
    <3>1. gplink' = [gplink EXCEPT ![o.container] = Format(value[a])] /\ blocked' = blocked
      BY <1>4, <2>4 DEF Write
    <3>2. Format(value[a]) \in Seq(Link) /\ LinkedOnce(Format(value[a]))
      BY ReverseOnce DEF Inv, TypeOK, ListInv, Format
    <3>3. gplink' \in [Container -> Seq(Link)] /\ \A c \in Container : LinkedOnce(gplink'[c])
      BY <2>2, <3>1, <3>2 DEF Inv, TypeOK, ListInv
    <3> QED
      BY <2>1, <3>1, <3>3, ReturnInv DEF Inv, TypeOK, ListInv
  <2> QED
    BY <2>3, <2>4
<1>5. ASSUME NEW a \in Admin, Find(a)
      PROVE  Inv'
  <2>1. pc[a] = "find" /\ op[a] \in Op /\ UNCHANGED <<directoryVars, ops>>
    BY <1>5 DEF Find, Inv, TypeOK
  <2>2. waived' \subseteq Policy
    BY <1>5, <2>1 DEF Find, Inv, TypeOK, Op
  <2>3. Return(a) \/ (Goto(a, "delete") /\ UNCHANGED <<op, value>>)
    BY <1>5 DEF Find
  <2>4. CASE Return(a)
    BY <2>1, <2>4, <2>2, ReturnInv DEF Inv, TypeOK, ListInv, directoryVars
  <2>5. CASE Goto(a, "delete") /\ UNCHANGED <<op, value>>
    BY <2>1, <2>5, <2>2, GotoInv DEF Inv, TypeOK, ListInv
  <2> QED
    BY <2>3, <2>4, <2>5
<1>6. ASSUME NEW a \in Admin, Delete(a)
      PROVE  Inv'
  <2>1. pc[a] = "delete" /\ Return(a) /\ UNCHANGED <<gplink, blocked, ops>>
        /\ waived' \subseteq Policy /\ policies' \subseteq policies
    BY <1>6 DEF Delete, Inv, TypeOK, Op
  <2> QED
    BY <2>1, ReturnInv DEF Inv, TypeOK, ListInv
<1>7. CASE UNCHANGED vars
  BY <1>7 DEF Inv, TypeOK, ListInv, vars, directoryVars
<1> QED
  BY <1>1, <1>2, <1>3, <1>4, <1>5, <1>6, <1>7 DEF Next, Step

(* Every variable keeps its type, and no operation, not even two that      *)
(* overlap, writes a list of links with a policy in it twice.              *)
THEOREM Invariant == Spec => []Inv
<1> QED
  BY InitInv, NextInv, PTL DEF Spec

(* Type correctness.                                                       *)
THEOREM TypeCorrect == Spec => []TypeOK
<1>1. Inv => TypeOK
  BY DEF Inv
<1> QED
  BY Invariant, <1>1, PTL

(* No policy is ever linked twice to a container: add_link's check holds   *)
(* even when other operations come between its read and its write.         *)
THEOREM OneLinkEachHolds == Spec => []OneLinkEach
<1>1. Inv => OneLinkEach
  BY DEF Inv, ListInv, OneLinkEach
<1> QED
  BY Invariant, <1>1, PTL

---------------------------------------------------------------------------
(* A list about to be written for a move has the link at the place that    *)
(* was asked for, whatever the attribute holds by then.                    *)
PlaceOk(a) ==
  pc[a] = "write" /\ op[a].do = "update" /\ op[a].order > 0 =>
    op[a].order \in 1..Len(value[a]) /\ value[a][op[a].order].policy = op[a].policy
PlaceInv == \A a \in Admin : PlaceOk(a)

(* Only Read makes a session write, with a list that has the link there.   *)
LEMMA PlaceNext == Inv /\ PlaceInv /\ [Next]_vars => PlaceInv'
<1> SUFFICES ASSUME Inv, PlaceInv, [Next]_vars, NEW b \in Admin PROVE PlaceOk(b)'
  BY DEF PlaceInv
<1> USE DEF PlaceOk
<1>1. ASSUME NEW a \in Admin, NEW o \in Asked, Begin(a, o) PROVE PlaceOk(b)'
  BY <1>1 DEF Begin, Goto, Inv, TypeOK, PlaceInv
<1>2. ASSUME NEW a \in Admin, Target(a) PROVE PlaceOk(b)'
  BY <1>2 DEF Target, Return, Goto, Inv, TypeOK, PlaceInv
<1>3. ASSUME NEW a \in Admin, Read(a) PROVE PlaceOk(b)'
  <2> DEFINE o == op[a]
             links == Parse(gplink[o.container])
  <2>1. pc[a] = "read" /\ o \in Op
    BY <1>3 DEF Read, Inv, TypeOK
  <2>2. CASE Return(a)
    BY <2>2 DEF Return, Goto, Inv, TypeOK, PlaceInv
  <2>3. CASE ~Return(a) /\ o.do = "block"
    BY <1>3, <2>3 DEF Read, Goto, Inv, TypeOK, PlaceInv
  <2>4. CASE ~Return(a) /\ o.do # "block"
    <3>1. /\ Accepted(links, o) /\ Goto(a, "write") /\ UNCHANGED op
          /\ value' = [value EXCEPT ![a] = Changed(links, o)]
      BY <1>3, <2>4 DEF Read
    <3>2. links \in Seq(Link) /\ LinkedOnce(links)
      BY <2>1, ReverseOnce DEF Inv, TypeOK, ListInv, Parse, Op
    <3>3. o.do = "update" /\ o.order > 0 =>
            o.order \in 1..Len(Changed(links, o)) /\ Changed(links, o)[o.order].policy = o.policy
      BY <2>1, <3>1, <3>2, ChangedOnce
    <3> HIDE DEF links
    <3> QED
      BY <3>1, <3>3 DEF Goto, Inv, TypeOK, PlaceInv
  <2> QED
    BY <2>2, <2>3, <2>4
<1>4. ASSUME NEW a \in Admin, Write(a) PROVE PlaceOk(b)'
  BY <1>4 DEF Write, Return, Goto, Inv, TypeOK, PlaceInv
<1>5. ASSUME NEW a \in Admin, Find(a) PROVE PlaceOk(b)'
  BY <1>5 DEF Find, Return, Goto, Inv, TypeOK, PlaceInv
<1>6. ASSUME NEW a \in Admin, Delete(a) PROVE PlaceOk(b)'
  BY <1>6 DEF Delete, Return, Goto, Inv, TypeOK, PlaceInv
<1>7. CASE UNCHANGED vars
  BY <1>7 DEF vars, PlaceInv
<1> QED
  BY <1>1, <1>2, <1>3, <1>4, <1>5, <1>6, <1>7 DEF Next, Step

(* A moved link stands where it was asked for in the list that is read     *)
(* back, for any list and with other operations in between.                *)
THEOREM MovesLandHolds == Spec => MovesLand
<1>1. Init => PlaceInv
  BY DEF Init, PlaceInv, PlaceOk
<1>2. ASSUME Inv, PlaceInv, NEW a \in Admin, Write(a), op[a].do = "update", op[a].order > 0
      PROVE  Parse(gplink'[op[a].container])[op[a].order].policy = op[a].policy
  <2> DEFINE k == op[a].order
             n == Len(value[a])
  <2>1. /\ pc[a] = "write" /\ op[a] \in Op /\ value[a] \in Seq(Link)
        /\ gplink' = [gplink EXCEPT ![op[a].container] = Format(value[a])]
    BY <1>2 DEF Write, Inv, TypeOK
  <2>2. op[a].container \in Container /\ gplink'[op[a].container] = Format(value[a])
    BY <1>2, <2>1 DEF Op, Inv, TypeOK
  <2>3. k \in 1..n /\ value[a][k].policy = op[a].policy
    BY <1>2, <2>1 DEF PlaceInv, PlaceOk
  <2>4. Parse(Format(value[a]))[k] = value[a][k]
    <3> DEFINE r == Format(value[a])
    <3>1. r \in Seq(Link) /\ Len(r) = n /\ \A j \in 1..n : r[j] = value[a][n - j + 1]
      BY <2>1 DEF Format, Reverse
    <3> HIDE DEF r
    <3>2. Parse(r)[k] = r[n - k + 1]
      BY <2>3, <3>1 DEF Parse, Reverse
    <3>3. n - k + 1 \in 1..n /\ n - (n - k + 1) + 1 = k
      BY <2>1, <2>3
    <3> QED
      BY <3>1, <3>2, <3>3 DEF r
  <2> QED
    BY <2>2, <2>3, <2>4
<1>3. Inv /\ PlaceInv => [MoveLands]_vars
  BY <1>2 DEF MoveLands
<1> QED
  BY Invariant, <1>1, <1>3, PlaceNext, PTL DEF Spec, MovesLand

---------------------------------------------------------------------------
(* GpoLinks implements LinkOrder, as long as operations of two sessions do  *)
(* not meet on a container: reading, changing and writing back a reversed   *)
(* attribute comes to one change of an order of precedence.                 *)
(* The order of precedence and the attribute.                              *)

(* Reversing twice changes nothing: what is written is what is read back.  *)
LEMMA ParseFormat ==
  ASSUME NEW S, NEW s \in Seq(S)
  PROVE  Parse(Format(s)) = s
<1> DEFINE r == Format(s)
           n == Len(s)
<1>1. r \in Seq(S) /\ Len(r) = n /\ \A j \in 1..n : r[j] = s[n - j + 1]
  BY DEF Format, Reverse
<1> HIDE DEF r
<1>2. Parse(r) \in Seq(S) /\ Len(Parse(r)) = n /\ \A k \in 1..n : Parse(r)[k] = r[n - k + 1]
  BY <1>1 DEF Parse, Reverse
<1>3. ASSUME NEW k \in 1..n PROVE Parse(r)[k] = s[k]
  <2>1. n - k + 1 \in 1..n /\ n - (n - k + 1) + 1 = k
    OBVIOUS
  <2> QED
    BY <1>1, <1>2, <2>1
<1>4. Parse(r) = s
  BY <1>2, <1>3, SeqEqual
<1> QED
  BY <1>4 DEF r

(* A policy is linked in the list that is shown when it is in the          *)
(* attribute.                                                              *)
LEMMA LinkedParse ==
  ASSUME NEW s \in Seq(Link), NEW p
  PROVE  LinkedIn(Parse(s), p) <=> LinkedIn(s, p)
<1> DEFINE r == Parse(s)
           n == Len(s)
<1>1. r \in Seq(Link) /\ Len(r) = n /\ \A j \in 1..n : r[j] = s[n - j + 1]
  BY DEF Parse, Reverse
<1> HIDE DEF r
<1>2. ASSUME NEW i \in 1..n, s[i].policy = p PROVE LinkedIn(r, p)
  <2>1. n - i + 1 \in 1..n /\ n - (n - i + 1) + 1 = i
    OBVIOUS
  <2>2. r[n - i + 1] = s[n - (n - i + 1) + 1]
    BY <1>1, <2>1
  <2>3. r[n - i + 1].policy = p /\ n - i + 1 \in DOMAIN r
    BY <1>1, <1>2, <2>1, <2>2
  <2> QED
    BY <2>3 DEF LinkedIn
<1>3. ASSUME NEW i \in 1..n, r[i].policy = p PROVE LinkedIn(s, p)
  <2>1. n - i + 1 \in DOMAIN s
    OBVIOUS
  <2>2. s[n - i + 1].policy = p
    BY <1>1, <1>3
  <2> QED
    BY <2>1, <2>2 DEF LinkedIn
<1>4. DOMAIN r = 1..n /\ DOMAIN s = 1..n
  BY <1>1
<1>5. LinkedIn(r, p) <=> LinkedIn(s, p)
  BY <1>2, <1>3, <1>4 DEF LinkedIn
<1> QED
  BY <1>5 DEF r

(* Taking out what was put in gives back the list.                         *)
LEMMA InsertRemove ==
  ASSUME NEW S, NEW s \in Seq(S), NEW e \in S, NEW k \in 1..Len(s) + 1
  PROVE  RemoveAt(InsertAt(s, k, e), k) = s
<1> DEFINE t == InsertAt(s, k, e)
           u == RemoveAt(t, k)
<1>1. /\ t \in Seq(S) /\ Len(t) = Len(s) + 1
      /\ \A j \in 1..Len(s) + 1 : t[j] = IF j < k THEN s[j] ELSE IF j = k THEN e ELSE s[j - 1]
  BY InsertAtIs
<1> HIDE DEF t
<1>2. /\ u \in Seq(S) /\ Len(u) = Len(t) - 1
      /\ \A j \in 1..Len(t) - 1 : u[j] = IF j < k THEN t[j] ELSE t[j + 1]
  <2>1. k \in 1..Len(t)
    BY <1>1
  <2> QED
    BY <1>1, <2>1, RemoveAtIs
<1> HIDE DEF u
<1>3. ASSUME NEW j \in 1..Len(s) PROVE u[j] = s[j]
  <2>1. j \in 1..Len(s) + 1 /\ j + 1 \in 1..Len(s) + 1 /\ (j + 1) - 1 = j /\ j \in 1..Len(t) - 1
    BY <1>1
  <2>2. t[j + 1] = IF j + 1 < k THEN s[j + 1] ELSE IF j + 1 = k THEN e ELSE s[j]
    BY <1>1, <2>1, Zenon
  <2>3. t[j] = IF j < k THEN s[j] ELSE IF j = k THEN e ELSE s[j - 1]
    BY <1>1, <2>1, Zenon
  <2>4. u[j] = IF j < k THEN t[j] ELSE t[j + 1]
    BY <1>2, <2>1, Zenon
  <2> QED
    BY <2>2, <2>3, <2>4
<1>4. u \in Seq(S) /\ Len(u) = Len(s)
  BY <1>1, <1>2
<1>5. u = s
  BY <1>3, <1>4, SeqEqual
<1> QED
  BY <1>5 DEF t, u

(* Where a policy is linked once is where LinkOrder looks for it.          *)
LEMMA OthersIs ==
  ASSUME NEW s \in Seq(Link), LinkedOnce(s), NEW i \in 1..Len(s)
  PROVE  Promise!Others(s, s[i].policy) = RemoveAt(s, i)
<1> DEFINE j == CHOOSE j \in DOMAIN s : s[j].policy = s[i].policy
<1>1. j \in DOMAIN s /\ s[j].policy = s[i].policy
  OBVIOUS
<1> HIDE DEF j
<1>2. j = i
  BY <1>1 DEF LinkedOnce
<1>3. Promise!Others(s, s[i].policy) = RemoveAt(s, j)
  BY DEF Promise!Others, RemoveAt, j
<1> QED
  BY <1>2, <1>3

(* The list an accepted change of a link writes is LinkOrder's Change: the *)
(* other links are in it, in their order.                                  *)
LEMMA ChangedOthers ==
  ASSUME NEW s \in Seq(Link), LinkedOnce(s), NEW o \in Op, Accepted(s, o), o.do = "update"
  PROVE  /\ Len(Changed(s, o)) = Len(s) /\ LinkedIn(Changed(s, o), o.policy)
         /\ Promise!Others(Changed(s, o), o.policy) = Promise!Others(s, o.policy)
<1> DEFINE i == Position(s, o.policy)
           e == [s[i] EXCEPT !.options = (@ \cup o.set) \ o.clear]
           c == [s EXCEPT ![i] = e]
           t == Changed(s, o)
<1>1. LinkedIn(s, o.policy) /\ o.order <= Len(s) /\ o.order \in Nat
  BY DEF Accepted, Op
<1>2. i \in 1..Len(s) /\ s[i].policy = o.policy
  BY <1>1, PositionOf
<1>3. t = IF o.order = 0 THEN c ELSE Move(c, i, o.order)
  BY <1>2 DEF Changed, Updated
<1>4. t \in Seq(Link) /\ LinkedOnce(t)
  BY ChangedOnce
<1> HIDE DEF i, t
<1>5. e \in Link /\ e.policy = s[i].policy
  <2>1. s[i] \in Link
    BY <1>2
  <2> QED
    BY <2>1 DEF Link, Op
<1> HIDE DEF e
<1>6. /\ c \in Seq(Link) /\ Len(c) = Len(s) /\ c[i].policy = o.policy
      /\ \A j \in 1..Len(s) : j # i => c[j] = s[j]
  BY <1>2, <1>5
<1> HIDE DEF c
<1>7. RemoveAt(c, i) = RemoveAt(s, i) /\ RemoveAt(s, i) \in Seq(Link)
      /\ Len(RemoveAt(s, i)) = Len(s) - 1
  <2>1. /\ RemoveAt(s, i) \in Seq(Link) /\ Len(RemoveAt(s, i)) = Len(s) - 1
        /\ \A j \in 1..Len(s) - 1 : RemoveAt(s, i)[j] = IF j < i THEN s[j] ELSE s[j + 1]
    BY <1>2, RemoveAtIs
  <2>2. /\ RemoveAt(c, i) \in Seq(Link) /\ Len(RemoveAt(c, i)) = Len(s) - 1
        /\ \A j \in 1..Len(s) - 1 : RemoveAt(c, i)[j] = IF j < i THEN c[j] ELSE c[j + 1]
    BY <1>2, <1>6, RemoveAtIs
  <2>3. ASSUME NEW j \in 1..Len(s) - 1 PROVE RemoveAt(c, i)[j] = RemoveAt(s, i)[j]
    <3>1. CASE j < i
      BY <1>6, <2>1, <2>2, <3>1
    <3>2. CASE ~(j < i)
      <4>1. j + 1 \in 1..Len(s) /\ j + 1 # i
        BY <1>2, <3>2
      <4> QED
        BY <1>6, <2>1, <2>2, <3>2, <4>1
    <3> QED
      BY <3>1, <3>2
  <2>4. RemoveAt(c, i) = RemoveAt(s, i)
    BY <2>1, <2>2, <2>3, SeqEqual
  <2> QED
    BY <2>1, <2>4
<1>8. Promise!Others(s, o.policy) = RemoveAt(s, i)
  BY <1>2, OthersIs
<1>9. CASE o.order = 0
  <2>1. t = c
    BY <1>3, <1>9
  <2>2. Promise!Others(t, o.policy) = RemoveAt(t, i) /\ LinkedIn(t, o.policy)
    BY <1>2, <1>4, <1>6, <2>1, OthersIs DEF LinkedIn
  <2> QED
    BY <1>6, <1>7, <1>8, <2>1, <2>2 DEF t
<1>10. CASE o.order # 0
  <2> DEFINE q == RemoveAt(s, i)
             k == o.order
  <2>1. t = InsertAt(q, k, c[i])
    BY <1>3, <1>7, <1>10 DEF Move
  <2>2. q \in Seq(Link) /\ Len(q) = Len(s) - 1 /\ c[i] \in Link /\ k \in 1..Len(q) + 1
    BY <1>1, <1>2, <1>6, <1>7, <1>10
  <2> HIDE DEF q, k
  <2>3. Len(t) = Len(s) /\ k \in 1..Len(t) /\ t[k] = c[i]
    BY <2>1, <2>2, InsertAtIs
  <2>4. RemoveAt(t, k) = q
    BY <2>1, <2>2, InsertRemove
  <2>5. Promise!Others(t, o.policy) = RemoveAt(t, k) /\ LinkedIn(t, o.policy)
    BY <1>4, <1>6, <2>3, OthersIs DEF LinkedIn
  <2> QED
    BY <1>8, <2>3, <2>4, <2>5 DEF t, q
<1> QED
  BY <1>9, <1>10

---------------------------------------------------------------------------
(* The inductive invariant.                                                *)

(* Sessions at work are about different containers, and a deletion is      *)
(* alone: what Free grants to an operation lasts until it returns.         *)
ApartInv ==
  \A a, b \in Admin :
    a # b /\ pc[a] # "idle" /\ pc[b] # "idle" =>
      op[a].do # "delete" /\ op[a].container # op[b].container
(* Which operations take which steps.                                      *)
PathInv ==
  \A a \in Admin :
    /\ pc[a] = "target" => op[a].do \in {"add", "delete"}
    /\ pc[a] \in {"read", "write"} => op[a].do # "delete"
    /\ pc[a] \in {"find", "delete"} => op[a].do = "delete"
(* A policy that is about to be linked still exists.                       *)
TargetInv ==
  \A a \in Admin :
    pc[a] \in {"read", "write"} /\ op[a].do = "add" => op[a].policy \in policies
(* The list about to be written is the operation's change of what the      *)
(* attribute still holds.                                                  *)
FreshInv ==
  \A a \in Admin :
    pc[a] = "write" /\ op[a].do # "block" =>
      /\ Accepted(Parse(gplink[op[a].container]), op[a])
      /\ value[a] = Changed(Parse(gplink[op[a].container]), op[a])
(* No link came to a policy after the search for links to it.              *)
UnlinkedInv ==
  \A a \in Admin :
    pc[a] = "delete" =>
      \/ op[a].flag \/ op[a].policy \in waived
      \/ \A c \in Container : ~LinkedIn(gplink[c], op[a].policy)
AloneInv == ApartInv /\ PathInv /\ TargetInv /\ FreshInv /\ UnlinkedInv

(* It holds at the start.                                                  *)
LEMMA AloneInit == Init => AloneInv
<1> SUFFICES ASSUME Init PROVE AloneInv
  OBVIOUS
<1>1. \A a \in Admin : pc[a] = "idle"
  BY DEF Init
<1> QED
  BY <1>1 DEF AloneInv, ApartInv, PathInv, TargetInv, FreshInv, UnlinkedInv

(* A session that returns leaves it to the others, as long as what it      *)
(* changed in the directory is none of theirs.                             *)
LEMMA AloneReturn ==
  ASSUME Inv, AloneInv, NEW a \in Admin, Return(a), waived \subseteq waived',
         \A b \in Admin \ {a} : pc[b] # "idle" =>
           /\ op[b].do = "add" /\ op[b].policy \in policies => op[b].policy \in policies'
           /\ gplink'[op[b].container] = gplink[op[b].container]
           /\ op[b].do = "delete" => gplink' = gplink
  PROVE  AloneInv'
<1>1. /\ pc'[a] = "idle"
      /\ \A b \in Admin \ {a} : pc'[b] = pc[b] /\ op'[b] = op[b] /\ value'[b] = value[b]
  BY DEF Return, Goto, Inv, TypeOK
<1>2. ApartInv'
  BY <1>1 DEF AloneInv, ApartInv
<1>3. PathInv'
  BY <1>1 DEF AloneInv, PathInv
<1>4. TargetInv'
  BY <1>1 DEF AloneInv, TargetInv
<1>5. FreshInv'
  BY <1>1 DEF AloneInv, FreshInv
<1>6. UnlinkedInv'
  <2> SUFFICES ASSUME NEW b \in Admin, pc'[b] = "delete"
               PROVE  \/ op'[b].flag \/ op'[b].policy \in waived'
                      \/ \A c \in Container : ~LinkedIn(gplink'[c], op'[b].policy)
    BY DEF UnlinkedInv
  <2>1. b # a /\ pc[b] = "delete" /\ op'[b] = op[b]
    BY <1>1
  <2>2. op[b].do = "delete"
    BY <2>1 DEF AloneInv, PathInv
  <2>3. gplink' = gplink
    BY <2>1, <2>2
  <2> QED
    BY <2>1, <2>3 DEF AloneInv, UnlinkedInv
<1> QED
  BY <1>2, <1>3, <1>4, <1>5, <1>6 DEF AloneInv

(* A session that goes on keeps it when the invariant holds of itself.     *)
LEMMA AloneGoto ==
  ASSUME Inv, AloneInv, NEW a \in Admin, pc[a] # "idle", NEW l, Goto(a, l),
         UNCHANGED <<directoryVars, op>>, waived \subseteq waived',
         \A b \in Admin \ {a} : value'[b] = value[b],
         l = "read" \/ l = "write" => op[a].do # "delete",
         l = "find" \/ l = "delete" => op[a].do = "delete",
         l # "target",
         (l = "read" \/ l = "write") /\ op[a].do = "add" => op[a].policy \in policies,
         l = "write" /\ op[a].do # "block" =>
           /\ Accepted(Parse(gplink[op[a].container]), op[a])
           /\ value'[a] = Changed(Parse(gplink[op[a].container]), op[a]),
         l = "delete" =>
           \/ op[a].flag \/ op[a].policy \in waived'
           \/ \A c \in Container : ~LinkedIn(gplink[c], op[a].policy)
  PROVE  AloneInv'
<1>1. pc'[a] = l /\ \A b \in Admin \ {a} : pc'[b] = pc[b]
  BY DEF Goto, Inv, TypeOK
<1>2. op' = op /\ gplink' = gplink /\ policies' = policies
  BY DEF directoryVars
<1>3. ApartInv'
  BY <1>1, <1>2 DEF AloneInv, ApartInv
<1>4. PathInv'
  BY <1>1, <1>2 DEF AloneInv, PathInv
<1>5. TargetInv'
  BY <1>1, <1>2 DEF AloneInv, TargetInv
<1>6. FreshInv'
  BY <1>1, <1>2 DEF AloneInv, FreshInv
<1>7. UnlinkedInv'
  BY <1>1, <1>2 DEF AloneInv, UnlinkedInv
<1> QED
  BY <1>3, <1>4, <1>5, <1>6, <1>7 DEF AloneInv

(* Every step of every session keeps it, if operations do not overlap.     *)
LEMMA AloneNext ==
  ASSUME Overlapping = FALSE
  PROVE  Inv /\ AloneInv /\ [Next]_vars => AloneInv'
<1> SUFFICES ASSUME Inv, AloneInv, [Next]_vars PROVE AloneInv'
  OBVIOUS
<1>1. ASSUME NEW a \in Admin, NEW o \in Asked, Begin(a, o) PROVE AloneInv'
  <2>1. /\ pc[a] = "idle" /\ UNCHANGED <<directoryVars, value, waived>>
        /\ op'[a] = o /\ \A b \in Admin \ {a} : op'[b] = op[b]
    BY <1>1 DEF Begin, Inv, TypeOK
  <2>2. /\ pc'[a] = IF o.do \in {"add", "delete"} THEN "target" ELSE "read"
        /\ \A b \in Admin \ {a} : pc'[b] = pc[b]
    BY <1>1 DEF Begin, Goto, Inv, TypeOK
  <2>3. \A b \in Admin \ {a} : pc[b] # "idle" =>
          o.do # "delete" /\ op[b].do # "delete" /\ o.container # op[b].container
    BY <1>1 DEF Begin, Free
  <2>4. gplink' = gplink /\ policies' = policies /\ waived' = waived /\ value' = value
    BY <2>1 DEF directoryVars
  <2>5. ApartInv'
    BY <2>1, <2>2, <2>3 DEF AloneInv, ApartInv
  <2>6. PathInv'
    BY <2>1, <2>2 DEF AloneInv, PathInv
  <2>7. TargetInv'
    BY <2>1, <2>2, <2>4 DEF AloneInv, TargetInv
  <2>8. FreshInv'
    BY <2>1, <2>2, <2>4 DEF AloneInv, FreshInv
  <2>9. UnlinkedInv'
    BY <2>1, <2>2, <2>4 DEF AloneInv, UnlinkedInv
  <2> QED
    BY <2>5, <2>6, <2>7, <2>8, <2>9 DEF AloneInv
<1>2. ASSUME NEW a \in Admin, Target(a) PROVE AloneInv'
  <2>1. pc[a] = "target" /\ UNCHANGED <<directoryVars, ops, waived>>
    BY <1>2 DEF Target
  <2>2. CASE Return(a)
    BY <2>1, <2>2, AloneReturn DEF directoryVars
  <2>3. CASE ~Return(a)
    <3>1. /\ op[a].policy \in policies /\ UNCHANGED <<op, value>>
          /\ Goto(a, IF op[a].do = "add" THEN "read" ELSE "find")
      BY <1>2, <2>3 DEF Target
    <3>2. op[a].do \in {"add", "delete"}
      BY <2>1 DEF AloneInv, PathInv
    <3> QED
      BY <2>1, <3>1, <3>2, AloneGoto
  <2> QED
    BY <2>2, <2>3
<1>3. ASSUME NEW a \in Admin, Read(a) PROVE AloneInv'
  <2>1. pc[a] = "read" /\ UNCHANGED <<directoryVars, ops, waived>>
    BY <1>3 DEF Read
  <2>2. /\ op[a].do # "delete"
        /\ op[a].do = "add" => op[a].policy \in policies
    BY <2>1 DEF AloneInv, PathInv, TargetInv
  <2>3. CASE Return(a)
    BY <2>1, <2>3, AloneReturn DEF directoryVars
  <2>4. CASE ~Return(a) /\ op[a].do = "block"
    BY <1>3, <2>1, <2>2, <2>4, AloneGoto DEF Read
  <2>5. CASE ~Return(a) /\ op[a].do # "block"
    <3> DEFINE links == Parse(gplink[op[a].container])
    <3>1. /\ Accepted(links, op[a]) /\ Goto(a, "write") /\ op' = op
          /\ value' = [value EXCEPT ![a] = Changed(links, op[a])]
      BY <1>3, <2>5 DEF Read
    <3> HIDE DEF links
    <3>2. value'[a] = Changed(links, op[a]) /\ \A b \in Admin \ {a} : value'[b] = value[b]
      BY <3>1 DEF Inv, TypeOK
    <3>3. UNCHANGED <<directoryVars, op>> /\ waived \subseteq waived'
      BY <2>1, <3>1
    <3> QED
      BY <2>1, <2>2, <3>1, <3>2, <3>3, AloneGoto DEF links
  <2> QED
    BY <2>3, <2>4, <2>5
<1>4. ASSUME NEW a \in Admin, Write(a) PROVE AloneInv'
  <2>1. pc[a] = "write" /\ Return(a) /\ policies' = policies /\ waived' = waived
    BY <1>4 DEF Write
  <2>2. \A c \in Container \ {op[a].container} : gplink'[c] = gplink[c]
    BY <1>4 DEF Write, Inv, TypeOK
  <2>3. ASSUME NEW b \in Admin \ {a}, pc[b] # "idle"
        PROVE  op[b].container \in Container \ {op[a].container} /\ op[b].do # "delete"
    <3>1. op[b].container # op[a].container /\ op[b].do # "delete"
      BY <2>1, <2>3 DEF AloneInv, ApartInv
    <3>2. op[b] \in Op
      BY <2>3 DEF Inv, TypeOK
    <3> QED
      BY <3>1, <3>2 DEF Op
  <2> QED
    BY <2>1, <2>2, <2>3, AloneReturn
<1>5. ASSUME NEW a \in Admin, Find(a) PROVE AloneInv'
  <2>1. pc[a] = "find" /\ UNCHANGED <<directoryVars, ops>> /\ waived \subseteq waived'
    BY <1>5 DEF Find
  <2>2. op[a].do = "delete"
    BY <2>1 DEF AloneInv, PathInv
  <2>3. CASE Return(a)
    BY <2>1, <2>3, AloneReturn DEF directoryVars
  <2>4. CASE ~Return(a)
    <3>1. PICK failed \in SUBSET Container :
            /\ Found(op[a].policy, failed) = {} \/ op[a].flag
            /\ waived' = IF failed = {} THEN waived ELSE waived \cup {op[a].policy}
      BY <1>5, <2>4, ConstantsAssumption DEF Find
    <3>2. Goto(a, "delete") /\ UNCHANGED <<op, value>>
      BY <1>5, <2>4 DEF Find
    <3>3. \/ op[a].flag \/ op[a].policy \in waived'
          \/ \A c \in Container : ~LinkedIn(gplink[c], op[a].policy)
      BY <3>1 DEF Found
    <3> QED
      BY <2>1, <2>2, <3>2, <3>3, AloneGoto
  <2> QED
    BY <2>3, <2>4
<1>6. ASSUME NEW a \in Admin, Delete(a) PROVE AloneInv'
  <2>1. /\ pc[a] = "delete" /\ Return(a) /\ gplink' = gplink /\ waived \subseteq waived'
    BY <1>6 DEF Delete
  <2>2. op[a].do = "delete"
    BY <2>1 DEF AloneInv, PathInv
  <2>3. \A b \in Admin \ {a} : pc[b] = "idle"
    BY <2>1, <2>2 DEF AloneInv, ApartInv
  <2> QED
    BY <2>1, <2>3, AloneReturn
<1>7. CASE UNCHANGED vars
  BY <1>7 DEF vars, directoryVars, AloneInv, ApartInv, PathInv, TargetInv, FreshInv, UnlinkedInv
<1> QED
  BY <1>1, <1>2, <1>3, <1>4, <1>5, <1>6, <1>7 DEF Next, Step

---------------------------------------------------------------------------
(* The refinement: the first states map to first states, each step to a    *)
(* step of LinkOrder or to a stutter.                                      *)
Shown == [c \in Container |-> Parse(gplink[c])]

(* What is given to start from is an order of precedence.                  *)
LEMMA PromiseInit == Init => Promise!Init
<1> SUFFICES ASSUME Init PROVE Promise!Init
  OBVIOUS
<1>1. Inv
  BY InitInv
<1>2. ASSUME NEW c \in Container
      PROVE  Parse(gplink[c]) \in Seq(Link) /\ LinkedOnce(Parse(gplink[c]))
  BY <1>1, ReverseOnce DEF Inv, TypeOK, ListInv, Parse
<1>3. Shown \in [Container -> Seq(Link)]
  BY <1>2 DEF Shown
<1>4. \A c \in Container : LinkedOnce(Shown[c])
  BY <1>2 DEF Shown
<1>5. waived = {} /\ policies \subseteq Policy /\ blocked \subseteq Container
  BY DEF Init
<1> QED
  BY <1>3, <1>4, <1>5 DEF Promise!Init, LinkedOnce, Shown

(* The write of a list is the operation on the order that was asked for.   *)
LEMMA WritePromise ==
  ASSUME Inv, AloneInv, NEW a \in Admin, Write(a)
  PROVE  Promise!Next
<1>1. pc[a] = "write" /\ op[a] \in Op /\ policies' = policies /\ waived' = waived
  BY DEF Write, Inv, TypeOK
<1>2. PICK o \in Op, c \in Container, p \in Policy :
        o = op[a] /\ c = o.container /\ p = o.policy
  BY <1>1 DEF Op
<1> DEFINE links == Parse(gplink[c])
<1>3. gplink[c] \in Seq(Link) /\ LinkedOnce(gplink[c])
  BY DEF Inv, TypeOK, ListInv
<1>4. CASE o.do = "block"
  <2>1. blocked' \in {blocked \cup {c}, blocked \ {c}} /\ gplink' = gplink
    BY <1>2, <1>4 DEF Write
  <2>2. Promise!Block(c)
    BY <1>1, <2>1 DEF Promise!Block
  <2> QED
    BY <1>2, <2>2 DEF Promise!Next
<1>5. CASE o.do # "block"
  <2>1. /\ gplink' = [gplink EXCEPT ![c] = Format(value[a])] /\ blocked' = blocked
    BY <1>2, <1>5 DEF Write
  <2>2. Accepted(links, o) /\ value[a] = Changed(links, o) /\ o.do # "delete"
    BY <1>1, <1>2, <1>5 DEF AloneInv, FreshInv, PathInv
  <2>3. links \in Seq(Link) /\ LinkedOnce(links)
    BY <1>3, ReverseOnce DEF Parse
  <2>4. Changed(links, o) \in Seq(Link) /\ LinkedOnce(Changed(links, o))
    BY <1>1, <2>2, <2>3, ChangedOnce
  <2>5. Parse(gplink'[c]) = Changed(links, o)
    <3>1. gplink'[c] = Format(Changed(links, o))
      BY <1>2, <2>1, <2>2 DEF Inv, TypeOK
    <3> QED
      BY <2>4, <3>1, ParseFormat
  <2>6. Shown' = [Shown EXCEPT ![c] = Changed(links, o)]
    <3>1. \A d \in Container \ {c} : gplink'[d] = gplink[d]
      BY <2>1 DEF Inv, TypeOK
    <3> HIDE DEF links
    <3> QED
      BY <1>2, <2>5, <3>1 DEF Shown
  <2>7. Shown[c] = links /\ DOMAIN Shown = Container /\ Shown'[c] = Changed(links, o)
        /\ \A d \in Container \ {c} : Shown'[d] = Shown[d]
    <3>1. Shown[c] = links /\ DOMAIN Shown = Container
      BY <1>2 DEF Shown
    <3> HIDE DEF links
    <3> QED
      BY <1>2, <2>6, <3>1
  <2> HIDE DEF links
  <2>8. CASE o.do = "add"
    <3> DEFINE link == [policy |-> o.policy, options |-> o.set]
    <3>1. link \in Link /\ link.policy \in policies
      BY <1>1, <1>2, <2>8 DEF Op, Link, AloneInv, TargetInv
    <3>2. Changed(links, o) = <<link>> \o links /\ ~LinkedIn(links, link.policy)
      BY <2>2, <2>8 DEF Changed, Accepted
    <3> HIDE DEF link
    <3>3. Promise!Insert(c, link)
      BY <1>1, <2>1, <2>6, <2>7, <3>1, <3>2
      DEF Promise!Insert, Promise!Linked, LinkedIn, Shown
    <3> QED
      BY <1>2, <3>1, <3>3 DEF Promise!Next
  <2>9. CASE o.do = "update"
    <3>1. /\ Len(Changed(links, o)) = Len(links) /\ LinkedIn(Changed(links, o), p)
          /\ Promise!Others(Changed(links, o), p) = Promise!Others(links, p)
      BY <1>2, <2>2, <2>3, <2>9, ChangedOthers
    <3>2. LinkedIn(links, p)
      BY <1>2, <2>2, <2>9 DEF Accepted
    <3>3. Promise!Linked(c, p) /\ Promise!Linked(c, p)'
      BY <2>7, <3>1, <3>2 DEF Promise!Linked, LinkedIn, Shown
    <3>4. Len(Shown'[c]) = Len(Shown[c]) /\ Promise!Others(Shown'[c], p) = Promise!Others(Shown[c], p)
      BY <2>7, <3>1
    <3>5. Promise!Change(c, p)
      BY <1>1, <2>1, <2>7, <3>3, <3>4 DEF Promise!Change, Shown
    <3> QED
      BY <1>2, <3>5 DEF Promise!Next
  <2>10. CASE o.do = "remove"
    <3>1. LinkedIn(links, p) /\ Changed(links, o) = RemoveAt(links, Position(links, p))
      BY <1>2, <2>2, <2>10 DEF Accepted, Changed
    <3>2. Changed(links, o) = Promise!Others(links, p)
      <4>1. /\ Position(links, p) \in 1..Len(links)
            /\ links[Position(links, p)].policy = p
        BY <2>3, <3>1, PositionOf
      <4>2. Promise!Others(links, p) = RemoveAt(links, Position(links, p))
        BY <2>3, <4>1, OthersIs
      <4> QED
        BY <3>1, <4>2
    <3>3. Promise!Remove(c, p)
      BY <1>1, <2>1, <2>6, <2>7, <3>1, <3>2 DEF Promise!Remove, Promise!Linked, LinkedIn, Shown
    <3> QED
      BY <1>2, <3>3 DEF Promise!Next
  <2> QED
    BY <1>5, <2>2, <2>8, <2>9, <2>10 DEF Op
<1> QED
  BY <1>4, <1>5

(* Every step of every session is a step of LinkOrder or a stutter.        *)
LEMMA PromiseNext == Inv /\ AloneInv /\ [Next]_vars => [Promise!Next]_Promise!vars
<1> SUFFICES ASSUME Inv, AloneInv, [Next]_vars PROVE [Promise!Next]_Promise!vars
  OBVIOUS
<1>1. ASSUME NEW a \in Admin, NEW o \in Asked, Begin(a, o) PROVE UNCHANGED Promise!vars
  BY <1>1 DEF Begin, directoryVars, Promise!vars
<1>2. ASSUME NEW a \in Admin, Target(a) PROVE UNCHANGED Promise!vars
  BY <1>2 DEF Target, directoryVars, Promise!vars
<1>3. ASSUME NEW a \in Admin, Read(a) PROVE UNCHANGED Promise!vars
  BY <1>3 DEF Read, directoryVars, Promise!vars
<1>4. ASSUME NEW a \in Admin, Write(a) PROVE Promise!Next
  BY <1>4, WritePromise
<1>5. ASSUME NEW a \in Admin, Find(a) PROVE Promise!Next \/ UNCHANGED Promise!vars
  <2>1. UNCHANGED directoryVars /\ waived' \in {waived, waived \cup {op[a].policy}}
    BY <1>5 DEF Find
  <2>2. op[a].policy \in Policy
    BY <1>5 DEF Find, Inv, TypeOK, Op
  <2>3. CASE waived' = waived
    BY <2>1, <2>3 DEF directoryVars, Promise!vars
  <2>4. CASE waived' # waived
    <3>1. Promise!Waive(op[a].policy)
      BY <2>1, <2>4 DEF Promise!Waive, directoryVars
    <3> QED
      BY <2>2, <3>1 DEF Promise!Next
  <2> QED
    BY <2>3, <2>4
<1>6. ASSUME NEW a \in Admin, Delete(a) PROVE Promise!Next
  <2> DEFINE p == op[a].policy
  <2>1. /\ pc[a] = "delete" /\ UNCHANGED <<gplink, blocked>> /\ policies' = policies \ {p}
        /\ waived' = IF op[a].flag THEN waived \cup {p} ELSE waived
    BY <1>6 DEF Delete
  <2>2. p \in Policy
    BY <2>1 DEF Inv, TypeOK, Op
  <2>3. p \in waived' \/ \A c \in Container : ~LinkedIn(gplink[c], p)
    BY <2>1 DEF AloneInv, UnlinkedInv
  <2>4. \A c \in Container : LinkedIn(Shown[c], p) <=> LinkedIn(gplink[c], p)
    BY LinkedParse DEF Shown, Inv, TypeOK
  <2> HIDE DEF p
  <2>5. Promise!Delete(p)
    BY <2>1, <2>3, <2>4 DEF Promise!Delete, Promise!Linked, LinkedIn, Shown
  <2> QED
    BY <2>2, <2>5 DEF Promise!Next
<1>7. CASE UNCHANGED vars
  BY <1>7 DEF vars, directoryVars, Promise!vars
<1> QED
  BY <1>1, <1>2, <1>3, <1>4, <1>5, <1>6, <1>7 DEF Next, Step

(* As long as operations do not overlap, the sessions' reads and writes of *)
(* whole attributes, and the reversal between the attribute and the list,  *)
(* do one operation on an order of precedence at a time: the other links,  *)
(* their options and their order survive, and a policy goes only unlinked, *)
(* by force, or when a partition could not be searched.                    *)
THEOREM ImplementsOrderHolds ==
  ASSUME Overlapping = FALSE
  PROVE  Spec => ImplementsOrder
<1>1. Inv /\ AloneInv /\ [Next]_vars => AloneInv'
  BY AloneNext
<1> QED
  BY Invariant, AloneInit, <1>1, PromiseInit, PromiseNext, PTL
  DEF Spec, ImplementsOrder, Promise!Spec

---------------------------------------------------------------------------
(* Flattening                                                              *)

(* g is what is put together of the first i of k sequences, at every i.    *)
Flattens(g, s, k) ==
  /\ g = [i \in 1..k |-> g[i]]
  /\ \A i \in 1..k : g[i] = IF i = 1 THEN s[i] ELSE g[i - 1] \o s[i]

LEMMA FlattensExists ==
  ASSUME NEW s, Len(s) \in Nat
  PROVE  \E g : Flattens(g, s, Len(s))
<1> DEFINE T == {k \in Nat : \E g : Flattens(g, s, k)}
<1>1. 0 \in T
  <2>1. Flattens([i \in 1..0 |-> 0], s, 0)
    BY DEF Flattens
  <2> QED
    BY <2>1
<1>2. ASSUME NEW k \in Nat, k \in T PROVE k + 1 \in T
  <2>1. PICK g : Flattens(g, s, k)
    BY <1>2
  <2>2. PICK last : last = IF k + 1 = 1 THEN s[k + 1] ELSE g[k] \o s[k + 1]
    OBVIOUS
  <2>3. PICK h : h = [i \in 1..(k + 1) |-> IF i = k + 1 THEN last ELSE g[i]]
    OBVIOUS
  <2>4. h[k + 1] = last /\ \A i \in 1..k : h[i] = g[i]
    BY <2>3
  <2>5. h = [i \in 1..(k + 1) |-> h[i]]
    BY <2>3
  <2>6. ASSUME NEW i \in 1..(k + 1)
        PROVE  h[i] = IF i = 1 THEN s[i] ELSE h[i - 1] \o s[i]
    <3>1. CASE i = k + 1
      <4>1. CASE i = 1
        BY <2>2, <2>4, <3>1, <4>1
      <4>2. CASE i # 1
        <5>1. i - 1 = k /\ k \in 1..k /\ k + 1 # 1
          BY <3>1, <4>2
        <5> QED
          BY <2>2, <2>4, <3>1, <4>2, <5>1
      <4> QED
        BY <4>1, <4>2
    <3>2. CASE i # k + 1
      <4>1. i \in 1..k /\ (i # 1 => i - 1 \in 1..k)
        BY <3>2
      <4>2. g[i] = IF i = 1 THEN s[i] ELSE g[i - 1] \o s[i]
        BY <2>1, <4>1 DEF Flattens
      <4> QED
        BY <2>4, <4>1, <4>2
    <3> QED
      BY <3>1, <3>2
  <2>7. Flattens(h, s, k + 1)
    BY <2>5, <2>6 DEF Flattens
  <2> QED
    BY <2>7
<1>3. Nat \subseteq T
  <2> HIDE DEF T
  <2> QED
    BY <1>1, <1>2, NatInd
<1> QED
  BY <1>3

LEMMA FlattenIs ==
  ASSUME NEW s, Len(s) \in Nat \ {0}
  PROVE  \E g : Flattens(g, s, Len(s)) /\ FlattenSeq(s) = g[Len(s)]
<1> DEFINE Is(f) == f = [i \in 1..Len(s) |-> IF i = 1 THEN s[i] ELSE f[i - 1] \o s[i]]
<1>1. PICK h : Flattens(h, s, Len(s))
  BY FlattensExists
<1>2. Is(h)
  <2> DEFINE r == [i \in 1..Len(s) |-> IF i = 1 THEN s[i] ELSE h[i - 1] \o s[i]]
  <2>1. \A i \in 1..Len(s) : r[i] = h[i]
    BY <1>1 DEF Flattens
  <2>2. r = [i \in 1..Len(s) |-> r[i]]
    OBVIOUS
  <2>3. h = [i \in 1..Len(s) |-> h[i]]
    BY <1>1 DEF Flattens
  <2> HIDE DEF r
  <2>4. r = h
    BY <2>1, <2>2, <2>3
  <2> QED
    BY <2>4 DEF r
<1>3. PICK g : g = (CHOOSE f : Is(f))
  OBVIOUS
<1>4. Is(g)
  <2> HIDE DEF Is
  <2> QED
    BY <1>2, <1>3
<1>5. Flattens(g, s, Len(s))
  <2>1. \A i \in 1..Len(s) : g[i] = IF i = 1 THEN s[i] ELSE g[i - 1] \o s[i]
    BY <1>4
  <2>2. g = [i \in 1..Len(s) |-> g[i]]
    BY <1>4
  <2> HIDE DEF Is
  <2> QED
    BY <2>1, <2>2 DEF Flattens
<1>6. FlattenSeq(s) = g[Len(s)]
  BY <1>3 DEF FlattenSeq
<1> QED
  BY <1>5, <1>6

---------------------------------------------------------------------------
(* The way up from a container.                                            *)
(* g is the way up from every container of D.                              *)
WaysUp(g, D) ==
  /\ g = [c \in D |-> g[c]]
  /\ \A c \in D : g[c] = IF Parent[c] = None THEN <<c>> ELSE Append(g[Parent[c]], c)

(* The containers of a depth less than k.                                  *)
Upto(depth, k) == {c \in Container : depth[c] < k}

LEMMA PathIs ==
  /\ PathTo = [c \in Container |-> PathTo[c]]
  /\ \A c \in Container : PathTo[c] = IF Parent[c] = None THEN <<c>> ELSE Append(PathTo[Parent[c]], c)
<1>1. PICK depth \in [Container -> 0..Cardinality(Container)] :
        \A c \in Container : Parent[c] # None => depth[Parent[c]] < depth[c]
  BY ParentAssumption
<1>2. Cardinality(Container) \in Nat
  BY ParentAssumption, FS_CardinalityType
<1>3. \A c \in Container : Parent[c] = None \/ Parent[c] \in Container
  BY ConstantsAssumption
<1> DEFINE T == {k \in Nat : \E g : WaysUp(g, Upto(depth, k))}
<1>4. 0 \in T
  <2>1. Upto(depth, 0) = {}
    BY <1>2 DEF Upto
  <2>2. WaysUp([c \in Upto(depth, 0) |-> 0], Upto(depth, 0))
    BY <2>1 DEF WaysUp
  <2> QED
    BY <2>2
<1>5. ASSUME NEW k \in Nat, k \in T PROVE k + 1 \in T
  <2>1. PICK g : WaysUp(g, Upto(depth, k))
    BY <1>5
  <2>2. PICK h : h = [c \in Upto(depth, k + 1) |-> IF Parent[c] = None THEN <<c>> ELSE Append(g[Parent[c]], c)]
    OBVIOUS
  <2>3. \A c \in Upto(depth, k) : c \in Upto(depth, k + 1)
    BY <1>2 DEF Upto
  <2>4. \A c \in Upto(depth, k) : h[c] = g[c]
    BY <2>1, <2>2, <2>3 DEF WaysUp
  <2>5. \A c \in Upto(depth, k + 1) : Parent[c] # None => Parent[c] \in Upto(depth, k)
    BY <1>1, <1>2, <1>3 DEF Upto
  <2>6. \A c \in Upto(depth, k + 1) : h[c] = IF Parent[c] = None THEN <<c>> ELSE Append(h[Parent[c]], c)
    BY <2>2, <2>4, <2>5
  <2>7. h = [c \in Upto(depth, k + 1) |-> h[c]]
    BY <2>2
  <2>8. WaysUp(h, Upto(depth, k + 1))
    BY <2>6, <2>7 DEF WaysUp
  <2> QED
    BY <2>8
<1>6. Nat \subseteq T
  <2> HIDE DEF T
  <2> QED
    BY <1>4, <1>5, NatInd
<1>7. PICK h : WaysUp(h, Upto(depth, Cardinality(Container) + 1))
  <2>1. PICK n \in Nat : n = Cardinality(Container) + 1
    BY <1>2
  <2>2. n \in T
    BY <1>6, <2>1
  <2> QED
    BY <2>1, <2>2
<1>8. Upto(depth, Cardinality(Container) + 1) = Container
  BY <1>1, <1>2 DEF Upto
<1> DEFINE Is(f) == f = [c \in Container |-> IF Parent[c] = None THEN <<c>> ELSE Append(f[Parent[c]], c)]
<1>9. Is(h)
  BY <1>7, <1>8 DEF WaysUp
<1>10. Is(PathTo)
  <2> HIDE DEF Is
  <2>1. PathTo = CHOOSE f : Is(f)
    BY DEF PathTo, Is
  <2> QED
    BY <1>9, <2>1
<1>11. PICK p : p = PathTo
  OBVIOUS
<1>12. p = [c \in Container |-> IF Parent[c] = None THEN <<c>> ELSE Append(p[Parent[c]], c)]
  BY <1>10, <1>11
<1>13. p = [c \in Container |-> p[c]] /\ \A c \in Container : p[c] = IF Parent[c] = None THEN <<c>> ELSE Append(p[Parent[c]], c)
  BY ONLY <1>12
<1> QED
  BY <1>11, <1>13

LEMMA PathSound ==
  \A c \in Container : PathTo[c] \in Seq(Container) /\ Len(PathTo[c]) > 0
<1>1. PICK depth \in [Container -> 0..Cardinality(Container)] :
        \A c \in Container : Parent[c] # None => depth[Parent[c]] < depth[c]
  BY ParentAssumption
<1>2. Cardinality(Container) \in Nat
  BY ParentAssumption, FS_CardinalityType
<1>3. \A c \in Container : Parent[c] = None \/ Parent[c] \in Container
  BY ConstantsAssumption
<1> DEFINE Good(c) == PathTo[c] \in Seq(Container) /\ Len(PathTo[c]) > 0
           T == {k \in Nat : \A c \in Container : depth[c] < k => Good(c)}
<1>4. 0 \in T
  BY <1>2
<1>5. ASSUME NEW k \in Nat, k \in T PROVE k + 1 \in T
  <2> SUFFICES ASSUME NEW c \in Container, depth[c] < k + 1 PROVE Good(c)
    OBVIOUS
  <2>1. CASE Parent[c] = None
    <3>1. PathTo[c] = <<c>>
      BY <2>1, PathIs
    <3> QED
      BY <3>1
  <2>2. CASE Parent[c] # None
    <3>1. Parent[c] \in Container /\ depth[Parent[c]] < k
      BY <1>1, <1>2, <1>3, <2>2
    <3>2. Good(Parent[c])
      BY <1>5, <3>1
    <3>3. PathTo[c] = Append(PathTo[Parent[c]], c)
      BY <2>2, PathIs
    <3> QED
      BY <3>2, <3>3
  <2> QED
    BY <2>1, <2>2
<1>6. Nat \subseteq T
  <2> HIDE DEF T
  <2> QED
    BY <1>4, <1>5, NatInd
<1>7. \A c \in Container : depth[c] < Cardinality(Container) + 1
  BY <1>1, <1>2
<1> QED
  BY <1>2, <1>6, <1>7

---------------------------------------------------------------------------
(* What is met on the way down, in the order of depth.                     *)
Item == [link : Link, order : Nat, depth : Nat]
ByDepth(t, m) ==
  /\ t \in Seq(Item)
  /\ \A i \in 1..Len(t) : t[i].depth \in 1..m
  /\ \A i, j \in 1..Len(t) : i < j => t[i].depth <= t[j].depth

LEMMA ByDepthNext ==
  ASSUME NEW m \in Nat, NEW s, NEW t, ByDepth(s, m), t \in Seq(Item), \A i \in 1..Len(t) : t[i].depth = m + 1
  PROVE  ByDepth(s \o t, m + 1)
<1>1. s \in Seq(Item) /\ Len(s) \in Nat /\ Len(t) \in Nat
  BY DEF ByDepth
<1>2. PICK u : u = s \o t
  OBVIOUS
<1>3. /\ u \in Seq(Item) /\ Len(u) = Len(s) + Len(t)
      /\ \A i \in 1..Len(s) + Len(t) : u[i] = IF i <= Len(s) THEN s[i] ELSE t[i - Len(s)]
  BY <1>1, <1>2, ConcatProperties
<1>4. ASSUME NEW i \in 1..Len(u)
      PROVE  IF i <= Len(s) THEN i \in 1..Len(s) /\ u[i] = s[i] ELSE u[i].depth = m + 1
  <2>1. CASE i <= Len(s)
    BY <1>1, <1>3, <2>1
  <2>2. CASE ~(i <= Len(s))
    <3>1. i - Len(s) \in 1..Len(t) /\ u[i] = t[i - Len(s)]
      BY <1>1, <1>3, <2>2
    <3> QED
      BY <2>2, <3>1
  <2> QED
    BY <2>1, <2>2
<1>5. ASSUME NEW i \in 1..Len(u) PROVE u[i].depth \in 1..(m + 1)
  BY <1>4, <1>5 DEF ByDepth
<1>6. ASSUME NEW i \in 1..Len(u), NEW j \in 1..Len(u), i < j PROVE u[i].depth <= u[j].depth
  <2>1. CASE j <= Len(s)
    <3>1. i \in 1..Len(s) /\ j \in 1..Len(s) /\ i <= Len(s)
      BY <1>1, <1>3, <1>6, <2>1
    <3>2. u[i] = s[i] /\ u[j] = s[j]
      BY <1>4, <2>1, <3>1
    <3> QED
      BY <1>6, <3>1, <3>2 DEF ByDepth
  <2>2. CASE ~(j <= Len(s))
    <3>1. u[j].depth = m + 1
      BY <1>4, <2>2
    <3>2. u[i].depth \in 1..(m + 1)
      BY <1>5
    <3> QED
      BY <3>1, <3>2
  <2> QED
    BY <2>1, <2>2
<1> QED
  BY <1>2, <1>3, <1>5, <1>6 DEF ByDepth

LEMMA ItemsSound ==
  ASSUME TypeOK, NEW c \in Container
  PROVE  ByDepth(Items(c), Len(PathTo[c]))
<1>1. PICK path : path = PathTo[c]
  OBVIOUS
<1>2. path \in Seq(Container) /\ Len(path) > 0 /\ Len(path) \in Nat /\ DOMAIN path = 1..Len(path)
  BY <1>1, PathSound
<1> DEFINE Entries(d) == LET links == Parse(gplink[path[d]])
                    IN [i \in DOMAIN links |-> [link |-> links[i], order |-> i, depth |-> d]]
<1>3. PICK s : s = [d \in DOMAIN path |-> Entries(d)]
  OBVIOUS
<1>4. Items(c) = FlattenSeq(s)
  BY <1>1, <1>3 DEF Items
<1>5. Len(s) = Len(path)
  BY <1>2, <1>3
<1>6. ASSUME NEW d \in 1..Len(path)
      PROVE  s[d] \in Seq(Item) /\ \A i \in 1..Len(s[d]) : s[d][i].depth = d
  <2>1. PICK links : links = Parse(gplink[path[d]])
    OBVIOUS
  <2>2. links \in Seq(Link)
    <3>1. gplink[path[d]] \in Seq(Link)
      BY <1>2 DEF TypeOK
    <3> QED
      BY <2>1, <3>1 DEF Parse, Reverse
  <2>3. s[d] = [i \in DOMAIN links |-> [link |-> links[i], order |-> i, depth |-> d]]
    BY <1>2, <1>3, <2>1
  <2>4. PICK t : t = s[d]
    OBVIOUS
  <2>5. Len(links) \in Nat /\ DOMAIN links = 1..Len(links) /\ \A i \in 1..Len(links) : links[i] \in Link
    BY <2>2
  <2>6. \A i \in 1..Len(links) : [link |-> links[i], order |-> i, depth |-> d] \in Item
    BY <2>5 DEF Item
  <2>7. t \in [1..Len(links) -> Item] /\ \A i \in 1..Len(links) : t[i].depth = d
    BY <2>3, <2>4, <2>5, <2>6
  <2>8. t \in Seq(Item) /\ Len(t) = Len(links)
    BY ONLY <2>5, <2>7
  <2> QED
    BY <2>4, <2>7, <2>8
<1>7. PICK g : Flattens(g, s, Len(s)) /\ FlattenSeq(s) = g[Len(s)]
  BY <1>2, <1>5, FlattenIs
<1> DEFINE T == {m \in Nat : m + 1 <= Len(path) => ByDepth(g[m + 1], m + 1)}
<1>8. 0 \in T
  <2>1. g[1] = s[1]
    <3>1. 1 \in 1..Len(s)
      BY <1>2, <1>5
    <3> QED
      BY <1>7, <3>1 DEF Flattens
  <2>2. 1 \in 1..Len(path)
    BY <1>2
  <2>3. PICK t : t = s[1]
    OBVIOUS
  <2>4. t \in Seq(Item) /\ \A i \in 1..Len(t) : t[i].depth = 1
    BY <1>6, <2>2, <2>3
  <2>5. ByDepth(t, 1)
    BY <2>4 DEF ByDepth
  <2> QED
    BY <2>1, <2>3, <2>5
<1>9. ASSUME NEW m \in Nat, m \in T PROVE m + 1 \in T
  <2> SUFFICES ASSUME m + 2 <= Len(path) PROVE ByDepth(g[m + 2], m + 2)
    OBVIOUS
  <2>1. m + 2 \in 1..Len(path) /\ m + 2 # 1 /\ (m + 2) - 1 = m + 1 /\ m + 1 <= Len(path) /\ m + 1 \in Nat
    BY <1>2
  <2>2. g[m + 2] = g[m + 1] \o s[m + 2]
    BY <1>5, <1>7, <2>1 DEF Flattens
  <2>3. ByDepth(g[m + 1], m + 1)
    BY <1>9, <2>1
  <2>4. PICK x : x = g[m + 1]
    OBVIOUS
  <2>5. PICK t : t = s[m + 2]
    OBVIOUS
  <2>6. t \in Seq(Item) /\ \A i \in 1..Len(t) : t[i].depth = (m + 1) + 1
    BY <1>6, <2>1, <2>5
  <2>7. ByDepth(x \o t, (m + 1) + 1)
    BY <2>1, <2>3, <2>4, <2>6, ByDepthNext
  <2> QED
    BY <2>2, <2>4, <2>5, <2>7
<1>10. Nat \subseteq T
  <2> HIDE DEF T
  <2> QED
    BY <1>8, <1>9, NatInd
<1>11. Len(path) - 1 \in Nat /\ (Len(path) - 1) + 1 = Len(path)
  BY <1>2
<1>12. ByDepth(g[Len(path)], Len(path))
  <2>1. PICK m \in Nat : m = Len(path) - 1
    BY <1>11
  <2>2. m \in T
    BY <1>10, <2>1
  <2>3. m + 1 = Len(path) /\ m + 1 <= Len(path)
    BY <1>2, <2>1
  <2> QED
    BY <2>2, <2>3
<1> QED
  BY <1>1, <1>4, <1>5, <1>7, <1>12

---------------------------------------------------------------------------
(* What is left of it, and what is applied.                                *)
LEMMA FilterByDepth ==
  ASSUME NEW m \in Nat, NEW s, ByDepth(s, m), NEW S
  PROVE  ByDepth(Those(s, S), m)
<1>1. s \in Seq(Item) /\ Len(s) \in Nat
  BY DEF ByDepth
<1>2. PICK r : r = Those(s, S)
  OBVIOUS
<1>3. r \in Seq(Item) /\ Filtered(r, s, S, Len(s))
  BY <1>1, <1>2, ThoseFiltered
<1>4. \A k \in 1..Len(r) : r[k].depth \in 1..m
  BY <1>3 DEF ByDepth, Filtered
<1>5. ASSUME NEW j \in 1..Len(r), NEW k \in 1..Len(r), j < k PROVE r[j].depth <= r[k].depth
  <2>1. PICK p \in 1..Len(s), q \in 1..Len(s) : p < q /\ s[p] = r[j] /\ s[q] = r[k]
    BY <1>3, <1>5 DEF Filtered
  <2> QED
    BY <2>1 DEF ByDepth
<1> QED
  BY <1>2, <1>3, <1>4, <1>5 DEF ByDepth

(* A depth from which links count is the top or that of a block.           *)
LEMMA BlockDepthIs ==
  ASSUME NEW c \in Container
  PROVE  /\ BlockDepth(c) \in 1..Len(PathTo[c])
         /\ BlockDepth(c) # 1 => PathTo[c][BlockDepth(c)] \in blocked
<1>1. PICK path : path = PathTo[c]
  OBVIOUS
<1>2. Len(path) \in Nat /\ Len(path) > 0
  BY <1>1, PathSound
<1>3. PICK blocks : blocks = {d \in 2..Len(path) : path[d] \in blocked}
  OBVIOUS
<1>4. BlockDepth(c) = IF blocks = {} THEN 1 ELSE CHOOSE d \in blocks : \A e \in blocks : d <= e
  BY <1>1, <1>3 DEF BlockDepth
<1>5. blocks # {} => \E d \in blocks : \A e \in blocks : d <= e
  <2>1. blocks \subseteq Nat
    BY <1>2, <1>3
  <2> QED
    BY <2>1, Least
<1>6. CASE blocks = {}
  BY <1>1, <1>2, <1>4, <1>6
<1>7. CASE blocks # {}
  <2>1. BlockDepth(c) \in blocks
    BY <1>4, <1>5, <1>7
  <2> QED
    BY <1>1, <1>2, <1>3, <2>1
<1> QED
  BY <1>6, <1>7

(* What reaches a container, as a set.                                     *)
Reaching(c) ==
  {item \in ToSet(Items(c)) : Effective(item) /\ (item.depth >= BlockDepth(c) \/ Enforced(item))}

(* u and v are the two halves of what is applied: what is left over of     *)
(* items, then what of it is enforced.                                     *)
Halves(u, v, items, reach, n) ==
  /\ ByDepth(u, n) /\ ByDepth(v, n)
  /\ \A k \in 1..Len(u) : ~Enforced(u[k])
  /\ \A k \in 1..Len(v) : Enforced(v[k])
  /\ \A i \in 1..Len(items) :
       items[i] \in reach =>
         \/ \E k \in 1..Len(u) : u[k] = items[i]
         \/ \E k \in 1..Len(v) : v[k] = items[i]

LEMMA AppliedIs ==
  ASSUME NEW c \in Container
  PROVE  LET left == Those(Items(c), Reaching(c))
             forced == {item \in ToSet(left) : Enforced(item)}
         IN Applied(c) = Those(left, ToSet(left) \ forced) \o Those(left, forced)
BY DEF Applied, Sorted, Reaching

LEMMA AppliedHalves ==
  ASSUME TypeOK, NEW c \in Container
  PROVE  \E u, v : Applied(c) = u \o v /\ Halves(u, v, Items(c), Reaching(c), Len(PathTo[c]))
<1>1. PICK items, reach, n : items = Items(c) /\ reach = Reaching(c) /\ n = Len(PathTo[c])
  OBVIOUS
<1>2. ByDepth(items, n) /\ n \in Nat
  BY <1>1, ItemsSound, PathSound
<1>3. PICK left : left = Those(items, reach)
  OBVIOUS
<1>4. ByDepth(left, n)
  BY <1>2, <1>3, FilterByDepth
<1>5. PICK forced : forced = {item \in ToSet(left) : Enforced(item)}
  OBVIOUS
<1>6. PICK plain : plain = ToSet(left) \ forced
  OBVIOUS
<1>7. PICK u, v : u = Those(left, plain) /\ v = Those(left, forced)
  OBVIOUS
<1>8. ByDepth(u, n) /\ ByDepth(v, n)
  BY <1>2, <1>4, <1>7, FilterByDepth
<1>9. Applied(c) = u \o v
  BY <1>1, <1>3, <1>5, <1>6, <1>7, AppliedIs
<1>10. items \in Seq(Item) /\ left \in Seq(Item) /\ DOMAIN left = 1..Len(left)
  BY <1>2, <1>4 DEF ByDepth
<1>11. Filtered(left, items, reach, Len(items))
  BY <1>3, <1>10, ThoseFiltered
<1>12. Filtered(u, left, plain, Len(left)) /\ Filtered(v, left, forced, Len(left))
  BY <1>7, <1>10, ThoseFiltered
<1>13. \A i \in 1..Len(left) : left[i] \in ToSet(left)
  BY <1>10 DEF ToSet
<1>14. \A k \in 1..Len(u) : ~Enforced(u[k])
  BY <1>5, <1>6, <1>12 DEF Filtered
<1>15. \A k \in 1..Len(v) : Enforced(v[k])
  BY <1>5, <1>12 DEF Filtered
<1>16. ASSUME NEW i \in 1..Len(items), items[i] \in reach
       PROVE  \/ \E k \in 1..Len(u) : u[k] = items[i]
              \/ \E k \in 1..Len(v) : v[k] = items[i]
  <2>1. PICK l \in 1..Len(left) : left[l] = items[i]
    BY <1>11, <1>16 DEF Filtered
  <2>2. left[l] \in plain \/ left[l] \in forced
    BY <1>6, <1>13
  <2> QED
    BY <1>12, <2>1, <2>2 DEF Filtered
<1>17. Halves(u, v, items, reach, n)
  BY <1>8, <1>14, <1>15, <1>16 DEF Halves
<1>18. Halves(u, v, Items(c), Reaching(c), Len(PathTo[c]))
  BY <1>1, <1>17
<1> QED
  BY <1>9, <1>18

(* Entries of two sequences put together.                                  *)
Together(u, v, w) ==
  /\ Len(w) = Len(u) + Len(v) /\ DOMAIN w = 1..Len(w)
  /\ \A i \in 1..Len(u) : w[i] = u[i]
  /\ \A i \in 1..Len(v) : w[i + Len(u)] = v[i]
  /\ \A i \in 1..Len(w) : \/ i <= Len(u) /\ i \in 1..Len(u) /\ w[i] = u[i]
                          \/ i > Len(u) /\ i - Len(u) \in 1..Len(v) /\ w[i] = v[i - Len(u)]

LEMMA TogetherIs ==
  ASSUME NEW E, NEW u \in Seq(E), NEW v \in Seq(E)
  PROVE  Together(u, v, u \o v)
<1>1. Len(u) \in Nat /\ Len(v) \in Nat
  OBVIOUS
<1>2. PICK w : w = u \o v
  OBVIOUS
<1>3. /\ w \in Seq(E) /\ Len(w) = Len(u) + Len(v)
      /\ \A i \in 1..Len(u) + Len(v) : w[i] = IF i <= Len(u) THEN u[i] ELSE v[i - Len(u)]
  BY <1>2, ConcatProperties
<1>4. DOMAIN w = 1..Len(w)
  BY <1>3
<1>5. \A i \in 1..Len(u) : w[i] = u[i]
  BY <1>1, <1>3
<1>6. ASSUME NEW i \in 1..Len(v) PROVE w[i + Len(u)] = v[i]
  <2>1. i + Len(u) \in 1..Len(u) + Len(v) /\ ~(i + Len(u) <= Len(u)) /\ (i + Len(u)) - Len(u) = i
    BY <1>1
  <2> QED
    BY <1>3, <2>1
<1>7. \A i \in 1..Len(w) : \/ i <= Len(u) /\ i \in 1..Len(u) /\ w[i] = u[i]
                           \/ i > Len(u) /\ i - Len(u) \in 1..Len(v) /\ w[i] = v[i - Len(u)]
  BY <1>1, <1>3
<1> QED
  BY <1>2, <1>3, <1>4, <1>5, <1>6, <1>7 DEF Together

(* Only a block below a link stops it.                                     *)
LEMMA StoppedBelow ==
  ASSUME TypeOK
  PROVE  StoppedByABlockBelow
<1> SUFFICES ASSUME NEW c \in Container, NEW item \in ToSet(Items(c)),
                    Effective(item), item \notin ToSet(Applied(c))
             PROVE  /\ ~Enforced(item)
                    /\ \E d \in item.depth + 1..Len(PathTo[c]) : PathTo[c][d] \in blocked
  BY DEF StoppedByABlockBelow
<1>1. PICK items, n : items = Items(c) /\ n = Len(PathTo[c])
  OBVIOUS
<1>2. ByDepth(items, n) /\ n \in Nat
  BY <1>1, ItemsSound, PathSound
<1>3. DOMAIN items = 1..Len(items)
  BY <1>2 DEF ByDepth
<1>4. PICK i \in 1..Len(items) : items[i] = item
  BY <1>1, <1>3 DEF ToSet
<1>5. item.depth \in 1..n
  BY <1>2, <1>4 DEF ByDepth
<1>6. item \notin Reaching(c)
  <2> SUFFICES ASSUME item \in Reaching(c) PROVE FALSE
    OBVIOUS
  <2>1. PICK u, v : Applied(c) = u \o v /\ Halves(u, v, Items(c), Reaching(c), Len(PathTo[c]))
    BY AppliedHalves
  <2>2. PICK w : w = u \o v
    OBVIOUS
  <2>3. u \in Seq(Item) /\ v \in Seq(Item)
    BY <2>1 DEF Halves, ByDepth
  <2>4. Together(u, v, w)
    BY <2>2, <2>3, TogetherIs
  <2>5. item \notin {w[k] : k \in DOMAIN w}
    BY <2>1, <2>2 DEF ToSet
  <2>6. \/ \E k \in 1..Len(u) : u[k] = item
        \/ \E k \in 1..Len(v) : v[k] = item
    BY <1>1, <1>4, <2>1 DEF Halves
  <2>7. Len(u) \in Nat /\ Len(v) \in Nat
    BY <2>3
  <2>8. CASE \E k \in 1..Len(u) : u[k] = item
    <3>1. PICK k \in 1..Len(u) : u[k] = item
      BY <2>8
    <3>2. k \in DOMAIN w
      BY <2>4, <2>7 DEF Together
    <3>3. w[k] = item
      BY <2>4, <3>1 DEF Together
    <3> QED
      BY <2>5, <3>2, <3>3
  <2>9. CASE \E k \in 1..Len(v) : v[k] = item
    <3>1. PICK k \in 1..Len(v) : v[k] = item
      BY <2>9
    <3>2. k + Len(u) \in DOMAIN w
      BY <2>4, <2>7 DEF Together
    <3>3. w[k + Len(u)] = item
      BY <2>4, <3>1 DEF Together
    <3> QED
      BY <2>5, <3>2, <3>3
  <2> QED
    BY <2>6, <2>8, <2>9
<1>7. ~Enforced(item) /\ ~(item.depth >= BlockDepth(c))
  BY <1>6 DEF Reaching
<1>8. PICK b : b = BlockDepth(c)
  OBVIOUS
<1>9. b \in 1..n /\ (b # 1 => PathTo[c][b] \in blocked)
  BY <1>1, <1>8, BlockDepthIs
<1>10. b \in item.depth + 1..n /\ b # 1
  BY <1>2, <1>5, <1>7, <1>8, <1>9
<1> QED
  BY <1>1, <1>7, <1>9, <1>10

(* The closer link, and the enforced one, is applied last.                 *)
LEMMA CloserLast ==
  ASSUME TypeOK
  PROVE  CloserWins
<1> SUFFICES ASSUME NEW c \in Container, NEW i \in DOMAIN Applied(c), NEW j \in DOMAIN Applied(c),
                    \/ Enforced(Applied(c)[i]) /\ ~Enforced(Applied(c)[j])
                    \/ ~Enforced(Applied(c)[i]) /\ ~Enforced(Applied(c)[j])
                       /\ Applied(c)[j].depth < Applied(c)[i].depth
             PROVE  j < i
  BY DEF CloserWins
<1>1. PICK u, v : Applied(c) = u \o v /\ Halves(u, v, Items(c), Reaching(c), Len(PathTo[c]))
  BY AppliedHalves
<1>2. PICK w, n : w = u \o v /\ n = Len(PathTo[c])
  OBVIOUS
<1>3. ByDepth(u, n) /\ u \in Seq(Item) /\ v \in Seq(Item) /\ n \in Nat
  BY <1>1, <1>2, PathSound DEF Halves, ByDepth
<1>4. Together(u, v, w)
  BY <1>2, <1>3, TogetherIs
<1>5. Len(u) \in Nat /\ Len(v) \in Nat
  BY <1>3
<1>6. i \in 1..Len(w) /\ j \in 1..Len(w) /\ Applied(c) = w
  BY <1>1, <1>2, <1>4 DEF Together
<1>7. \A k \in 1..Len(w) : Enforced(w[k]) => k > Len(u)
  BY <1>1, <1>4, <1>5 DEF Together, Halves
<1>8. \A k \in 1..Len(w) : ~Enforced(w[k]) => k \in 1..Len(u) /\ w[k] = u[k] /\ k <= Len(u)
  BY <1>1, <1>4, <1>5 DEF Together, Halves
<1>9. CASE Enforced(w[i]) /\ ~Enforced(w[j])
  <2>1. i > Len(u) /\ j <= Len(u) /\ i \in Nat /\ j \in Nat
    BY <1>5, <1>6, <1>7, <1>8, <1>9, <1>4 DEF Together
  <2> QED
    BY <1>5, <2>1
<1>10. CASE ~Enforced(w[i]) /\ ~Enforced(w[j]) /\ w[j].depth < w[i].depth
  <2>1. i \in 1..Len(u) /\ j \in 1..Len(u) /\ w[i] = u[i] /\ w[j] = u[j]
    BY <1>6, <1>8, <1>10
  <2>2. PICK x, y : x = u[i].depth /\ y = u[j].depth
    OBVIOUS
  <2>3. x \in 1..n /\ y \in 1..n /\ y < x
    BY <1>3, <1>10, <2>1, <2>2 DEF ByDepth
  <2>4. i < j => x <= y
    BY <1>3, <2>1, <2>2 DEF ByDepth
  <2>5. i # j
    BY <1>3, <2>2, <2>3
  <2> QED
    BY <1>3, <1>5, <2>1, <2>3, <2>4, <2>5
<1> QED
  BY <1>6, <1>9, <1>10

(* Which policies reach a container and which of them prevails.            *)
LEMMA InheritanceOfTypes == TypeOK => InheritanceHolds
BY StoppedBelow, CloserLast DEF InheritanceHolds

(* A link is stopped by a block below it only, and of those that reach a   *)
(* container the closer and then the enforced ones are applied last,       *)
(* whatever operations have changed (inheritance, gpmc.py).                *)
THEOREM InheritanceHoldsAlways == Spec => []InheritanceHolds
<1> QED
  BY TypeCorrect, InheritanceOfTypes, PTL

---------------------------------------------------------------------------
(* Manifests: a policy's list and the files beside it fit together.  A     *)
(* save checks its files, takes their digests and writes the list in       *)
(* steps of their own.  The invariant says what a save that nobody crossed *)
(* still knows at each of them (Faithful), that it is then the only one    *)
(* (UncrossedInv), and that what it will remove its list does not name, or *)
(* names by another text than the list before.                             *)

SaveFields == {"at", "dropped", "respelt", "alone", "entries"}
Phases == {"check", "fill", "compare", "write", "remove"}
EntryOk(e) == DOMAIN e = {"name", "says", "hash"} /\ e.name[1] \in FileNames

IsSave(s) ==
  /\ DOMAIN s = SaveFields /\ s.at \in Phases /\ s.alone \in BOOLEAN
  /\ \A i \in DOMAIN s.entries : EntryOk(s.entries[i])
  /\ s.at \in {"check", "fill", "compare"} => s.respelt = {}
  /\ s.at \in {"write", "remove"} => s.dropped \cap Lowered(s.entries) \subseteq s.respelt

(* What an uncrossed save has seen to and is still so.                     *)
Faithful(s) ==
  /\ s.at \in {"fill", "compare", "write", "remove"} =>
       \A n \in Lowered(s.entries) \ s.respelt : beside[n] # Missing
  /\ s.at \in {"compare", "write", "remove"} =>
       \A i \in DOMAIN s.entries :
         s.entries[i].name[1] \notin s.respelt => s.entries[i].hash = Hash(s.entries[i].name)
  /\ s.at = "remove" => manifest = {s.entries}

ShapesInv ==
  /\ DOMAIN saving = Writer
  /\ \A w \in Writer : saving[w] = Resting \/ IsSave(saving[w])
FilesInv == DOMAIN beside = FileNames /\ \E l : manifest \subseteq {l}
UncrossedInv ==
  \A w \in Writer : InSave(w) /\ saving[w].alone =>
    Faithful(saving[w]) /\ \A v \in Writer \ {w} : ~InSave(v)

MInv == ShapesInv /\ FilesInv /\ UncrossedInv

---------------------------------------------------------------------------
LEMMA InSaveIs ==
  ASSUME ShapesInv, NEW w \in Writer
  PROVE  /\ InSave(w) <=> IsSave(saving[w])
         /\ ~InSave(w) <=> saving[w] = Resting
BY DEF ShapesInv, InSave, IsSave, Resting, Phases

(* A step within a save: the save goes from one phase to the next.         *)
LEMMA TurnInv ==
  ASSUME MInv, NEW w \in Writer, NEW q, InSave(w), Turn(w, q), UNCHANGED vgpKind,
         IsSave(q), q.alone = saving[w].alone, q.alone => Faithful(q)', FilesInv'
  PROVE  MInv'
<1>1. /\ saving' = [saving EXCEPT ![w] = q] /\ DOMAIN saving' = Writer /\ saving'[w] = q
      /\ \A v \in Writer \ {w} : saving'[v] = saving[v]
  BY DEF Turn, MInv, ShapesInv
<1>2. \A s : IsSave(s)' <=> IsSave(s)
  BY DEF IsSave, Lowered, HasPayload
<1>3. ShapesInv'
  BY <1>1, <1>2 DEF MInv, ShapesInv, Resting
<1>4. InSave(w)' /\ \A v \in Writer \ {w} : InSave(v)' <=> InSave(v)
  BY <1>1 DEF InSave, IsSave, Phases
<1>5. UncrossedInv'
  <2> SUFFICES ASSUME NEW u \in Writer, NEW s, s = saving'[u], InSave(u)', s.alone
               PROVE  Faithful(s)' /\ \A v \in Writer \ {u} : ~InSave(v)'
    BY DEF UncrossedInv
  <2>1. CASE u = w
    <3>1. saving[w].alone /\ Faithful(q)'
      BY <1>1, <2>1
    <3>2. \A v \in Writer \ {w} : ~InSave(v)
      BY <3>1 DEF MInv, UncrossedInv
    <3> QED
      BY <1>1, <1>4, <2>1, <3>1, <3>2
  <2>2. CASE u # w
    <3>1. InSave(u) /\ saving[u].alone
      BY <1>1, <1>4, <2>2
    <3>2. ~InSave(w)
      BY <2>2, <3>1 DEF MInv, UncrossedInv
    <3> QED
      BY <3>2
  <2> QED
    BY <2>1, <2>2
<1> QED
  BY <1>3, <1>5 DEF MInv

(* Whatever crosses the saves of others leaves none of them uncrossed.     *)
LEMMA CrossedBy ==
  ASSUME ShapesInv, NEW w \in Writer
  PROVE  /\ DOMAIN Others(w) = Writer /\ Others(w)[w] = saving[w]
         /\ \A v \in Writer \ {w} :
              \/ ~InSave(v) /\ Others(w)[v] = Resting
              \/ InSave(v) /\ Others(w)[v] = [saving[v] EXCEPT !.alone = FALSE]
                 /\ IsSave(Others(w)[v]) /\ Others(w)[v].alone = FALSE
<1>1. DOMAIN Others(w) = Writer /\ Others(w)[w] = saving[w]
  BY DEF Others
<1>2. SUFFICES ASSUME NEW v \in Writer \ {w}
      PROVE  \/ ~InSave(v) /\ Others(w)[v] = Resting
             \/ InSave(v) /\ Others(w)[v] = [saving[v] EXCEPT !.alone = FALSE]
                /\ IsSave(Others(w)[v]) /\ Others(w)[v].alone = FALSE
  BY <1>1
<1>3. CASE ~InSave(v)
  BY <1>3, InSaveIs DEF Others
<1>4. CASE InSave(v)
  <2>1. IsSave(saving[v]) /\ Others(w)[v] = [saving[v] EXCEPT !.alone = FALSE]
    BY <1>4, InSaveIs DEF Others
  <2> DEFINE s == saving[v]
             q == [saving[v] EXCEPT !.alone = FALSE]
  <2>2. /\ DOMAIN q = SaveFields /\ q.at = s.at /\ q.alone = FALSE
        /\ q.entries = s.entries /\ q.dropped = s.dropped
    BY <2>1 DEF IsSave, SaveFields
  <2>3. IsSave(q)
    BY <2>1, <2>2 DEF IsSave
  <2> QED
    BY <1>4, <2>1, <2>2, <2>3
<1> QED
  BY <1>3, <1>4

LEMMA CrossInv ==
  ASSUME MInv, NEW w \in Writer, NEW q, saving' = [Others(w) EXCEPT ![w] = q], UNCHANGED vgpKind,
         \/ q = Resting
         \/ /\ IsSave(q) /\ q.at = "check"
            /\ q.alone => \A v \in Writer \ {w} : ~InSave(v),
         FilesInv'
  PROVE  MInv'
<1>1. /\ DOMAIN saving' = Writer /\ saving'[w] = q
      /\ \A v \in Writer \ {w} :
           \/ ~InSave(v) /\ saving'[v] = Resting
           \/ InSave(v) /\ IsSave(saving'[v]) /\ saving'[v].alone = FALSE
  BY CrossedBy DEF MInv
<1>2. \A s : IsSave(s)' <=> IsSave(s)
  BY DEF IsSave, Lowered, HasPayload
<1>3. ShapesInv'
  BY <1>1, <1>2 DEF ShapesInv, Resting
<1>4. \A v \in Writer \ {w} : InSave(v)' <=> InSave(v)
  BY <1>1 DEF InSave, IsSave, Phases, Resting
<1>5. UncrossedInv'
  <2> SUFFICES ASSUME NEW u \in Writer, NEW s, s = saving'[u], InSave(u)', s.alone
               PROVE  Faithful(s)' /\ \A v \in Writer \ {u} : ~InSave(v)'
    BY DEF UncrossedInv
  <2>1. u = w
    BY <1>1, <1>4
  <2>2. IsSave(q) /\ q.at = "check" /\ q.alone
    BY <1>1, <2>1 DEF InSave, Resting
  <2>3. \A v \in Writer \ {w} : ~InSave(v)
    BY <2>2 DEF IsSave, Resting, SaveFields
  <2> QED
    BY <1>1, <1>4, <2>1, <2>2, <2>3 DEF Faithful
<1> QED
  BY <1>3, <1>5 DEF MInv

---------------------------------------------------------------------------
(* The steps.                                                              *)
LEMMA MInvKept ==
  ASSUME MInv, UNCHANGED <<beside, manifest, saving, vgpKind>>
  PROVE  MInv'
BY DEF MInv, ShapesInv, FilesInv, UncrossedInv, InSave, IsSave, Faithful, Lowered, HasPayload, Hash, HashesPayload

LEMMA ReadInv ==
  ASSUME MInv, NEW w \in Writer, ReadManifest(w)
  PROVE  MInv'
<1>1. UNCHANGED <<beside, manifest, saving, vgpKind>>
  BY DEF ReadManifest
<1> QED
  BY <1>1, MInvKept

LEMMA UploadInv ==
  ASSUME MInv, NEW w \in Writer, UploadPayload(w)
  PROVE  MInv'
<1>1. /\ ~InSave(w) /\ saving' = Others(w) /\ UNCHANGED <<manifest, vgpKind>> /\ DOMAIN beside' = FileNames
  BY DEF UploadPayload, MInv, FilesInv
<1>2. saving' = [Others(w) EXCEPT ![w] = Resting]
  <2>1. Others(w)[w] = Resting /\ DOMAIN Others(w) = Writer
    BY <1>1, CrossedBy, InSaveIs DEF MInv
  <2> QED
    BY <1>1, <2>1 DEF Others
<1>3. FilesInv'
  BY <1>1 DEF MInv, FilesInv
<1> QED
  BY <1>1, <1>2, <1>3, CrossInv

LEMMA EndInv ==
  ASSUME MInv, NEW w \in Writer, End(w), UNCHANGED <<beside, manifest, vgpKind>>
  PROVE  MInv'
<1>1. saving' = [Others(w) EXCEPT ![w] = Resting] /\ FilesInv'
  BY DEF End, MInv, FilesInv
<1> QED
  BY <1>1, CrossInv

LEMMA SetEntriesInv ==
  ASSUME MInv, NEW w \in Writer, SetEntries(w)
  PROVE  MInv'
<1>1. PICK l \in EntryLists :
        saving' = [Others(w) EXCEPT ![w] =
                    [at |-> "check", dropped |-> {}, respelt |-> {}, alone |-> \A v \in Writer : ~InSave(v),
                     entries |-> [i \in DOMAIN l |-> [name |-> l[i].name, says |-> l[i].says, hash |-> NoDigest]]]]
  BY DEF SetEntries
<1>2. PICK free : free = (\A v \in Writer : ~InSave(v)) /\ free \in BOOLEAN
  OBVIOUS
<1> DEFINE q == [at |-> "check", dropped |-> {}, respelt |-> {}, alone |-> free,
                 entries |-> [i \in DOMAIN l |-> [name |-> l[i].name, says |-> l[i].says, hash |-> NoDigest]]]
<1>3. saving' = [Others(w) EXCEPT ![w] = q]
  BY <1>1, <1>2
<1>4. \A i \in DOMAIN q.entries : EntryOk(q.entries[i])
  BY ManifestConstants DEF EntryOk
<1>5. IsSave(q) /\ q.at = "check"
  BY <1>2, <1>4 DEF IsSave, SaveFields, Phases
<1>6. q.alone => \A v \in Writer \ {w} : ~InSave(v)
  BY <1>2
<1>7. FilesInv' /\ UNCHANGED vgpKind
  BY DEF SetEntries, MInv, FilesInv
<1> HIDE DEF q
<1> QED
  BY <1>3, <1>5, <1>6, <1>7, CrossInv

(* A save that moves on and changes its phase only.                        *)
LEMMA ToIs ==
  ASSUME MInv, NEW w \in Writer, InSave(w), NEW at \in Phases, NEW q, q = [saving[w] EXCEPT !.at = at]
  PROVE  /\ DOMAIN q = SaveFields /\ q.at = at /\ q.alone = saving[w].alone /\ q.alone \in BOOLEAN
         /\ q.entries = saving[w].entries /\ q.dropped = saving[w].dropped /\ q.respelt = saving[w].respelt
         /\ \A i \in DOMAIN q.entries : EntryOk(q.entries[i])
<1>1. IsSave(saving[w])
  BY InSaveIs DEF MInv
<1> QED
  BY <1>1 DEF IsSave, SaveFields

LEMMA CheckInv ==
  ASSUME MInv, NEW w \in Writer, CheckPayloads(w)
  PROVE  MInv'
<1>1. InSave(w) /\ saving[w].at = "check" /\ UNCHANGED <<beside, manifest, vgpKind>> /\ FilesInv'
  BY DEF CheckPayloads, InSave, MInv, FilesInv
<1>2. CASE \E n \in Lowered(saving[w].entries) : beside[n] = Missing
  BY <1>1, <1>2, EndInv DEF CheckPayloads
<1>3. CASE \A n \in Lowered(saving[w].entries) : beside[n] # Missing
  <2>1. PICK q : q = [saving[w] EXCEPT !.at = "fill"]
    OBVIOUS
  <2>2. Turn(w, q)
    BY <1>3, <2>1 DEF CheckPayloads, To
  <2>3. /\ DOMAIN q = SaveFields /\ q.at = "fill" /\ q.alone = saving[w].alone /\ q.alone \in BOOLEAN
        /\ q.entries = saving[w].entries /\ q.respelt = saving[w].respelt
        /\ \A i \in DOMAIN q.entries : EntryOk(q.entries[i])
    BY <1>1, <2>1, ToIs DEF Phases
  <2>4. IsSave(q)
    <3>1. IsSave(saving[w])
      BY <1>1, InSaveIs DEF MInv
    <3> QED
      BY <1>1, <2>3, <3>1 DEF IsSave, Phases
  <2>5. Faithful(q)'
    BY <1>1, <1>3, <2>3 DEF Faithful, Lowered, HasPayload
  <2> QED
    BY <1>1, <2>2, <2>3, <2>4, <2>5, TurnInv
<1> QED
  BY <1>2, <1>3

(* Digests change nothing of what the entries name.                        *)
LEMMA FilledIs ==
  ASSUME NEW entries, \A i \in DOMAIN entries : EntryOk(entries[i]), NEW filled, filled = Filled(entries)
  PROVE  /\ DOMAIN filled = DOMAIN entries
         /\ \A i \in DOMAIN filled : /\ EntryOk(filled[i]) /\ filled[i].name = entries[i].name
                                     /\ filled[i].hash = Hash(filled[i].name)
         /\ Lowered(filled) = Lowered(entries)
<1>1. /\ DOMAIN filled = DOMAIN entries
      /\ \A i \in DOMAIN filled : filled[i] = [entries[i] EXCEPT !.hash = Hash(entries[i].name)]
  BY DEF Filled
<1>2. \A i \in DOMAIN filled : /\ EntryOk(filled[i]) /\ filled[i].name = entries[i].name
                               /\ filled[i].hash = Hash(filled[i].name)
  BY <1>1 DEF EntryOk
<1>3. {filled[i].name[1] : i \in DOMAIN filled} = {entries[i].name[1] : i \in DOMAIN entries}
  BY <1>1, <1>2
<1>4. Lowered(filled) = Lowered(entries)
  BY <1>3 DEF Lowered
<1> QED
  BY <1>1, <1>2, <1>4

LEMMA FillInv ==
  ASSUME MInv, NEW w \in Writer, FillHashes(w)
  PROVE  MInv'
<1>1. InSave(w) /\ saving[w].at = "fill" /\ UNCHANGED <<beside, manifest, vgpKind>> /\ FilesInv'
  BY DEF FillHashes, InSave, MInv, FilesInv
<1>2. CASE End(w)
  BY <1>1, <1>2, EndInv
<1>3. CASE Turn(w, [saving[w] EXCEPT !.at = "compare", !.entries = Filled(saving[w].entries)])
  <2>1. PICK s : s = saving[w]
    OBVIOUS
  <2>2. PICK filled : filled = Filled(s.entries)
    OBVIOUS
  <2>3. PICK q : q = [s EXCEPT !.at = "compare", !.entries = filled]
    OBVIOUS
  <2>4. Turn(w, q)
    BY <1>3, <2>1, <2>2, <2>3
  <2>5. IsSave(s)
    BY <1>1, <2>1, InSaveIs DEF MInv
  <2>6. /\ DOMAIN q = SaveFields /\ q.at = "compare" /\ q.alone = s.alone /\ q.alone \in BOOLEAN
        /\ q.entries = filled /\ q.respelt = s.respelt
    BY <2>3, <2>5 DEF IsSave, SaveFields
  <2>7. /\ \A i \in DOMAIN filled : EntryOk(filled[i]) /\ filled[i].hash = Hash(filled[i].name)
        /\ Lowered(filled) = Lowered(s.entries)
    BY <2>2, <2>5, FilledIs DEF IsSave
  <2>8. IsSave(q)
    BY <1>1, <2>1, <2>5, <2>6, <2>7 DEF IsSave, Phases
  <2>9. q.alone => Faithful(q)'
    <3> SUFFICES ASSUME q.alone PROVE Faithful(q)'
      OBVIOUS
    <3>1. Faithful(s)
      BY <1>1, <2>1, <2>6 DEF MInv, UncrossedInv
    <3>2. \A n \in Lowered(q.entries) \ q.respelt : beside[n] # Missing
      BY <1>1, <2>1, <2>6, <2>7, <3>1 DEF Faithful
    <3>3. Faithful(q)
      BY <2>6, <2>7, <3>2 DEF Faithful
    <3> QED
      BY <1>1, <3>3 DEF Faithful, Lowered, HasPayload, Hash, HashesPayload
  <2> QED
    BY <1>1, <2>1, <2>4, <2>6, <2>8, <2>9, TurnInv
<1> QED
  BY <1>2, <1>3 DEF FillHashes

LEMMA CompareInv ==
  ASSUME MInv, NEW w \in Writer, Compare(w)
  PROVE  MInv'
<1>1. InSave(w) /\ saving[w].at = "compare" /\ UNCHANGED <<beside, manifest, vgpKind>> /\ FilesInv'
  BY DEF Compare, InSave, MInv, FilesInv
<1>2. CASE End(w)
  BY <1>1, <1>2, EndInv
<1>3. CASE Turn(w, [saving[w] EXCEPT !.at = "write", !.dropped = Dropped(manifest, saving[w].entries),
                                     !.respelt = Respelt(manifest, saving[w].entries)])
  <2>1. PICK s : s = saving[w]
    OBVIOUS
  <2>2. PICK gone, twice : gone = Dropped(manifest, s.entries) /\ twice = Respelt(manifest, s.entries)
    OBVIOUS
  <2>3. PICK q : q = [s EXCEPT !.at = "write", !.dropped = gone, !.respelt = twice]
    OBVIOUS
  <2>4. Turn(w, q)
    BY <1>3, <2>1, <2>2, <2>3
  <2>5. IsSave(s)
    BY <1>1, <2>1, InSaveIs DEF MInv
  <2>6. /\ DOMAIN q = SaveFields /\ q.at = "write" /\ q.alone = s.alone /\ q.alone \in BOOLEAN
        /\ q.entries = s.entries /\ q.dropped = gone /\ q.respelt = twice
    BY <2>3, <2>5 DEF IsSave, SaveFields
  <2>7. gone \cap Lowered(s.entries) \subseteq twice
    BY <2>2 DEF Dropped, Respelt
  <2>8. IsSave(q)
    BY <2>5, <2>6, <2>7 DEF IsSave, Phases
  <2>9. q.alone => Faithful(q)'
    <3> SUFFICES ASSUME q.alone PROVE Faithful(q)'
      OBVIOUS
    <3>1. Faithful(s) /\ s.respelt \subseteq {}
      BY <1>1, <2>1, <2>5, <2>6 DEF MInv, UncrossedInv, IsSave
    <3>2. Faithful(q)
      BY <1>1, <2>1, <2>6, <3>1 DEF Faithful
    <3> QED
      BY <1>1, <3>2 DEF Faithful, Lowered, HasPayload, Hash, HashesPayload
  <2> QED
    BY <1>1, <2>1, <2>4, <2>6, <2>8, <2>9, TurnInv
<1> QED
  BY <1>2, <1>3 DEF Compare

LEMMA WriteInv ==
  ASSUME MInv, NEW w \in Writer, WriteManifest(w)
  PROVE  MInv'
<1>1. /\ InSave(w) /\ saving[w].at = "write" /\ UNCHANGED <<beside, vgpKind>>
      /\ manifest' = {saving[w].entries}
  BY DEF WriteManifest, InSave
<1>2. PICK q : q = [saving[w] EXCEPT !.at = "remove"]
  OBVIOUS
<1>3. Turn(w, q)
  BY <1>2 DEF WriteManifest, To
<1>4. /\ DOMAIN q = SaveFields /\ q.at = "remove" /\ q.alone = saving[w].alone /\ q.alone \in BOOLEAN
      /\ q.entries = saving[w].entries /\ q.dropped = saving[w].dropped /\ q.respelt = saving[w].respelt
      /\ \A i \in DOMAIN q.entries : EntryOk(q.entries[i])
  BY <1>1, <1>2, ToIs DEF Phases
<1>5. q.dropped \cap Lowered(q.entries) \subseteq q.respelt
  <2>1. IsSave(saving[w])
    BY <1>1, InSaveIs DEF MInv
  <2> QED
    BY <1>1, <1>4, <2>1 DEF IsSave
<1>6. IsSave(q)
  BY <1>4, <1>5 DEF IsSave, Phases
<1>7. q.alone => Faithful(q)'
  <2> SUFFICES ASSUME q.alone PROVE Faithful(q)'
    OBVIOUS
  <2>1. Faithful(saving[w])
    BY <1>1, <1>4 DEF MInv, UncrossedInv
  <2>2. /\ \A n \in Lowered(q.entries) \ q.respelt : beside[n] # Missing
        /\ \A i \in DOMAIN q.entries :
             q.entries[i].name[1] \notin q.respelt => q.entries[i].hash = Hash(q.entries[i].name)
    BY <1>1, <1>4, <2>1 DEF Faithful
  <2> QED
    BY <1>1, <1>4, <2>2 DEF Faithful, Lowered, HasPayload, Hash, HashesPayload
<1>8. FilesInv'
  BY <1>1 DEF MInv, FilesInv
<1> QED
  BY <1>1, <1>3, <1>4, <1>6, <1>7, <1>8, TurnInv

LEMMA RemoveInv ==
  ASSUME MInv, NEW w \in Writer, RemoveDropped(w)
  PROVE  MInv'
<1>1. InSave(w) /\ saving[w].at = "remove" /\ UNCHANGED <<manifest, vgpKind>>
  BY DEF RemoveDropped, InSave
<1>2. PICK n \in saving[w].dropped :
        /\ beside' \in {beside, [beside EXCEPT ![n] = Missing]}
        /\ Turn(w, [saving[w] EXCEPT !.dropped = @ \ {n}])
  BY DEF RemoveDropped
<1>3. PICK s : s = saving[w]
  OBVIOUS
<1>4. PICK q : q = [s EXCEPT !.dropped = @ \ {n}]
  OBVIOUS
<1>5. Turn(w, q)
  BY <1>2, <1>3, <1>4
<1>6. /\ IsSave(s) /\ s.dropped \cap Lowered(s.entries) \subseteq s.respelt
      /\ n \notin Lowered(s.entries) \ s.respelt
  <2>1. IsSave(s)
    BY <1>1, <1>3, InSaveIs DEF MInv
  <2> QED
    BY <1>1, <1>2, <1>3, <2>1 DEF IsSave
<1>7. /\ DOMAIN q = SaveFields /\ q.at = "remove" /\ q.alone = s.alone /\ q.alone \in BOOLEAN
      /\ q.entries = s.entries /\ q.dropped = s.dropped \ {n} /\ q.respelt = s.respelt
  BY <1>1, <1>3, <1>4, <1>6 DEF IsSave, SaveFields
<1>8. IsSave(q)
  BY <1>6, <1>7 DEF IsSave, Phases
<1>9. FilesInv' /\ \A m \in FileNames \ {n} : beside'[m] = beside[m]
  BY <1>1, <1>2 DEF MInv, FilesInv
<1>10. q.alone => Faithful(q)'
  <2> SUFFICES ASSUME q.alone PROVE Faithful(q)'
    OBVIOUS
  <2>1. Faithful(s)
    BY <1>1, <1>3, <1>7 DEF MInv, UncrossedInv
  <2>2. /\ \A m \in Lowered(s.entries) \ s.respelt : beside[m] # Missing
        /\ \A i \in DOMAIN s.entries :
             s.entries[i].name[1] \notin s.respelt => s.entries[i].hash = Hash(s.entries[i].name)
        /\ manifest = {s.entries}
    BY <1>1, <1>3, <2>1 DEF Faithful
  <2>3. \A m \in Lowered(s.entries) \ s.respelt : m \in FileNames \ {n} /\ beside'[m] = beside[m]
    <3>1. Lowered(s.entries) \subseteq FileNames
      BY <1>6 DEF IsSave, EntryOk, Lowered
    <3> QED
      BY <1>6, <1>9, <3>1
  <2>4. \A i \in DOMAIN s.entries :
          s.entries[i].name[1] \notin s.respelt => s.entries[i].hash = Hash(s.entries[i].name)'
    <3> SUFFICES ASSUME NEW i \in DOMAIN s.entries, s.entries[i].name[1] \notin s.respelt
                 PROVE  s.entries[i].hash = Hash(s.entries[i].name)'
      OBVIOUS
    <3>1. CASE HashesPayload
      <4>1. s.entries[i].name[1] \in Lowered(s.entries) \ s.respelt
        BY <3>1 DEF Lowered, HashesPayload, HasPayload
      <4> QED
        BY <1>1, <2>2, <2>3, <3>1, <4>1 DEF Hash, HashesPayload
    <3>2. CASE ~HashesPayload
      BY <1>1, <2>2, <3>2 DEF Hash, HashesPayload
    <3> QED
      BY <3>1, <3>2
  <2>5. \A m \in Lowered(s.entries)' \ s.respelt : beside'[m] # Missing
    BY <1>1, <2>2, <2>3 DEF Lowered, HasPayload
  <2> QED
    BY <1>1, <1>7, <2>2, <2>4, <2>5 DEF Faithful, Lowered, HasPayload, Hash, HashesPayload
<1> QED
  BY <1>1, <1>3, <1>5, <1>7, <1>8, <1>9, <1>10, TurnInv

LEMMA BumpInv ==
  ASSUME MInv, NEW w \in Writer, BumpRevision(w)
  PROVE  MInv'
BY EndInv DEF BumpRevision

LEMMA FailsInv ==
  ASSUME MInv, NEW w \in Writer, SaveFails(w)
  PROVE  MInv'
<1>1. /\ saving' = [Others(w) EXCEPT ![w] = Resting] /\ UNCHANGED <<beside, vgpKind>>
      /\ manifest' \in {manifest, {}, {saving[w].entries}}
  BY DEF SaveFails, End
<1>2. FilesInv'
  BY <1>1 DEF MInv, FilesInv
<1> QED
  BY <1>1, <1>2, CrossInv

LEMMA MInitInv == ManifestsInit => MInv
<1> SUFFICES ASSUME ManifestsInit PROVE MInv
  OBVIOUS
<1>1. ShapesInv /\ FilesInv
  BY DEF ManifestsInit, ShapesInv, FilesInv
<1>2. UncrossedInv
  BY DEF ManifestsInit, UncrossedInv, InSave, Resting
<1> QED
  BY <1>1, <1>2 DEF MInv

LEMMA MNextInv == MInv /\ [ManifestsNext]_manifestVars => MInv'
<1> SUFFICES ASSUME MInv, [ManifestsNext]_manifestVars PROVE MInv'
  OBVIOUS
<1>1. CASE UNCHANGED manifestVars
  BY <1>1, MInvKept DEF manifestVars
<1>2. ASSUME NEW w \in Writer,
             \/ ReadManifest(w) \/ UploadPayload(w) \/ SetEntries(w) \/ CheckPayloads(w) \/ FillHashes(w)
             \/ Compare(w) \/ WriteManifest(w) \/ RemoveDropped(w) \/ BumpRevision(w) \/ SaveFails(w)
      PROVE  MInv'
  BY <1>2, ReadInv, UploadInv, SetEntriesInv, CheckInv, FillInv, CompareInv, WriteInv, RemoveInv, BumpInv,
          FailsInv
<1> QED
  BY <1>1, <1>2 DEF ManifestsNext

---------------------------------------------------------------------------
(* What a step does that ends a save or removes a file.                    *)
ManifestStep(w) ==
  \/ ReadManifest(w) \/ UploadPayload(w) \/ SetEntries(w) \/ CheckPayloads(w) \/ FillHashes(w)
  \/ Compare(w) \/ WriteManifest(w) \/ RemoveDropped(w) \/ BumpRevision(w) \/ SaveFails(w)

(* Where a save is accepted: it found its list in place, or it has written *)
(* it and removed what the list before it named.                           *)
LEMMA AcceptedAt ==
  ASSUME MInv, NEW u \in Writer, SaveAccepted(u)
  PROVE  /\ InSave(u) /\ UNCHANGED <<beside, manifest, vgpKind>> /\ saving[u].at \in {"compare", "remove"}
         /\ saving[u].at = "compare" => saving[u].entries \in manifest
<1>1. CASE BumpRevision(u)
  BY <1>1 DEF BumpRevision, InSave
<1>2. CASE Compare(u) /\ saving'[u] = Resting
  <2>1. InSave(u) /\ saving[u].at = "compare" /\ UNCHANGED <<beside, manifest, vgpKind>>
    BY <1>2 DEF Compare, InSave
  <2>2. CASE saving[u].entries \notin manifest
    <3>1. PICK gone, twice : Turn(u, [saving[u] EXCEPT !.at = "write", !.dropped = gone, !.respelt = twice])
      BY <1>2, <2>2 DEF Compare
    <3>2. IsSave(saving[u]) /\ DOMAIN saving = Writer
      BY <2>1, InSaveIs DEF MInv, ShapesInv
    <3>3. saving'[u] = [saving[u] EXCEPT !.at = "write", !.dropped = gone, !.respelt = twice]
      BY <3>1, <3>2 DEF Turn
    <3>4. saving'[u].at = "write"
      BY <3>2, <3>3 DEF IsSave, SaveFields
    <3> QED
      BY <1>2, <3>4 DEF Resting
  <2> QED
    BY <2>1, <2>2
<1> QED
  BY <1>1, <1>2 DEF SaveAccepted

LEMMA SavedWholeStep ==
  ASSUME MInv
  PROVE  SavedWhole
<1> SUFFICES ASSUME NEW u \in Writer, SaveAccepted(u), ~Crossed(u) PROVE SaysWhole(u)
  BY DEF SavedWhole
<1>1. /\ InSave(u) /\ UNCHANGED <<beside, manifest, vgpKind>> /\ saving[u].at \in {"compare", "remove"}
      /\ saving[u].at = "compare" => saving[u].entries \in manifest
  BY AcceptedAt
<1>2. PICK s : s = saving[u]
  OBVIOUS
<1>3. Faithful(s) /\ s.at \in {"compare", "remove"}
  BY <1>1, <1>2 DEF MInv, UncrossedInv, Crossed
<1>4. manifest = {s.entries}
  BY <1>1, <1>2, <1>3 DEF Faithful, MInv, FilesInv
<1>5. /\ \A n \in Lowered(s.entries) \ s.respelt : beside[n] # Missing
      /\ \A i \in DOMAIN s.entries :
           s.entries[i].name[1] \notin s.respelt => s.entries[i].hash = Hash(s.entries[i].name)
  BY <1>3 DEF Faithful
<1>6. SUFFICES ASSUME NEW i \in DOMAIN s.entries, HasPayload, s.entries[i].name[1] \notin s.respelt
      PROVE  /\ beside[s.entries[i].name[1]] # Missing
             /\ HashesPayload => s.entries[i].hash = beside[s.entries[i].name[1]]
  BY <1>1, <1>2, <1>4 DEF SaysWhole
<1> QED
  BY <1>5, <1>6 DEF Lowered, Hash

LEMMA RemovedUnnamedStep ==
  ASSUME MInv, NEW w \in Writer, ManifestStep(w)
  PROVE  RemovedUnnamed
<1> SUFFICES ASSUME NEW n \in FileNames, Removed(n), \A u \in Writer : ~UploadPayload(u)
             PROVE  \E u \in Writer :
                      /\ saving[u].at = "remove" /\ n \in saving[u].dropped
                      /\ Crossed(u) \/ n \notin Stated(manifest) \/ n \in saving[u].respelt
  BY DEF RemovedUnnamed
<1>1. beside[n] # Missing /\ beside'[n] = Missing /\ DOMAIN beside = FileNames
  BY DEF Removed, MInv, FilesInv
<1>2. ~UploadPayload(w)
  OBVIOUS
<1>3. RemoveDropped(w)
  BY <1>1, <1>2 DEF ManifestStep, ReadManifest, SetEntries, CheckPayloads, FillHashes, Compare, WriteManifest,
                    BumpRevision, SaveFails
<1>4. saving[w].at = "remove" /\ n \in saving[w].dropped /\ InSave(w)
  BY <1>1, <1>3 DEF RemoveDropped, InSave
<1>5. CASE ~Crossed(w)
  <2>1. manifest = {saving[w].entries}
    BY <1>4, <1>5 DEF Crossed, MInv, UncrossedInv, Faithful
  <2>2. n \notin Lowered(saving[w].entries) \/ n \in saving[w].respelt
    BY <1>4, InSaveIs DEF MInv, IsSave
  <2>3. Stated(manifest) = Lowered(saving[w].entries)
    BY <2>1 DEF Stated
  <2> QED
    BY <1>4, <2>2, <2>3
<1> QED
  BY <1>4, <1>5

(* A save no other session crossed leaves a list whose files are there and *)
(* whose digests are theirs, and removes a file only when the list then in *)
(* place names it no longer; of both are left out the files that the list  *)
(* before named by another text.  Any call may fail (vgp.write,            *)
(* vgp._remove_dropped_payloads).                                          *)
THEOREM ListAndFilesAgreeHolds == ManifestsSpec => ListAndFilesAgree
<1>1. ManifestsInit => MInv
  BY MInitInv
<1>2. MInv /\ [ManifestsNext]_manifestVars => MInv'
  BY MNextInv
<1>3. MInv /\ [ManifestsNext]_manifestVars => [SavedWhole /\ RemovedUnnamed]_manifestVars
  <2> SUFFICES ASSUME MInv, NEW w \in Writer, ManifestStep(w) PROVE SavedWhole /\ RemovedUnnamed
    BY DEF ManifestsNext, ManifestStep
  <2> QED
    BY SavedWholeStep, RemovedUnnamedStep
<1> QED
  BY <1>1, <1>2, <1>3, PTL DEF ManifestsSpec, ListAndFilesAgree

---------------------------------------------------------------------------
(* Preferences: what the catalogue says of its kinds.                      *)
KindSound(k) ==
  /\ Kinds[k].secret \subseteq DOMAIN Kinds[k].fields
  /\ \A f \in Kinds[k].secret : Kinds[k].fields[f] = ""
  /\ k = "registry" => "value" \in DOMAIN Kinds[k].fields /\ Kinds[k].secret = {}

LEMMA KindsSound == \A k \in DOMAIN Kinds : KindSound(k)
<1>1. DOMAIN Kinds = {"drive", "registry", "file", "shortcut", "environment", "shared", "port", "local",
                      "group", "user", "service", "task", "immediate"}
  BY DEF Kinds
<1>2. KindSound("drive")
  BY DEF KindSound, Kinds, Drive, KindName
<1>3. KindSound("registry")
  BY DEF KindSound, Kinds, RegistryValue, KindName
<1>4. KindSound("file")
  BY DEF KindSound, Kinds, FileOrFolder, KindName
<1>5. KindSound("shortcut")
  BY DEF KindSound, Kinds, Shortcut, KindName
<1>6. KindSound("environment")
  BY DEF KindSound, Kinds, Environment, KindName
<1>7. KindSound("shared")
  BY DEF KindSound, Kinds, SharedPrinter, KindName
<1>8. KindSound("port")
  BY DEF KindSound, Kinds, PortPrinter, KindName
<1>9. KindSound("local")
  BY DEF KindSound, Kinds, LocalPrinter, KindName
<1>10. KindSound("group")
  BY DEF KindSound, Kinds, LocalGroup, KindName, Quiet
<1>11. KindSound("user")
  <2>1. /\ Kinds["user"].secret = {"cpassword"}
        /\ Kinds["user"].fields = [userName |-> "", cpassword |-> ""]
    <3>1. Kinds["user"] = LocalUser
      BY DEF Kinds
    <3>2. PICK r : r = KindName("userName", [userName |-> "", cpassword |-> ""])
      OBVIOUS
    <3>3. /\ r.fields = [userName |-> "", cpassword |-> ""] /\ r = [x \in DOMAIN r |-> r[x]]
          /\ {"fields", "secret", "status"} \subseteq DOMAIN r
      BY <3>2 DEF KindName
    <3>4. PICK u, l : u = [r EXCEPT !.secret = {"cpassword"}] /\ l = [u EXCEPT !.status = FALSE]
      OBVIOUS
    <3>5. u.secret = {"cpassword"} /\ u.fields = r.fields /\ DOMAIN u = DOMAIN r
      BY ONLY <3>3, <3>4
    <3>6. l.secret = u.secret /\ l.fields = u.fields
      BY ONLY <3>3, <3>4, <3>5
    <3>7. LocalUser = l
      BY <3>2, <3>4 DEF LocalUser, Quiet
    <3> QED
      BY <3>1, <3>3, <3>5, <3>6, <3>7
  <2>2. /\ DOMAIN Kinds["user"].fields = {"userName", "cpassword"}
        /\ Kinds["user"].fields["cpassword"] = ""
    <3>1. PICK g : g = [userName |-> "", cpassword |-> ""]
      OBVIOUS
    <3>2. DOMAIN g = {"userName", "cpassword"} /\ g["cpassword"] = ""
      BY <3>1
    <3> QED
      BY <2>1, <3>1, <3>2, Zenon
  <2>3. \A f \in Kinds["user"].secret : Kinds["user"].fields[f] = ""
    BY <2>1, <2>2
  <2>4. Kinds["user"].secret \subseteq DOMAIN Kinds["user"].fields
    BY <2>1, <2>2
  <2> QED
    BY <2>3, <2>4 DEF KindSound
<1>12. KindSound("service")
  BY DEF KindSound, Kinds, Service, KindName, Quiet
<1>13. KindSound("task")
  BY DEF KindSound, Kinds, Task, KindName, Quiet
<1>14. KindSound("immediate")
  BY DEF KindSound, Kinds, ImmediateTask, Task, KindName, Quiet
<1> QED
  BY <1>1, <1>2, <1>3, <1>4, <1>5, <1>6, <1>7, <1>8, <1>9, <1>10, <1>11, <1>12, <1>13, <1>14

LEMMA TypesSound == \A t \in DOMAIN KindsOf : KindsOf[t] \subseteq DOMAIN Kinds
<1>1. DOMAIN Kinds = {"drive", "registry", "file", "shortcut", "environment", "shared", "port", "local",
                      "group", "user", "service", "task", "immediate"}
  BY DEF Kinds
<1> QED
  BY <1>1 DEF KindsOf

LEMMA TheOne == ASSUME NEW x PROVE The({x}) = x
  BY DEF The

---------------------------------------------------------------------------
(* What the editor sends of an item: its draft, with at most one thing of it *)
(* changed that a form can change.                                         *)
OptionBoxes == [stop : BOOLEAN, context : BOOLEAN, remove : BOOLEAN, once : BOOLEAN]
DraftShape(d) ==
  d = [kind |-> d.kind, uid |-> d.uid, action |-> d.action, properties |-> d.properties,
       inner |-> d.inner, options |-> d.options, targeting |-> d.targeting]
OnForm(kind) == DOMAIN Kinds[kind].fields \ Kinds[kind].secret
DraftOf(o, d) ==
  /\ DraftShape(d) /\ d.kind = o.kind /\ d.uid = o.uid
  /\ d.targeting = {} \/ \E t : ConditionList(t) /\ d.targeting = {t}
  /\ d.options = {} \/ \E b \in OptionBoxes : d.options = {b}
  /\ d.options = {} => d.targeting = {}
  /\ DOMAIN d.properties = DOMAIN o.properties
  /\ \A f \in DOMAIN o.properties : f \in OnForm(o.kind) \/ d.properties[f] = o.properties[f]
  /\ Kinds[o.kind].action \/ d.action = ""

LEMMA OptionsBoxes == \A i : OptionsOf(i) \in OptionBoxes
  BY DEF OptionsOf, OptionBoxes

LEMMA DraftIs ==
  ASSUME NEW o, FileItem(o)
  PROVE  DraftOf(o, Draft(o))
<1>1. PICK d : d = Draft(o)
  OBVIOUS
<1>2. PICK b \in OptionBoxes : b = OptionsOf(o)
  BY OptionsBoxes
<1>3. PICK t : ConditionList(t) /\ t = o.filters.conditions
  BY DEF FileItem, FilterBlock
<1>4. /\ DraftShape(d) /\ d.kind = o.kind /\ d.uid = o.uid /\ d.action = o.action
      /\ d.properties = o.properties /\ d.options = {b}
      /\ d.targeting = IF o.filters.foreign THEN {} ELSE {t}
  BY <1>1, <1>2, <1>3 DEF Draft, DraftShape
<1>5. Kinds[o.kind].action \/ d.action = ""
  BY <1>4 DEF FileItem
<1>6. d.targeting = {} \/ \E c : ConditionList(c) /\ d.targeting = {c}
  BY <1>3, <1>4
<1>7. d.options # {} /\ \E c \in OptionBoxes : d.options = {c}
  BY <1>2, <1>4
<1> QED
  BY <1>1, <1>4, <1>5, <1>6, <1>7 DEF DraftOf

LEMMA TickedBoxes ==
  ASSUME NEW b \in OptionBoxes, NEW name \in {"stop", "context", "remove", "once"}
  PROVE  Ticked(b, name) \in OptionBoxes
  BY DEF Ticked, OptionBoxes

LEMMA EditedIs ==
  ASSUME NEW o, NEW d, NEW e, DraftOf(o, d), e \in EditedItem(d)
  PROVE  DraftOf(o, e)
<1>0. /\ DraftShape(d) /\ d.kind = o.kind /\ d.uid = o.uid
      /\ DOMAIN d.properties = DOMAIN o.properties
      /\ \A f \in DOMAIN o.properties : f \in OnForm(o.kind) \/ d.properties[f] = o.properties[f]
      /\ Kinds[o.kind].action \/ d.action = ""
  BY DEF DraftOf
<1>1. CASE \E f \in OnForm(d.kind), v \in Typed : e = [d EXCEPT !.properties[f] = v]
  <2>1. PICK f \in OnForm(d.kind), v \in Typed : e = [d EXCEPT !.properties[f] = v]
    BY <1>1
  <2>2. PICK p : p = [d.properties EXCEPT ![f] = v]
    OBVIOUS
  <2>3. e = [d EXCEPT !.properties = p]
    BY <2>1, <2>2
  <2>4. /\ DraftShape(e) /\ e.kind = d.kind /\ e.uid = d.uid /\ e.action = d.action
        /\ e.options = d.options /\ e.targeting = d.targeting /\ e.properties = p
    BY ONLY <1>0, <2>3 DEF DraftShape
  <2>5. DOMAIN p = DOMAIN d.properties /\ \A g \in DOMAIN d.properties : g # f => p[g] = d.properties[g]
    BY <2>2
  <2> QED
    BY <1>0, <2>1, <2>4, <2>5 DEF DraftOf
<1>2. CASE \E a \in ActionLetters : Kinds[d.kind].action /\ e = [d EXCEPT !.action = a]
  <2>1. PICK a \in ActionLetters : Kinds[d.kind].action /\ e = [d EXCEPT !.action = a]
    BY <1>2
  <2>2. /\ DraftShape(e) /\ e.kind = d.kind /\ e.uid = d.uid
        /\ e.options = d.options /\ e.targeting = d.targeting /\ e.properties = d.properties
    BY ONLY <1>0, <2>1 DEF DraftShape
  <2> QED
    BY <1>0, <2>1, <2>2 DEF DraftOf
<1>3. CASE \E l : e = [d EXCEPT !.inner = l]
  <2>1. PICK l : e = [d EXCEPT !.inner = l]
    BY <1>3
  <2>2. /\ DraftShape(e) /\ e.kind = d.kind /\ e.uid = d.uid /\ e.action = d.action
        /\ e.options = d.options /\ e.targeting = d.targeting /\ e.properties = d.properties
    BY ONLY <1>0, <2>1 DEF DraftShape
  <2> QED
    BY <1>0, <2>2 DEF DraftOf
<1>4. CASE \E l \in Lists : d.targeting # {} /\ e = [d EXCEPT !.targeting = {l}]
  <2>1. PICK l \in Lists : d.targeting # {} /\ e = [d EXCEPT !.targeting = {l}]
    BY <1>4
  <2>2. /\ DraftShape(e) /\ e.kind = d.kind /\ e.uid = d.uid /\ e.action = d.action
        /\ e.options = d.options /\ e.targeting = {l} /\ e.properties = d.properties
    BY ONLY <1>0, <2>1 DEF DraftShape
  <2>3. ConditionList(l)
    BY PreferenceConstants
  <2> QED
    BY <1>0, <2>1, <2>2, <2>3 DEF DraftOf
<1>5. ASSUME NEW b \in d.options, NEW n \in {"stop", "context", "remove", "once"}, NEW a,
             Kinds[d.kind].action \/ a = "", e = [d EXCEPT !.options = {Ticked(b, n)}, !.action = a]
      PROVE  DraftOf(o, e)
  <2>1. PICK c : c = Ticked(b, n) /\ c \in OptionBoxes
    <3>1. b \in OptionBoxes
      BY DEF DraftOf
    <3> QED
      BY ONLY <3>1, TickedBoxes
  <2>2. e = [d EXCEPT !.options = {c}, !.action = a]
    BY <1>5, <2>1
  <2>3. /\ DraftShape(e) /\ e.kind = d.kind /\ e.uid = d.uid /\ e.action = a
        /\ e.options = {c} /\ e.targeting = d.targeting /\ e.properties = d.properties
    BY ONLY <1>0, <2>2 DEF DraftShape
  <2> QED
    BY <1>0, <1>5, <2>1, <2>3 DEF DraftOf
<1>6. CASE e = [d EXCEPT !.options = {}, !.targeting = {}]
  <2>1. /\ DraftShape(e) /\ e.kind = d.kind /\ e.uid = d.uid /\ e.action = d.action
        /\ e.options = {} /\ e.targeting = {} /\ e.properties = d.properties
    BY ONLY <1>0, <1>6 DEF DraftShape
  <2> QED
    BY <1>0, <2>1 DEF DraftOf
<1>7. \/ e \in FieldTyped(d) \/ e \in ActionChosen(d) \/ e \in InnerSet(d) \/ e \in ConditionsSet(d)
      \/ \E b \in d.options : e \in BoxTicked(d, b)
      \/ e = Withheld(d)
  <2>1. e \in AnyTicked(d) => \E b \in d.options : e \in BoxTicked(d, b)
    BY DEF AnyTicked
  <2>2. \/ e \in FieldTyped(d) \/ e \in ActionChosen(d) \/ e \in InnerSet(d) \/ e \in ConditionsSet(d)
        \/ e \in AnyTicked(d) \/ e = Withheld(d)
    BY e \in EditedItem(d) DEF EditedItem
  <2> QED
    BY <2>1, <2>2
<1>8. ASSUME NEW b \in d.options, NEW n \in Boxes(d, b),
             e = [d EXCEPT !.options = {Ticked(b, n)},
                           !.action = IF n = "remove" /\ ~b.remove /\ d.action # "" THEN "R" ELSE d.action]
      PROVE  DraftOf(o, e)
  <2>1. n \in {"stop", "context", "remove", "once"}
    BY <1>8 DEF Boxes
  <2>2. PICK a : a = IF n = "remove" /\ ~b.remove /\ d.action # "" THEN "R" ELSE d.action
    OBVIOUS
  <2>3. Kinds[d.kind].action \/ a = ""
    BY <1>0, <2>2
  <2>4. e = [d EXCEPT !.options = {Ticked(b, n)}, !.action = a]
    BY <1>8, <2>2
  <2> QED
    BY <1>5, <2>1, <2>3, <2>4
<1>9. ASSUME NEW a \in IF Kinds[d.kind].action THEN ActionLetters ELSE {}, e = [d EXCEPT !.action = a]
      PROVE  DraftOf(o, e)
  <2>1. Kinds[d.kind].action /\ a \in ActionLetters
    OBVIOUS
  <2> QED
    BY <1>2, <1>9, <2>1
<1>10. ASSUME NEW l \in IF d.targeting = {} THEN {} ELSE Lists, e = [d EXCEPT !.targeting = {l}]
      PROVE  DraftOf(o, e)
  <2>1. d.targeting # {} /\ l \in Lists
    OBVIOUS
  <2> QED
    BY <1>4, <1>10, <2>1
<1> QED
  <2>1. CASE e \in FieldTyped(d)
    BY <1>1, <2>1 DEF FieldTyped, OnForm
  <2>2. CASE e \in ActionChosen(d)
    BY <1>9, <2>2 DEF ActionChosen
  <2>3. CASE e \in InnerSet(d)
    BY <1>3, <2>3 DEF InnerSet
  <2>4. CASE e \in ConditionsSet(d)
    BY <1>10, <2>4 DEF ConditionsSet
  <2>5. CASE \E b \in d.options : e \in BoxTicked(d, b)
    BY <1>8, <2>5 DEF BoxTicked
  <2>6. CASE e = Withheld(d)
    BY <1>6, <2>6 DEF Withheld
  <2> QED
    BY <1>7, <2>1, <2>2, <2>3, <2>4, <2>5, <2>6

---------------------------------------------------------------------------
(* What a save makes of one item.                                          *)
Passed(i, f) == f \in OnForm(i.kind) /\ f \in DOMAIN i.properties

LEMMA PropertiesOld ==
  ASSUME NEW o, NEW i
  PROVE  /\ DOMAIN Properties({o}, i) = DOMAIN o.properties \cup DOMAIN Kinds[i.kind].fields
         /\ \A f \in DOMAIN o.properties \cup DOMAIN Kinds[i.kind].fields :
              Properties({o}, i)[f] = IF Passed(i, f) THEN i.properties[f]
                                      ELSE IF f \in DOMAIN o.properties THEN o.properties[f]
                                      ELSE Kinds[i.kind].fields[f]
<1> DEFINE had == UNION {{<<f, x.properties[f]>> : f \in DOMAIN x.properties} : x \in {o}}
           kept == {h[1] : h \in had}
           Value(f) == IF f \in DOMAIN Kinds[i.kind].fields \cap DOMAIN i.properties /\ f \notin Kinds[i.kind].secret
                       THEN i.properties[f]
                       ELSE IF f \in kept THEN (CHOOSE h \in had : h[1] = f)[2]
                       ELSE Kinds[i.kind].fields[f]
<1>1. had = {<<f, o.properties[f]>> : f \in DOMAIN o.properties}
  OBVIOUS
<1>2. kept = DOMAIN o.properties
  <2>1. ASSUME NEW f \in DOMAIN o.properties PROVE f \in kept
    <3>1. PICK t : t = <<f, o.properties[f]>>
      OBVIOUS
    <3>2. t \in had /\ t[1] = f
      BY <1>1, <3>1
    <3> QED
      BY <3>2
  <2>2. ASSUME NEW h \in had PROVE h[1] \in DOMAIN o.properties
    BY <1>1
  <2> HIDE DEF had
  <2>3. kept \subseteq DOMAIN o.properties
    BY <2>2
  <2>4. DOMAIN o.properties \subseteq kept
    <3> HIDE DEF kept
    <3> QED
      BY <2>1
  <2> QED
    BY <2>3, <2>4
<1>3. ASSUME NEW f \in DOMAIN o.properties PROVE (CHOOSE h \in had : h[1] = f)[2] = o.properties[f]
  <2>1. PICK t : t = <<f, o.properties[f]>>
    OBVIOUS
  <2>2. t \in had /\ t[1] = f /\ t[2] = o.properties[f]
    BY <1>1, <2>1
  <2>3. \A h \in had : h[1] = f => h[2] = o.properties[f]
    BY <1>1
  <2>4. PICK g : g = (CHOOSE h \in had : h[1] = f)
    OBVIOUS
  <2>5. g \in had /\ g[1] = f
    <3> HIDE DEF had
    <3> QED
      BY <2>2, <2>4
  <2> QED
    BY <2>3, <2>4, <2>5
<1>4. Properties({o}, i) = [f \in kept \cup DOMAIN Kinds[i.kind].fields |-> Value(f)]
  BY DEF Properties
<1> HIDE DEF had, kept
<1>5. \A f \in DOMAIN o.properties \cup DOMAIN Kinds[i.kind].fields :
        Value(f) = IF Passed(i, f) THEN i.properties[f]
                   ELSE IF f \in DOMAIN o.properties THEN o.properties[f]
                   ELSE Kinds[i.kind].fields[f]
  BY <1>2, <1>3 DEF Passed, OnForm
<1> HIDE DEF Value
<1> QED
  BY <1>2, <1>4, <1>5

LEMMA PropertiesNew ==
  ASSUME NEW i
  PROVE  /\ DOMAIN Properties({}, i) = DOMAIN Kinds[i.kind].fields
         /\ \A f \in DOMAIN Kinds[i.kind].fields :
              Properties({}, i)[f] = IF Passed(i, f) THEN i.properties[f] ELSE Kinds[i.kind].fields[f]
<1> DEFINE had == UNION {{<<f, x.properties[f]>> : f \in DOMAIN x.properties} : x \in {}}
           kept == {h[1] : h \in had}
           Value(f) == IF f \in DOMAIN Kinds[i.kind].fields \cap DOMAIN i.properties /\ f \notin Kinds[i.kind].secret
                       THEN i.properties[f]
                       ELSE IF f \in kept THEN (CHOOSE h \in had : h[1] = f)[2]
                       ELSE Kinds[i.kind].fields[f]
<1>1. kept = {}
  OBVIOUS
<1>2. Properties({}, i) = [f \in kept \cup DOMAIN Kinds[i.kind].fields |-> Value(f)]
  BY DEF Properties
<1> HIDE DEF had, kept
<1>3. \A f \in DOMAIN Kinds[i.kind].fields :
        Value(f) = IF Passed(i, f) THEN i.properties[f] ELSE Kinds[i.kind].fields[f]
  BY <1>1 DEF Passed, OnForm
<1> HIDE DEF Value
<1> QED
  BY <1>1, <1>2, <1>3

\* The properties as they are written, and what else of an item is built.
Final(old, i) ==
  LET p == Normalised(i.kind, Properties(old, i))
  IN IF i.kind = "registry" /\ p.type = "REG_MULTI_SZ" THEN [p EXCEPT !.value = Joined(Inner(old, i, p))] ELSE p
ActionOf(old, i) ==
  IF ~Kinds[i.kind].action THEN "" ELSE IF i.options # {} /\ Options(old, i).remove THEN "R" ELSE i.action
Core(old, i, fresh) ==
  [kind |-> i.kind, uid |-> FreshUid(i, fresh), status |-> StatusText(i.kind, Final(old, i)), action |-> ActionOf(old, i),
   properties |-> Final(old, i), inner |-> Inner(old, i, Normalised(i.kind, Properties(old, i))),
   filters |-> Filters(old, i, fresh), extra |-> Extras(old, i), changed |-> 0]
Alike1(old, item) == {o \in old : [o EXCEPT !.changed = 0] = item}

LEMMA BuiltIs ==
  ASSUME NEW old, NEW i, NEW fresh
  PROVE  Built(old, i, fresh) =
           [Core(old, i, fresh) EXCEPT !.changed =
              IF Alike1(old, Core(old, i, fresh)) = {} THEN fresh ELSE The(Alike1(old, Core(old, i, fresh))).changed]
  BY DEF Built, Core, Final, ActionOf, Alike1

(* Of the properties only a registry value's own is respelled.             *)
LEMMA FinalIs ==
  ASSUME NEW old, NEW i
  PROVE  /\ DOMAIN Final(old, i) = DOMAIN Properties(old, i)
         /\ \A f \in DOMAIN Properties(old, i) :
              (f # "value" \/ i.kind # "registry") => Final(old, i)[f] = Properties(old, i)[f]
<1>1. PICK p : p = Properties(old, i)
  OBVIOUS
<1>2. PICK n : n = Normalised(i.kind, p)
  OBVIOUS
<1>3. /\ DOMAIN n = DOMAIN p
      /\ \A f \in DOMAIN p : (f # "value" \/ i.kind # "registry") => n[f] = p[f]
  <2>1. CASE Numeric(i.kind, p)
    <3>1. PICK v : v = SpelledOut[p.type][p.value]
      OBVIOUS
    <3>2. n = [p EXCEPT !.value = v] /\ i.kind = "registry"
      BY <1>2, <2>1, <3>1 DEF Normalised, Numeric
    <3> QED
      BY <3>2
  <2>2. CASE ~Numeric(i.kind, p)
    BY <1>2, <2>2 DEF Normalised
  <2> QED
    BY <2>1, <2>2
<1>4. PICK v : v = Joined(Inner(old, i, n))
  OBVIOUS
<1>5. Final(old, i) = IF i.kind = "registry" /\ n.type = "REG_MULTI_SZ" THEN [n EXCEPT !.value = v] ELSE n
  BY <1>1, <1>2, <1>4 DEF Final
<1>6. CASE i.kind = "registry" /\ n.type = "REG_MULTI_SZ"
  <2>1. Final(old, i) = [n EXCEPT !.value = v]
    BY <1>5, <1>6
  <2>2. DOMAIN Final(old, i) = DOMAIN n /\ \A f \in DOMAIN n : f # "value" => Final(old, i)[f] = n[f]
    BY ONLY <2>1
  <2> QED
    BY ONLY <1>1, <1>3, <1>6, <2>2
<1>7. CASE ~(i.kind = "registry" /\ n.type = "REG_MULTI_SZ")
  BY <1>1, <1>3, <1>5, <1>7
<1> QED
  BY <1>6, <1>7

LEMMA Parts ==
  ASSUME NEW old, NEW i, NEW fresh
  PROVE  LET b == Built(old, i, fresh)
         IN /\ b = [kind |-> i.kind, uid |-> FreshUid(i, fresh), status |-> b.status, action |-> ActionOf(old, i),
                    properties |-> Final(old, i), inner |-> b.inner, filters |-> Filters(old, i, fresh),
                    extra |-> Extras(old, i), changed |-> b.changed]
            /\ Core(old, i, fresh) =
                 [kind |-> i.kind, uid |-> FreshUid(i, fresh), status |-> b.status, action |-> ActionOf(old, i),
                  properties |-> Final(old, i), inner |-> b.inner, filters |-> Filters(old, i, fresh),
                  extra |-> Extras(old, i), changed |-> 0]
            /\ b.inner = Inner(old, i, Normalised(i.kind, Properties(old, i)))
            /\ b.changed = IF Alike1(old, Core(old, i, fresh)) = {} THEN fresh
                           ELSE The(Alike1(old, Core(old, i, fresh))).changed
<1>1. PICK c : c = Core(old, i, fresh)
  OBVIOUS
<1>2. PICK g : g = IF Alike1(old, c) = {} THEN fresh ELSE The(Alike1(old, c)).changed
  OBVIOUS
<1>3. PICK b : b = [c EXCEPT !.changed = g]
  OBVIOUS
<1>4. Built(old, i, fresh) = b
  BY <1>1, <1>2, <1>3, BuiltIs
<1>5. PICK u, s, a, p, n, f, e : /\ u = FreshUid(i, fresh) /\ s = StatusText(i.kind, Final(old, i))
                                 /\ a = ActionOf(old, i) /\ p = Final(old, i)
                                 /\ n = Inner(old, i, Normalised(i.kind, Properties(old, i)))
                                 /\ f = Filters(old, i, fresh) /\ e = Extras(old, i)
  OBVIOUS
<1>6. c = [kind |-> i.kind, uid |-> u, status |-> s, action |-> a, properties |-> p, inner |-> n,
           filters |-> f, extra |-> e, changed |-> 0]
  BY <1>1, <1>5 DEF Core
<1>7. /\ b = [kind |-> i.kind, uid |-> u, status |-> b.status, action |-> a, properties |-> p, inner |-> b.inner,
              filters |-> f, extra |-> e, changed |-> b.changed]
      /\ b.inner = n /\ b.changed = g /\ b.status = s
  BY ONLY <1>3, <1>6
<1> QED
  BY <1>1, <1>2, <1>4, <1>5, <1>6, <1>7

(* Conditions resolved and rendered: as many as were sent, of the types    *)
(* sent; those of a file come out as they were.                            *)
Condition(c) == c = [type |-> c.type, who |-> c.who, bool |-> c.bool, dn |-> c.dn]
NoDns(cs) == \A k \in DOMAIN cs : cs[k].dn = ""
Typed1(cs, ds) == Len(ds) = Len(cs) /\ \A k \in DOMAIN cs : ds[k].type = cs[k].type
ResolveOne(c) == IF c.dn = "" THEN c ELSE [c EXCEPT !.dn = "", !.who = Directory[c.dn].who]
ByAnd(c) == [c EXCEPT !.bool = "AND"]

LEMMA ListIs ==
  ASSUME NEW r, NEW n \in Nat, r = [k \in 1..n |-> r[k]]
  PROVE  r \in Seq({r[k] : k \in DOMAIN r}) /\ Len(r) = n /\ DOMAIN r = 1..n
<1>1. DOMAIN r = 1..n
  OBVIOUS
<1>2. PICK S : S = {r[k] : k \in DOMAIN r}
  OBVIOUS
<1>3. r \in [1..n -> S]
  BY <1>1, <1>2
<1>4. r \in Seq(S)
  BY <1>3, SeqDef
<1>5. Len(r) \in Nat /\ DOMAIN r = 1..Len(r)
  BY <1>4, LenProperties
<1> QED
  BY <1>1, <1>2, <1>4, <1>5

LEMMA ConditionsAre ==
  ASSUME NEW cs, ConditionList(cs)
  PROVE  /\ Len(cs) \in Nat /\ DOMAIN cs = 1..Len(cs) /\ cs = [k \in 1..Len(cs) |-> cs[k]]
         /\ \A k \in DOMAIN cs : Condition(cs[k])
<1>1. PICK S : cs \in Seq(S)
  BY DEF ConditionList
<1>2. Len(cs) \in Nat /\ DOMAIN cs = 1..Len(cs) /\ cs = [k \in 1..Len(cs) |-> cs[k]]
  BY <1>1
<1> QED
  BY <1>2 DEF ConditionList, Condition

LEMMA ResolveOneIs ==
  ASSUME NEW c, Condition(c)
  PROVE  /\ Condition(ResolveOne(c)) /\ ResolveOne(c).type = c.type /\ ResolveOne(c).bool = c.bool
         /\ ResolveOne(c).dn = "" /\ (c.dn = "" => ResolveOne(c) = c)
<1>1. CASE c.dn = ""
  BY <1>1 DEF ResolveOne
<1>2. CASE c.dn # ""
  <2>1. PICK t, v, b, d, w : c = [type |-> t, who |-> v, bool |-> b, dn |-> d] /\ w = Directory[c.dn].who
    BY DEF Condition
  <2>2. PICK u : u = [c EXCEPT !.dn = ""]
    OBVIOUS
  <2>3. PICK x : x = [u EXCEPT !.who = w]
    OBVIOUS
  <2>4. ResolveOne(c) = x
    BY <1>2, <2>1, <2>2, <2>3 DEF ResolveOne
  <2>5. u = [type |-> t, who |-> v, bool |-> b, dn |-> ""]
    BY ONLY <2>1, <2>2
  <2>6. x = [type |-> t, who |-> w, bool |-> b, dn |-> ""]
    BY ONLY <2>3, <2>5
  <2>7. Condition(x) /\ x.type = c.type /\ x.bool = c.bool /\ x.dn = ""
    BY ONLY <2>1, <2>6 DEF Condition
  <2> QED
    BY ONLY <1>2, <2>4, <2>7
<1> QED
  BY <1>1, <1>2

LEMMA ByAndIs ==
  ASSUME NEW c, Condition(c)
  PROVE  /\ Condition(ByAnd(c)) /\ ByAnd(c).type = c.type /\ ByAnd(c).dn = c.dn /\ ByAnd(c).bool = "AND"
         /\ (c.bool = "AND" => ByAnd(c) = c)
<1>1. PICK u : u = [c EXCEPT !.bool = "AND"]
  OBVIOUS
<1>2. PICK t, w, b, d : c = [type |-> t, who |-> w, bool |-> b, dn |-> d]
  BY DEF Condition
<1>3. u = [type |-> t, who |-> w, bool |-> "AND", dn |-> d]
  BY ONLY <1>1, <1>2
<1>4. Condition(u) /\ u.type = c.type /\ u.dn = c.dn /\ u.bool = "AND"
  BY ONLY <1>2, <1>3 DEF Condition
<1>5. c.bool = "AND" => u = c
  BY ONLY <1>2, <1>3
<1> QED
  BY <1>1, <1>4, <1>5 DEF ByAnd

LEMMA ResolveIs ==
  ASSUME NEW cs, ConditionList(cs)
  PROVE  /\ ConditionList(Resolve(cs)) /\ Typed1(cs, Resolve(cs)) /\ NoDns(Resolve(cs))
         /\ \A k \in DOMAIN cs : Resolve(cs)[k].bool = cs[k].bool
         /\ NoDns(cs) => Resolve(cs) = cs
<1>0. /\ Len(cs) \in Nat /\ DOMAIN cs = 1..Len(cs) /\ cs = [k \in 1..Len(cs) |-> cs[k]]
      /\ \A k \in 1..Len(cs) : Condition(cs[k])
  BY ConditionsAre
<1>1. PICK r : r = [k \in 1..Len(cs) |-> ResolveOne(cs[k])]
  OBVIOUS
<1>2. Resolve(cs) = r
  <2>1. Resolve(cs) = [k \in DOMAIN cs |-> ResolveOne(cs[k])]
    BY DEF Resolve, ResolveOne
  <2> QED
    BY <1>0, <1>1, <2>1
<1>4. r = [k \in 1..Len(cs) |-> r[k]] /\ \A k \in 1..Len(cs) : r[k] = ResolveOne(cs[k])
  BY <1>1
<1>5. \A k \in 1..Len(cs) : /\ Condition(r[k]) /\ r[k].type = cs[k].type /\ r[k].bool = cs[k].bool /\ r[k].dn = ""
                            /\ (cs[k].dn = "" => r[k] = cs[k])
  <2> SUFFICES ASSUME NEW k \in 1..Len(cs)
               PROVE  /\ Condition(r[k]) /\ r[k].type = cs[k].type /\ r[k].bool = cs[k].bool /\ r[k].dn = ""
                      /\ (cs[k].dn = "" => r[k] = cs[k])
    OBVIOUS
  <2>1. PICK c : c = cs[k] /\ Condition(c)
    BY <1>0
  <2>2. r[k] = ResolveOne(c)
    BY <1>4, <2>1
  <2> QED
    BY <2>1, <2>2, ResolveOneIs
<1>6. r \in Seq({r[k] : k \in DOMAIN r}) /\ Len(r) = Len(cs) /\ DOMAIN r = 1..Len(cs)
  BY ONLY <1>0, <1>4, ListIs
<1>7. NoDns(cs) => r = cs
  <2> SUFFICES ASSUME NoDns(cs) PROVE r = cs
    OBVIOUS
  <2>1. \A k \in 1..Len(cs) : r[k] = cs[k]
    BY <1>0, <1>5 DEF NoDns
  <2> QED
    BY <1>0, <1>4, <2>1
<1>8. ConditionList(r)
  BY <1>5, <1>6 DEF ConditionList, Condition
<1>9. Typed1(cs, r) /\ NoDns(r)
  BY <1>0, <1>5, <1>6 DEF Typed1, NoDns
<1> QED
  BY <1>0, <1>2, <1>5, <1>7, <1>8, <1>9

Rendering(cs, once, f) ==
  /\ FilterBlock(f) /\ ~f.foreign /\ f.once = once
  /\ Typed1(cs, f.conditions) /\ AsInFile(f.conditions)
  /\ \A k \in DOMAIN cs : f.conditions[k].dn = "" /\ f.conditions[k].bool = IF k = 1 THEN "AND" ELSE cs[k].bool
  /\ AsInFile(cs) => f.conditions = cs

LEMMA RenderIs ==
  ASSUME NEW cs, ConditionList(cs), NEW once \in Nat, NoDns(cs)
  PROVE  Rendering(cs, once, RenderFilters(cs, once))
<1>0. /\ Len(cs) \in Nat /\ DOMAIN cs = 1..Len(cs) /\ cs = [k \in 1..Len(cs) |-> cs[k]]
      /\ \A k \in 1..Len(cs) : Condition(cs[k])
  BY ConditionsAre
<1>1. PICK r : r = [k \in 1..Len(cs) |-> IF k = 1 THEN ByAnd(cs[k]) ELSE cs[k]]
  OBVIOUS
<1>2. PICK f : f = RenderFilters(cs, once)
  OBVIOUS
<1>3. f = [conditions |-> r, foreign |-> FALSE, once |-> once]
  <2>1. RenderFilters(cs, once) = [conditions |-> [k \in DOMAIN cs |-> IF k = 1 THEN ByAnd(cs[k]) ELSE cs[k]],
                                   foreign |-> FALSE, once |-> once]
    BY DEF RenderFilters, ByAnd
  <2> QED
    BY <1>0, <1>1, <1>2, <2>1
<1>4. r = [k \in 1..Len(cs) |-> r[k]] /\ \A k \in 1..Len(cs) : r[k] = IF k = 1 THEN ByAnd(cs[k]) ELSE cs[k]
  BY <1>1
<1>5. \A k \in 1..Len(cs) : /\ Condition(r[k]) /\ r[k].type = cs[k].type /\ r[k].dn = ""
                            /\ r[k].bool = (IF k = 1 THEN "AND" ELSE cs[k].bool)
                            /\ ((k = 1 => cs[k].bool = "AND") => r[k] = cs[k])
  <2> SUFFICES ASSUME NEW k \in 1..Len(cs)
               PROVE  /\ Condition(r[k]) /\ r[k].type = cs[k].type /\ r[k].dn = ""
                      /\ r[k].bool = (IF k = 1 THEN "AND" ELSE cs[k].bool)
                      /\ ((k = 1 => cs[k].bool = "AND") => r[k] = cs[k])
    OBVIOUS
  <2>1. PICK c : c = cs[k] /\ Condition(c) /\ c.dn = ""
    BY <1>0 DEF NoDns
  <2>2. r[k] = IF k = 1 THEN ByAnd(c) ELSE c
    BY <1>4, <2>1
  <2> QED
    BY <2>1, <2>2, ByAndIs
<1>6. r \in Seq({r[k] : k \in DOMAIN r}) /\ Len(r) = Len(cs) /\ DOMAIN r = 1..Len(cs)
  BY ONLY <1>0, <1>4, ListIs
<1>7. AsInFile(cs) => r = cs
  <2> SUFFICES ASSUME AsInFile(cs) PROVE r = cs
    OBVIOUS
  <2>1. \A k \in 1..Len(cs) : r[k] = cs[k]
    BY <1>0, <1>5 DEF AsInFile
  <2> QED
    BY <1>0, <1>4, <2>1
<1>8. AsInFile(r)
  BY <1>5, <1>6 DEF AsInFile
<1>9. ConditionList(r)
  BY <1>5, <1>6 DEF ConditionList, Condition
<1>10. Typed1(cs, r)
  BY <1>0, <1>5, <1>6 DEF Typed1
<1>11. f.conditions = r /\ ~f.foreign /\ f.once = once
  BY <1>3
<1>12. FilterBlock(f)
  BY <1>3, <1>9, <1>11 DEF FilterBlock
<1> QED
  BY <1>0, <1>2, <1>5, <1>7, <1>8, <1>10, <1>11, <1>12 DEF Rendering

\* An item as a save leaves it applies to those the request says.
OptionsKept(f, i) == \A b \in i.options : (ReadFilters(f).once # 0) = b.once
ConditionsKept(f, i) ==
  \A t \in i.targeting :
    /\ Len(f.conditions) = Len(t)
    /\ \A k \in DOMAIN t : /\ f.conditions[k].type = t[k].type /\ f.conditions[k].dn = ""
                           /\ f.conditions[k].bool = IF k = 1 THEN "AND" ELSE t[k].bool
FiltersFollow(had, f, i) ==
  /\ had.foreign => f = had
  /\ had.once # 0 /\ f.once # 0 => f.once = had.once
  /\ had.once # 0 /\ f.once = 0 => i.options # {}
  /\ f.conditions # had.conditions => i.targeting \notin {{}, {had.conditions}}

\* What a draft asks for, of an item that is there or of a new one.
Wanted(i) ==
  /\ i.targeting = {} \/ \E t : ConditionList(t) /\ i.targeting = {t}
  /\ i.options = {} \/ \E b \in OptionBoxes : i.options = {b}
  /\ i.options = {} => i.targeting = {}

FiltersGood(had, f, i) ==
  /\ FilterBlock(f) /\ (f.foreign \/ AsInFile(f.conditions))
  /\ OptionsKept(f, i) /\ ConditionsKept(f, i) /\ FiltersFollow(had, f, i)

LEMMA FiltersAre ==
  ASSUME NEW old, NEW i, NEW fresh \in Nat \ {0}, NEW half, Wanted(i), ~OptionsRefused(half, old, i),
         FilterBlock(FiltersOf(old)), FiltersOf(old).foreign \/ AsInFile(FiltersOf(old).conditions)
  PROVE  FiltersGood(FiltersOf(old), Filters(old, i, fresh), i)
<1> USE DEF FiltersGood
<1>1. PICK had : had = FiltersOf(old)
  OBVIOUS
<1>2. PICK f : f = Filters(old, i, fresh)
  OBVIOUS
<1>3. FilterBlock(had) /\ (had.foreign \/ AsInFile(had.conditions))
  BY <1>1
<1>4. CASE i.options = {}
  <2>1. i.targeting = {}
    BY <1>4 DEF Wanted
  <2>2. f = had
    BY <1>1, <1>2, <1>4, <2>1 DEF Filters
  <2> QED
    BY <1>1, <1>2, <1>3, <1>4, <2>1, <2>2 DEF OptionsKept, ConditionsKept, FiltersFollow
<1>5. CASE i.options # {}
  <2>1. PICK b \in OptionBoxes : i.options = {b}
    BY <1>5 DEF Wanted
  <2>2. Options(old, i) = b
    BY <1>5, <2>1, TheOne DEF Options
  <2>3. CASE had.foreign
    <3>1. f = had
      BY <1>1, <1>2, <2>3 DEF Filters
    <3>2. i.targeting = {} /\ b.once = (ReadFilters(had).once # 0)
      BY <1>1, <1>5, <2>2, <2>3 DEF OptionsRefused
    <3>3. OptionsKept(f, i)
      BY <2>1, <3>1, <3>2 DEF OptionsKept
    <3> QED
      BY <1>1, <1>2, <1>3, <1>5, <3>1, <3>2, <3>3 DEF ConditionsKept, FiltersFollow
  <2>4. CASE ~had.foreign
    <3>1. PICK mark : mark = IF ~b.once THEN 0 ELSE IF had.once # 0 THEN had.once ELSE fresh
      OBVIOUS
    <3>2. /\ mark \in Nat /\ (mark # 0) = b.once
          /\ (had.once # 0 /\ mark # 0 => mark = had.once)
      <4>1. had.once \in Nat /\ b.once \in BOOLEAN
        BY <1>3 DEF FilterBlock, OptionBoxes
      <4> QED
        BY <3>1, <4>1
    <3>3. PICK c : c = IF i.targeting = {} THEN had.conditions ELSE Resolve(The(i.targeting))
      OBVIOUS
    <3>4. f = RenderFilters(c, mark)
      BY <1>1, <1>2, <1>5, <2>2, <2>4, <3>1, <3>3 DEF Filters
    <3>5. AsInFile(had.conditions) /\ NoDns(had.conditions) /\ ConditionList(had.conditions)
      BY <1>3, <2>4 DEF AsInFile, NoDns, FilterBlock
    <3>6. CASE i.targeting = {}
      <4>1. c = had.conditions
        BY <3>3, <3>6
      <4>2. FilterBlock(f) /\ ~f.foreign /\ f.once = mark /\ f.conditions = had.conditions
        <5>1. Rendering(c, mark, f)
          BY ONLY <3>2, <3>4, <3>5, <4>1, RenderIs
        <5> QED
          BY <3>5, <4>1, <5>1 DEF Rendering
      <4>3. OptionsKept(f, i)
        BY <2>1, <3>2, <4>2 DEF OptionsKept, ReadFilters
      <4>4. ConditionsKept(f, i) /\ FiltersFollow(had, f, i)
        BY <1>5, <2>4, <3>2, <3>6, <4>2 DEF ConditionsKept, FiltersFollow
      <4> QED
        BY <1>1, <1>2, <3>5, <4>2, <4>3, <4>4
    <3>7. CASE i.targeting # {}
      <4>1. PICK t : ConditionList(t) /\ i.targeting = {t}
        BY <3>7 DEF Wanted
      <4>2. c = Resolve(t)
        BY <3>3, <3>7, <4>1, TheOne
      <4>3. /\ ConditionList(c) /\ Typed1(t, c) /\ NoDns(c) /\ \A k \in DOMAIN t : c[k].bool = t[k].bool
            /\ (NoDns(t) => c = t)
        BY ONLY <4>1, <4>2, ResolveIs
      <4>4. /\ FilterBlock(f) /\ ~f.foreign /\ f.once = mark /\ Typed1(c, f.conditions) /\ AsInFile(f.conditions)
            /\ \A k \in DOMAIN c : f.conditions[k].dn = "" /\ f.conditions[k].bool = IF k = 1 THEN "AND" ELSE c[k].bool
            /\ AsInFile(c) => f.conditions = c
        <5>1. Rendering(c, mark, f)
          BY ONLY <3>2, <3>4, <4>3, RenderIs
        <5> QED
          BY <5>1 DEF Rendering
      <4>5. DOMAIN c = DOMAIN t
        <5>1. DOMAIN c = 1..Len(c) /\ DOMAIN t = 1..Len(t) /\ Len(c) = Len(t)
          BY <4>1, <4>3, ConditionsAre DEF Typed1
        <5> QED
          BY <5>1
      <4>6. ConditionsKept(f, i)
        BY <4>1, <4>3, <4>4, <4>5 DEF ConditionsKept, Typed1
      <4>7. OptionsKept(f, i)
        BY <2>1, <3>2, <4>4 DEF OptionsKept, ReadFilters
      <4>8. t = had.conditions => f.conditions = had.conditions
        BY <3>5, <4>3, <4>4
      <4>9. f.conditions # had.conditions => i.targeting \notin {{}, {had.conditions}}
        BY <4>1, <4>8
      <4>10. FiltersFollow(had, f, i)
        BY <1>5, <2>4, <3>2, <4>4, <4>9 DEF FiltersFollow
      <4> QED
        BY <1>1, <1>2, <4>4, <4>6, <4>7, <4>10
    <3> QED
      BY <3>6, <3>7
  <2> QED
    BY <2>3, <2>4
<1>6. FiltersGood(had, f, i)
  BY <1>1, <1>2, <1>4, <1>5 DEF FiltersGood
<1> QED
  BY <1>1, <1>2, <1>6

ExtraNames == {"bypassErrors", "userContext", "removePolicy"}
NoExtras == [bypassErrors |-> "", userContext |-> "", removePolicy |-> ""]
ExtrasFollow(e, i) ==
  \A b \in i.options : /\ (e.bypassErrors = "0") = b.stop /\ (e.userContext = "1") = b.context
                       /\ (e.removePolicy = "1") = b.remove

LEMMA ExtrasAre ==
  ASSUME NEW old, NEW i, Wanted(i), old = {} \/ \E o : old = {o} /\ DOMAIN o.extra = ExtraNames
  PROVE  DOMAIN Extras(old, i) = ExtraNames /\ ExtrasFollow(Extras(old, i), i)
<1>1. PICK had : had = IF old = {} THEN NoExtras ELSE The(old).extra
  OBVIOUS
<1>2. DOMAIN had = ExtraNames
  <2>1. CASE old = {}
    BY <1>1, <2>1 DEF NoExtras, ExtraNames
  <2>2. CASE \E o : old = {o} /\ DOMAIN o.extra = ExtraNames
    BY <1>1, <2>2, TheOne
  <2> QED
    BY <2>1, <2>2
<1>3. CASE i.options = {}
  <2>1. Extras(old, i) = had
    BY <1>1, <1>3 DEF Extras, NoExtras
  <2> QED
    BY <1>2, <1>3, <2>1 DEF ExtrasFollow
<1>4. CASE i.options # {}
  <2>1. PICK b \in OptionBoxes : i.options = {b} /\ Options(old, i) = b
    BY <1>4, TheOne DEF Wanted, Options
  <2>2. PICK r, u, s : /\ r = SetOption(had.removePolicy, b.remove) /\ u = SetOption(had.userContext, b.context)
                       /\ s = IF b.stop THEN "0" ELSE IF had.bypassErrors # "" \/ old = {} THEN "1" ELSE ""
    OBVIOUS
  <2>3. Extras(old, i) = [removePolicy |-> r, userContext |-> u, bypassErrors |-> s]
    BY <1>1, <1>4, <2>1, <2>2 DEF Extras, NoExtras
  <2>4. b.stop \in BOOLEAN /\ b.context \in BOOLEAN /\ b.remove \in BOOLEAN
    BY DEF OptionBoxes
  <2>5. (r = "1") = b.remove /\ (u = "1") = b.context /\ (s = "0") = b.stop
    BY <2>2, <2>4 DEF SetOption
  <2>6. PICK e : e = Extras(old, i)
    OBVIOUS
  <2>7. DOMAIN e = ExtraNames /\ e.removePolicy = r /\ e.userContext = u /\ e.bypassErrors = s
    BY <2>3, <2>6 DEF ExtraNames
  <2> QED
    BY <2>1, <2>5, <2>6, <2>7 DEF ExtrasFollow
<1> QED
  BY <1>3, <1>4

(* The item read back has the options sent.                                *)
LEMMA OptionsReadBack ==
  ASSUME NEW a, NEW i, Wanted(i), ExtrasFollow(a.extra, i), OptionsKept(a.filters, i)
  PROVE  \A b \in i.options : OptionsOf(a) = b
<1> SUFFICES ASSUME NEW b \in i.options PROVE OptionsOf(a) = b
  OBVIOUS
<1>1. b \in OptionBoxes
  BY DEF Wanted
<1>2. PICK s, c, r, o : b = [stop |-> s, context |-> c, remove |-> r, once |-> o]
  BY <1>1 DEF OptionBoxes
<1>3. /\ (a.extra.bypassErrors = "0") = s /\ (a.extra.userContext = "1") = c
      /\ (a.extra.removePolicy = "1") = r /\ (ReadFilters(a.filters).once # 0) = o
  BY <1>2 DEF ExtrasFollow, OptionsKept
<1> QED
  BY <1>2, <1>3 DEF OptionsOf

(* A save does not stamp an item it left as it was.                        *)
LEMMA StampFollows ==
  ASSUME NEW o, NEW i, NEW fresh, FileItem(o), [Built({o}, i, fresh) EXCEPT !.changed = o.changed] = o
  PROVE  Built({o}, i, fresh) = o
<1>1. PICK b : b = Built({o}, i, fresh)
  OBVIOUS
<1>2. PICK c : c = Core({o}, i, fresh)
  OBVIOUS
<1>9. PICK k, u, s, a, p, n, f, e, x :
        /\ k = i.kind /\ u = FreshUid(i, fresh) /\ s = b.status /\ a = ActionOf({o}, i) /\ p = Final({o}, i)
        /\ n = b.inner /\ f = Filters({o}, i, fresh) /\ e = Extras({o}, i) /\ x = b.changed
  OBVIOUS
<1>3. /\ b = [kind |-> k, uid |-> u, status |-> s, action |-> a, properties |-> p, inner |-> n, filters |-> f,
              extra |-> e, changed |-> x]
      /\ c = [kind |-> k, uid |-> u, status |-> s, action |-> a, properties |-> p, inner |-> n, filters |-> f,
              extra |-> e, changed |-> 0]
      /\ x = IF Alike1({o}, c) = {} THEN fresh ELSE The(Alike1({o}, c)).changed
  <2>1. b = [kind |-> k, uid |-> u, status |-> s, action |-> a, properties |-> p, inner |-> n, filters |-> f,
             extra |-> e, changed |-> x]
    BY ONLY <1>1, <1>9, Parts
  <2>2. c = [kind |-> k, uid |-> u, status |-> s, action |-> a, properties |-> p, inner |-> n, filters |-> f,
             extra |-> e, changed |-> 0]
    BY ONLY <1>1, <1>2, <1>9, Parts
  <2>3. x = IF Alike1({o}, c) = {} THEN fresh ELSE The(Alike1({o}, c)).changed
    BY ONLY <1>1, <1>2, <1>9, Parts
  <2> QED
    BY ONLY <2>1, <2>2, <2>3
<1>4. PICK y : y = o.changed
  OBVIOUS
<1>5. o = [kind |-> k, uid |-> u, status |-> s, action |-> a, properties |-> p, inner |-> n, filters |-> f,
           extra |-> e, changed |-> y]
  <2>1. [b EXCEPT !.changed = y] = o
    BY <1>1, <1>4
  <2> QED
    BY ONLY <1>3, <2>1
<1>6. [o EXCEPT !.changed = 0] = c
  BY ONLY <1>3, <1>5
<1>7. Alike1({o}, c) = {o}
  BY <1>6 DEF Alike1
<1>8. x = y
  BY <1>3, <1>4, <1>7, TheOne
<1> QED
  BY <1>1, <1>3, <1>5, <1>8

---------------------------------------------------------------------------
(* One item through a save.                                                *)
\* What WrittenBare or Written leaves of an item: all but its status.
LEMMA WrittenIs ==
  ASSUME NEW b, b = [kind |-> b.kind, uid |-> b.uid, status |-> b.status, action |-> b.action,
                     properties |-> b.properties, inner |-> b.inner, filters |-> b.filters, extra |-> b.extra,
                     changed |-> b.changed]
  PROVE  LET a == Written(b)
         IN /\ a = [kind |-> b.kind, uid |-> b.uid, status |-> a.status, action |-> b.action,
                    properties |-> b.properties, inner |-> b.inner, filters |-> b.filters, extra |-> b.extra,
                    changed |-> b.changed]
            /\ Kinds[b.kind].status => a = b
<1>1. PICK a : a = [b EXCEPT !.status = ""]
  OBVIOUS
<1>2. a = [kind |-> b.kind, uid |-> b.uid, status |-> a.status, action |-> b.action, properties |-> b.properties,
           inner |-> b.inner, filters |-> b.filters, extra |-> b.extra, changed |-> b.changed]
  <2>1. PICK k, u, s, c, p, n, f, e, x :
          /\ k = b.kind /\ u = b.uid /\ s = b.status /\ c = b.action /\ p = b.properties
          /\ n = b.inner /\ f = b.filters /\ e = b.extra /\ x = b.changed
    OBVIOUS
  <2>2. b = [kind |-> k, uid |-> u, status |-> s, action |-> c, properties |-> p, inner |-> n, filters |-> f,
             extra |-> e, changed |-> x]
    BY <2>1
  <2>3. a = [kind |-> k, uid |-> u, status |-> a.status, action |-> c, properties |-> p, inner |-> n, filters |-> f,
             extra |-> e, changed |-> x]
    BY ONLY <1>1, <2>2
  <2> QED
    BY <2>1, <2>3
<1>3. Written(b) = IF Kinds[b.kind].status THEN b ELSE a
  BY <1>1 DEF Written
<1> QED
  BY <1>2, <1>3

\* The written item, part by part.
Made(old, i, fresh, a) ==
  /\ a = [kind |-> i.kind, uid |-> FreshUid(i, fresh), status |-> a.status, action |-> ActionOf(old, i),
          properties |-> Final(old, i), inner |-> Inner(old, i, Normalised(i.kind, Properties(old, i))),
          filters |-> Filters(old, i, fresh), extra |-> Extras(old, i), changed |-> a.changed]
  /\ a.changed = IF Alike1(old, Core(old, i, fresh)) = {} THEN fresh ELSE The(Alike1(old, Core(old, i, fresh))).changed
  /\ Kinds[i.kind].status => a = Built(old, i, fresh)

LEMMA MadeIs ==
  ASSUME NEW old, NEW i, NEW fresh
  PROVE  Made(old, i, fresh, Written(Built(old, i, fresh)))
<1>1. PICK b : b = Built(old, i, fresh)
  OBVIOUS
<1>2. PICK a : a = Written(b)
  OBVIOUS
<1>3. PICK k, u, c, p, n, f, e : /\ k = i.kind /\ u = FreshUid(i, fresh) /\ c = ActionOf(old, i) /\ p = Final(old, i)
                                 /\ n = Inner(old, i, Normalised(i.kind, Properties(old, i)))
                                 /\ f = Filters(old, i, fresh) /\ e = Extras(old, i)
  OBVIOUS
<1>4. /\ b = [kind |-> k, uid |-> u, status |-> b.status, action |-> c, properties |-> p, inner |-> n, filters |-> f,
              extra |-> e, changed |-> b.changed]
      /\ b.changed = IF Alike1(old, Core(old, i, fresh)) = {} THEN fresh ELSE The(Alike1(old, Core(old, i, fresh))).changed
  BY <1>1, <1>3, Parts
<1>5. /\ b.kind = k /\ b.uid = u /\ b.action = c /\ b.properties = p /\ b.inner = n /\ b.filters = f /\ b.extra = e
  BY ONLY <1>4
<1>6. /\ a = [kind |-> b.kind, uid |-> b.uid, status |-> a.status, action |-> b.action,
              properties |-> b.properties, inner |-> b.inner, filters |-> b.filters, extra |-> b.extra,
              changed |-> b.changed]
      /\ Kinds[b.kind].status => a = b
  <2>1. b = [kind |-> b.kind, uid |-> b.uid, status |-> b.status, action |-> b.action,
             properties |-> b.properties, inner |-> b.inner, filters |-> b.filters, extra |-> b.extra,
             changed |-> b.changed]
    BY ONLY <1>4, <1>5
  <2> QED
    BY <1>2, <2>1, WrittenIs
<1>7. a = [kind |-> k, uid |-> u, status |-> a.status, action |-> c, properties |-> p, inner |-> n, filters |-> f,
           extra |-> e, changed |-> b.changed]
  BY ONLY <1>5, <1>6
<1>8. a.changed = b.changed
  BY ONLY <1>7
<1>9. a = [kind |-> k, uid |-> u, status |-> a.status, action |-> c, properties |-> p, inner |-> n, filters |-> f,
           extra |-> e, changed |-> a.changed]
  BY ONLY <1>7, <1>8
<1>10. Kinds[i.kind].status => a = b
  BY <1>3, <1>5, <1>6
<1> QED
  BY <1>1, <1>2, <1>3, <1>4, <1>8, <1>9, <1>10 DEF Made

---------------------------------------------------------------------------
(* An item that was there, through a save.                                 *)
ItemSaved(half, o, d, fresh, a) ==
  /\ FileItem(a) /\ a.kind = d.kind /\ a.uid = o.uid /\ a.changed \in {fresh, o.changed} /\ half \in Kinds[a.kind].halves
  /\ FiltersFollow(o.filters, a.filters, d) /\ Unseen(a) = Unseen(o) /\ ReadsAsSent(a, d)
  /\ Kinds[o.kind].status /\ [a EXCEPT !.changed = o.changed] = o => a = o

LEMMA UnseenKept ==
  ASSUME NEW o, NEW a, NEW d, FileItem(o), DraftOf(o, d), a.kind = o.kind, a.properties = Final({o}, d),
         a.inner = Inner({o}, d, Normalised(d.kind, Properties({o}, d)))
  PROVE  Unseen(a) = Unseen(o) /\ DOMAIN a.properties = DOMAIN o.properties \cup DOMAIN Kinds[o.kind].fields
<1>1. d.kind = o.kind /\ DOMAIN d.properties = DOMAIN o.properties
  BY DEF DraftOf
<1>2. KindSound(o.kind)
  BY KindsSound DEF FileItem
<1>3. DOMAIN a.properties = DOMAIN o.properties \cup DOMAIN Kinds[o.kind].fields
  <2>1. DOMAIN Final({o}, d) = DOMAIN Properties({o}, d)
    BY FinalIs
  <2>2. DOMAIN Properties({o}, d) = DOMAIN o.properties \cup DOMAIN Kinds[d.kind].fields
    BY PropertiesOld
  <2> QED
    BY <1>1, <2>1, <2>2
<1>4. PICK hidden : hidden = {f \in DOMAIN o.properties : f \in Kinds[o.kind].secret \/ f \notin DOMAIN Kinds[o.kind].fields}
  OBVIOUS
<1>5. {f \in DOMAIN a.properties : f \in Kinds[o.kind].secret \/ f \notin DOMAIN Kinds[o.kind].fields} = hidden
  BY <1>3, <1>4 DEF FileItem
<1>6. \A f \in hidden : a.properties[f] = o.properties[f]
  <2> SUFFICES ASSUME NEW f \in hidden PROVE a.properties[f] = o.properties[f]
    OBVIOUS
  <2>1. f \in DOMAIN o.properties /\ ~Passed(d, f)
    BY <1>1, <1>4 DEF Passed, OnForm
  <2>2. f # "value" \/ d.kind # "registry"
    BY <1>1, <1>2, <1>4 DEF KindSound
  <2>3. Properties({o}, d)[f] = o.properties[f] /\ f \in DOMAIN Properties({o}, d)
    BY <2>1, PropertiesOld
  <2> QED
    BY <2>2, <2>3, FinalIs
<1>7. {<<f, a.properties[f]>> : f \in hidden} = {<<f, o.properties[f]>> : f \in hidden}
  BY <1>6
<1>8. a.kind \in {"group", "registry"} \/ a.inner = o.inner
  BY <1>1, TheOne DEF Inner
<1>9. PICK g, h : g = a.inner /\ h = o.inner /\ (a.kind \in {"group", "registry"} \/ g = h)
  BY <1>8
<1>10. PICK P : P = {<<f, a.properties[f]>> : f \in hidden}
  OBVIOUS
<1>11. Unseen(o) = [properties |-> P, inner |-> IF o.kind \in {"group", "registry"} THEN <<>> ELSE h]
  BY <1>4, <1>7, <1>9, <1>10 DEF Unseen
<1>12. Unseen(a) = [properties |-> P, inner |-> IF o.kind \in {"group", "registry"} THEN <<>> ELSE g]
  BY <1>5, <1>9, <1>10 DEF Unseen
<1> QED
  BY <1>3, <1>9, <1>11, <1>12

(* What the item reads as, from what was built of it.                      *)
LEMMA ReadsIs ==
  ASSUME NEW old, NEW a, NEW d, Wanted(d), a.kind = d.kind, a.action = ActionOf(old, d),
         Kinds[d.kind].action \/ d.action = "", Kinds[d.kind].action => d.action \in ActionLetters,
         ExtrasFollow(a.extra, d), OptionsKept(a.filters, d), ConditionsKept(a.filters, d),
         \A f \in DOMAIN d.properties \ {"value"} : a.properties[f] = d.properties[f]
  PROVE  ReadsAsSent(a, d)
<1>1. \A b \in d.options : OptionsOf(a) = b
  BY OptionsReadBack
<1>2. a.action = IF \E b \in d.options : b.remove /\ d.action # "" THEN "R" ELSE d.action
  <2>1. Kinds[d.kind].action => d.action # ""
    BY DEF ActionLetters
  <2>2. CASE d.options = {}
    BY <2>1, <2>2 DEF ActionOf
  <2>3. CASE d.options # {}
    <3>1. PICK b \in OptionBoxes : d.options = {b} /\ Options(old, d) = b
      BY <2>3, TheOne DEF Wanted, Options
    <3>2. PICK r : r = b.remove
      OBVIOUS
    <3>3. a.action = IF ~Kinds[d.kind].action THEN "" ELSE IF r THEN "R" ELSE d.action
      BY <2>3, <3>1, <3>2 DEF ActionOf
    <3>4. (\E x \in d.options : x.remove /\ d.action # "") <=> (r /\ d.action # "")
      BY <3>1, <3>2
    <3> QED
      BY <2>1, <3>3, <3>4
  <2> QED
    BY <2>2, <2>3
<1>3. \A t \in d.targeting :
        /\ Len(a.filters.conditions) = Len(t)
        /\ \A k \in DOMAIN t : LET c == a.filters.conditions[k]
                              IN c.type = t[k].type /\ c.dn = "" /\ c.bool = IF k = 1 THEN "AND" ELSE t[k].bool
  BY DEF ConditionsKept
<1> QED
  BY <1>1, <1>2, <1>3 DEF ReadsAsSent

LEMMA FileItemIs ==
  ASSUME NEW a,
         a = [kind |-> a.kind, uid |-> a.uid, status |-> a.status, action |-> a.action, properties |-> a.properties,
              inner |-> a.inner, filters |-> a.filters, extra |-> a.extra, changed |-> a.changed],
         a.kind \in DOMAIN Kinds, a.uid \in Nat \ {0}, a.changed \in Nat,
         FilterBlock(a.filters), a.filters.foreign \/ AsInFile(a.filters.conditions),
         DOMAIN a.extra = ExtraNames, Kinds[a.kind].action \/ a.action = "",
         Kinds[a.kind].secret \subseteq DOMAIN a.properties
  PROVE  FileItem(a)
  BY DEF FileItem, ExtraNames

\* The written item's parts, one by one.
LEMMA MadeParts ==
  ASSUME NEW old, NEW i, NEW fresh, NEW a, Made(old, i, fresh, a)
  PROVE  /\ a = [kind |-> a.kind, uid |-> a.uid, status |-> a.status, action |-> a.action, properties |-> a.properties,
                 inner |-> a.inner, filters |-> a.filters, extra |-> a.extra, changed |-> a.changed]
         /\ a.kind = i.kind /\ a.uid = FreshUid(i, fresh) /\ a.action = ActionOf(old, i) /\ a.properties = Final(old, i)
         /\ a.inner = Inner(old, i, Normalised(i.kind, Properties(old, i)))
         /\ a.filters = Filters(old, i, fresh) /\ a.extra = Extras(old, i)
<1>1. PICK k, u, c, p, n, f, e : /\ k = i.kind /\ u = FreshUid(i, fresh) /\ c = ActionOf(old, i) /\ p = Final(old, i)
                                 /\ n = Inner(old, i, Normalised(i.kind, Properties(old, i)))
                                 /\ f = Filters(old, i, fresh) /\ e = Extras(old, i)
  OBVIOUS
<1>2. a = [kind |-> k, uid |-> u, status |-> a.status, action |-> c, properties |-> p, inner |-> n, filters |-> f,
           extra |-> e, changed |-> a.changed]
  BY <1>1 DEF Made
<1>3. a.kind = k /\ a.uid = u /\ a.action = c /\ a.properties = p /\ a.inner = n /\ a.filters = f /\ a.extra = e
  BY ONLY <1>2
<1>4. a = [kind |-> a.kind, uid |-> a.uid, status |-> a.status, action |-> a.action, properties |-> a.properties,
           inner |-> a.inner, filters |-> a.filters, extra |-> a.extra, changed |-> a.changed]
  BY ONLY <1>2, <1>3
<1> QED
  BY <1>1, <1>3, <1>4

LEMMA ItemOld ==
  ASSUME NEW o, NEW d, NEW fresh \in Nat \ {0}, NEW half, NEW a, FileItem(o), DraftOf(o, d),
         ~ItemRefused(half, {o}, d), a = Written(Built({o}, d, fresh))
  PROVE  ItemSaved(half, o, d, fresh, a)
<1>1. Made({o}, d, fresh, a)
  BY MadeIs
<1>2. /\ a = [kind |-> a.kind, uid |-> a.uid, status |-> a.status, action |-> a.action, properties |-> a.properties,
              inner |-> a.inner, filters |-> a.filters, extra |-> a.extra, changed |-> a.changed]
      /\ a.kind = d.kind /\ a.uid = FreshUid(d, fresh) /\ a.action = ActionOf({o}, d) /\ a.properties = Final({o}, d)
      /\ a.inner = Inner({o}, d, Normalised(d.kind, Properties({o}, d)))
      /\ a.filters = Filters({o}, d, fresh) /\ a.extra = Extras({o}, d)
  BY ONLY <1>1, MadeParts
<1>3. Wanted(d) /\ d.kind = o.kind /\ d.uid = o.uid /\ DOMAIN d.properties = DOMAIN o.properties
      /\ (Kinds[d.kind].action \/ d.action = "")
  BY DEF DraftOf, Wanted
<1>4. /\ half \in Kinds[d.kind].halves /\ (Kinds[d.kind].action => d.action \in ActionLetters)
      /\ ~OptionsRefused(half, {o}, d)
  BY DEF ItemRefused
<1>5. /\ o.kind \in DOMAIN Kinds /\ o.uid \in Nat \ {0} /\ o.changed \in Nat /\ FilterBlock(o.filters)
      /\ (o.filters.foreign \/ AsInFile(o.filters.conditions)) /\ DOMAIN o.extra = ExtraNames
      /\ Kinds[o.kind].secret \subseteq DOMAIN o.properties
  BY DEF FileItem, ExtraNames
<1>6. FiltersOf({o}) = o.filters
  <2>1. FiltersOf({o}) = The({o}).filters
    BY DEF FiltersOf
  <2> QED
    BY <2>1, TheOne
<1>7. /\ FilterBlock(a.filters) /\ (a.filters.foreign \/ AsInFile(a.filters.conditions))
      /\ OptionsKept(a.filters, d) /\ ConditionsKept(a.filters, d) /\ FiltersFollow(o.filters, a.filters, d)
  <2>1. FiltersGood(o.filters, a.filters, d)
    <3>1. PICK S : S = {o}
      OBVIOUS
    <3>2. a.filters = Filters(S, d, fresh) /\ FiltersOf(S) = o.filters /\ ~OptionsRefused(half, S, d)
      BY <1>2, <1>4, <1>6, <3>1
    <3>3. FiltersGood(FiltersOf(S), Filters(S, d, fresh), d)
      BY ONLY <1>3, <1>5, <3>2, fresh \in Nat \ {0}, FiltersAre
    <3> QED
      BY <3>2, <3>3
  <2> QED
    BY <2>1 DEF FiltersGood
<1>8. DOMAIN a.extra = ExtraNames /\ ExtrasFollow(a.extra, d)
  BY ONLY <1>2, <1>3, <1>5, ExtrasAre
<1>9. a.uid = o.uid
  BY <1>2, <1>3, <1>5 DEF FreshUid
<1>10. a.changed \in {fresh, o.changed}
  <2>1. PICK S : S = Alike1({o}, Core({o}, d, fresh)) /\ S \subseteq {o}
    BY DEF Alike1
  <2>2. a.changed = IF S = {} THEN fresh ELSE The(S).changed
    BY <1>1, <2>1 DEF Made
  <2>3. S = {} \/ S = {o}
    BY <2>1
  <2> QED
    BY <2>2, <2>3, TheOne
<1>11. Unseen(a) = Unseen(o) /\ DOMAIN a.properties = DOMAIN o.properties \cup DOMAIN Kinds[o.kind].fields
  BY <1>2, <1>3, UnseenKept
<1>12. Kinds[a.kind].action \/ a.action = ""
  BY <1>2 DEF ActionOf
<1>13. FileItem(a)
  <2>1. a.uid \in Nat \ {0} /\ a.changed \in Nat /\ a.kind \in DOMAIN Kinds
    BY <1>2, <1>3, <1>5, <1>9, <1>10
  <2>2. Kinds[a.kind].secret \subseteq DOMAIN a.properties
    BY <1>2, <1>3, <1>5, <1>11
  <2> QED
    BY ONLY <1>2, <1>7, <1>8, <1>12, <2>1, <2>2, FileItemIs
<1>14. \A f \in DOMAIN d.properties \ {"value"} : a.properties[f] = d.properties[f]
  <2> SUFFICES ASSUME NEW f \in DOMAIN d.properties \ {"value"} PROVE a.properties[f] = d.properties[f]
    OBVIOUS
  <2>1. Passed(d, f) \/ d.properties[f] = o.properties[f]
    BY <1>3 DEF DraftOf, Passed
  <2>2. Properties({o}, d)[f] = d.properties[f] /\ f \in DOMAIN Properties({o}, d)
    BY <1>3, <2>1, PropertiesOld
  <2>3. Final({o}, d)[f] = Properties({o}, d)[f]
    BY <2>2, FinalIs
  <2> QED
    BY <1>2, <2>2, <2>3
<1>15. ReadsAsSent(a, d)
  BY ONLY <1>2, <1>3, <1>4, <1>7, <1>8, <1>14, ReadsIs
<1>16. Kinds[o.kind].status /\ [a EXCEPT !.changed = o.changed] = o => a = o
  <2>1. Kinds[o.kind].status => a = Built({o}, d, fresh)
    BY <1>1, <1>3 DEF Made
  <2> QED
    BY <2>1, StampFollows
<1> QED
  BY <1>2, <1>3, <1>4, <1>7, <1>9, <1>10, <1>11, <1>13, <1>15, <1>16 DEF ItemSaved

---------------------------------------------------------------------------
(* An item added.                                                          *)
ItemMade(half, d, fresh, a) ==
  /\ FileItem(a) /\ a.kind = d.kind /\ a.uid = fresh /\ a.changed = fresh /\ half \in Kinds[a.kind].halves
  /\ (\A p \in Unseen(a).properties : p[2] = "") /\ ReadsAsSent(a, d)

Blank(d, k) ==
  /\ Wanted(d) /\ d.kind = k /\ d.uid = 0 /\ (Kinds[d.kind].action \/ d.action = "")
  /\ DOMAIN d.properties = OnForm(k) /\ \A f \in OnForm(k) : d.properties[f] = Kinds[k].fields[f]

LEMMA BlankIs ==
  ASSUME NEW k \in DOMAIN Kinds
  PROVE  Blank(BlankDraft(k), k)
<1>1. PICK d : d = BlankDraft(k)
  OBVIOUS
<1>2. PICK p : p = [f \in OnForm(k) |-> Kinds[k].fields[f]]
  OBVIOUS
<1>3. PICK c : c = IF Kinds[k].action THEN "C" ELSE ""
  OBVIOUS
<1>4. d = [kind |-> k, uid |-> 0, action |-> c, properties |-> p, inner |-> <<>>, options |-> {NoOptions},
           targeting |-> {<<>>}]
  BY <1>1, <1>2, <1>3 DEF BlankDraft, OnForm
<1>5. NoOptions \in OptionBoxes
  BY DEF NoOptions, OptionBoxes
<1>6. ConditionList(<<>>)
  BY DEF ConditionList
<1>7. Wanted(d)
  BY <1>4, <1>5, <1>6 DEF Wanted
<1>8. d.kind = k /\ d.uid = 0 /\ d.action = c /\ d.properties = p
  BY ONLY <1>4
<1>9. Kinds[d.kind].action \/ d.action = ""
  BY <1>3, <1>8
<1>10. DOMAIN d.properties = OnForm(k) /\ \A f \in OnForm(k) : d.properties[f] = Kinds[k].fields[f]
  BY ONLY <1>2, <1>8
<1> QED
  BY <1>1, <1>7, <1>8, <1>9, <1>10 DEF Blank

LEMMA ItemNew ==
  ASSUME NEW k \in DOMAIN Kinds, NEW d, d = BlankDraft(k), NEW fresh \in Nat \ {0}, NEW half, NEW a,
         ~ItemRefused(half, {}, d), a = Written(Built({}, d, fresh))
  PROVE  ItemMade(half, d, fresh, a)
<1>1. Made({}, d, fresh, a)
  BY MadeIs
<1>2. /\ a = [kind |-> a.kind, uid |-> a.uid, status |-> a.status, action |-> a.action, properties |-> a.properties,
              inner |-> a.inner, filters |-> a.filters, extra |-> a.extra, changed |-> a.changed]
      /\ a.kind = d.kind /\ a.uid = FreshUid(d, fresh) /\ a.action = ActionOf({}, d) /\ a.properties = Final({}, d)
      /\ a.inner = Inner({}, d, Normalised(d.kind, Properties({}, d)))
      /\ a.filters = Filters({}, d, fresh) /\ a.extra = Extras({}, d)
  BY ONLY <1>1, MadeParts
<1>3. /\ Wanted(d) /\ d.kind = k /\ d.uid = 0 /\ (Kinds[d.kind].action \/ d.action = "")
      /\ DOMAIN d.properties = OnForm(k) /\ \A f \in OnForm(k) : d.properties[f] = Kinds[k].fields[f]
  <2>1. Blank(d, k)
    BY BlankIs
  <2> QED
    BY <2>1 DEF Blank
<1>4. /\ half \in Kinds[d.kind].halves /\ (Kinds[d.kind].action => d.action \in ActionLetters)
      /\ ~OptionsRefused(half, {}, d)
  BY DEF ItemRefused
<1>5. KindSound(k)
  BY KindsSound
<1>6. /\ FiltersOf({}) = NoFilters /\ FilterBlock(NoFilters) /\ AsInFile(NoFilters.conditions)
  <2>1. PICK c : c = <<>>
    OBVIOUS
  <2>2. ConditionList(c) /\ AsInFile(c)
    BY <2>1 DEF ConditionList, AsInFile
  <2>3. NoFilters = [conditions |-> c, foreign |-> FALSE, once |-> 0]
    BY <2>1 DEF NoFilters
  <2> QED
    BY <2>2, <2>3 DEF FiltersOf, FilterBlock
<1>7. /\ FilterBlock(a.filters) /\ (a.filters.foreign \/ AsInFile(a.filters.conditions))
      /\ OptionsKept(a.filters, d) /\ ConditionsKept(a.filters, d)
  <2>1. FiltersGood(NoFilters, a.filters, d)
    BY ONLY <1>2, <1>3, <1>4, <1>6, fresh \in Nat \ {0}, FiltersAre
  <2> QED
    BY <2>1 DEF FiltersGood
<1>8. DOMAIN a.extra = ExtraNames /\ ExtrasFollow(a.extra, d)
  <2>1. PICK none : none = {}
    OBVIOUS
  <2>2. a.extra = Extras(none, d)
    BY <1>2, <2>1
  <2>3. DOMAIN Extras(none, d) = ExtraNames /\ ExtrasFollow(Extras(none, d), d)
    BY ONLY <1>3, <2>1, ExtrasAre
  <2> QED
    BY <2>2, <2>3
<1>9. a.uid = fresh
  BY <1>2, <1>3 DEF FreshUid
<1>10. a.changed = fresh
  <2>1. Alike1({}, Core({}, d, fresh)) = {}
    BY DEF Alike1
  <2> QED
    BY <1>1, <2>1 DEF Made
<1>11. /\ DOMAIN a.properties = DOMAIN Kinds[k].fields
       /\ \A f \in DOMAIN Kinds[k].fields : (f # "value" \/ k # "registry") => a.properties[f] = Kinds[k].fields[f]
  <2>1. DOMAIN Properties({}, d) = DOMAIN Kinds[k].fields
    BY <1>3, PropertiesNew
  <2>2. \A f \in DOMAIN Kinds[k].fields : Properties({}, d)[f] = Kinds[k].fields[f]
    BY <1>3, PropertiesNew DEF Passed
  <2>3. DOMAIN a.properties = DOMAIN Properties({}, d)
    BY <1>2, FinalIs
  <2>4. \A f \in DOMAIN Properties({}, d) : (f # "value" \/ d.kind # "registry") => a.properties[f] = Properties({}, d)[f]
    BY <1>2, FinalIs
  <2> QED
    BY <1>3, <2>1, <2>2, <2>3, <2>4
<1>12. Kinds[a.kind].action \/ a.action = ""
  BY <1>2 DEF ActionOf
<1>13. FileItem(a)
  <2>1. a.uid \in Nat \ {0} /\ a.changed \in Nat /\ a.kind \in DOMAIN Kinds
    BY <1>2, <1>3, <1>9, <1>10
  <2>2. Kinds[a.kind].secret \subseteq DOMAIN a.properties
    BY <1>2, <1>3, <1>5, <1>11 DEF KindSound
  <2> QED
    BY ONLY <1>2, <1>7, <1>8, <1>12, <2>1, <2>2, FileItemIs
<1>14. \A f \in DOMAIN d.properties \ {"value"} : a.properties[f] = d.properties[f]
  BY <1>3, <1>11 DEF OnForm
<1>15. ReadsAsSent(a, d)
  BY ONLY <1>2, <1>3, <1>4, <1>7, <1>8, <1>14, ReadsIs
<1>16. \A p \in Unseen(a).properties : p[2] = ""
  <2>1. PICK hidden : hidden = {f \in DOMAIN a.properties : f \in Kinds[a.kind].secret \/ f \notin DOMAIN Kinds[a.kind].fields}
    OBVIOUS
  <2>2. \A f \in hidden : a.properties[f] = ""
    BY <1>2, <1>3, <1>5, <1>11, <2>1 DEF KindSound
  <2>3. PICK P : P = {<<f, a.properties[f]>> : f \in hidden}
    OBVIOUS
  <2>4. PICK m : m = IF a.kind \in {"group", "registry"} THEN <<>> ELSE a.inner
    OBVIOUS
  <2>5. Unseen(a) = [properties |-> P, inner |-> m]
    BY <2>1, <2>3, <2>4 DEF Unseen
  <2>6. Unseen(a).properties = P
    BY <2>5
  <2>7. ASSUME NEW p \in P PROVE p[2] = ""
    <3>1. PICK f \in hidden : p = <<f, a.properties[f]>>
      BY <2>3
    <3>2. p[2] = a.properties[f]
      BY ONLY <3>1
    <3> QED
      BY <2>2, <3>2
  <2> QED
    BY <2>6, <2>7
<1> QED
  BY <1>2, <1>4, <1>9, <1>10, <1>13, <1>15, <1>16 DEF ItemMade

---------------------------------------------------------------------------
(* What the editor sends: the drafts of the items of the file, each at     *)
(* most once, with at most one item that is new.                           *)
Sent(items, d) == (\E m \in DOMAIN items : DraftOf(items[m], d)) \/ (\E k \in Offered : d = BlankDraft(k))
AskedFor(items, asked) ==
  /\ Len(asked) \in Nat /\ DOMAIN asked = 1..Len(asked) /\ (asked = <<>> <=> Len(asked) = 0)
  /\ \A n \in DOMAIN asked : Sent(items, asked[n])
  /\ \A m \in DOMAIN asked : \A n \in DOMAIN asked : asked[m].uid = asked[n].uid => m = n

FileListed(items, bound) ==
  /\ Len(items) \in Nat /\ DOMAIN items = 1..Len(items)
  /\ \A n \in 1..Len(items) : FileItem(items[n]) /\ items[n].uid < bound /\ items[n].changed < bound
  /\ \A m \in 1..Len(items) : \A n \in 1..Len(items) : items[m].uid = items[n].uid => m = n

LEMMA EmptyList == \A S : \A s \in Seq(S) : s = <<>> <=> Len(s) = 0
  OBVIOUS

LEMMA ItemsAre == ASSUME NEW items, NEW bound, FileItems(items, bound) PROVE FileListed(items, bound)
<1>1. PICK S : items \in Seq(S)
  BY DEF FileItems
<1>2. Len(items) \in Nat /\ DOMAIN items = 1..Len(items)
  BY <1>1
<1> QED
  BY <1>2 DEF FileItems, FileListed

\* The drafts of a list: as many, each of the item at its place.
DraftsFollow(items, list) ==
  /\ list \in Seq({list[n] : n \in DOMAIN list}) /\ Len(list) = Len(items) /\ DOMAIN list = 1..Len(items)
  /\ \A n \in 1..Len(items) : DraftOf(items[n], list[n]) /\ list[n].uid = items[n].uid /\ list[n].uid # 0

LEMMA DraftsAre ==
  ASSUME NEW items, NEW bound, FileListed(items, bound)
  PROVE  DraftsFollow(items, Drafts(items))
<1>1. Len(items) \in Nat /\ DOMAIN items = 1..Len(items) /\ \A n \in 1..Len(items) : FileItem(items[n])
  BY DEF FileListed
<1>2. PICK list : list = [n \in 1..Len(items) |-> Draft(items[n])]
  OBVIOUS
<1>3. Drafts(items) = list
  BY <1>1, <1>2 DEF Drafts
<1>4. list = [n \in 1..Len(items) |-> list[n]]
  BY <1>2
<1>5. list \in Seq({list[n] : n \in DOMAIN list}) /\ Len(list) = Len(items) /\ DOMAIN list = 1..Len(items)
  BY ONLY <1>1, <1>4, ListIs
<1>6. ASSUME NEW n \in 1..Len(items)
      PROVE  DraftOf(items[n], list[n]) /\ list[n].uid = items[n].uid /\ list[n].uid # 0
  <2>1. PICK o : o = items[n] /\ FileItem(o)
    BY <1>1
  <2>2. list[n] = Draft(o)
    BY <1>2, <2>1
  <2>3. DraftOf(o, Draft(o))
    BY <2>1, DraftIs
  <2>4. Draft(o).uid = o.uid /\ o.uid # 0
    BY <2>1, <2>3 DEF DraftOf, FileItem
  <2> QED
    BY <2>1, <2>2, <2>3, <2>4
<1> QED
  BY <1>3, <1>5, <1>6 DEF DraftsFollow

(* The drafts in another order, or some of them left out.                  *)
ArrangedBy(items, list, asked, h, n) ==
  /\ Len(asked) = n /\ DOMAIN asked = 1..n /\ (asked = <<>> <=> n = 0)
  /\ \A j \in 1..n : h[j] \in 1..Len(items) /\ asked[j] = list[h[j]]
  /\ \A i \in 1..n : \A j \in 1..n : h[i] = h[j] => i = j

LEMMA Arranged ==
  ASSUME NEW items, NEW bound, FileListed(items, bound), NEW list, DraftsFollow(items, list),
         NEW asked, NEW n \in Nat, NEW h, ArrangedBy(items, list, asked, h, n)
  PROVE  AskedFor(items, asked)
<1>0. /\ Len(asked) = n /\ DOMAIN asked = 1..n /\ (asked = <<>> <=> n = 0) /\ \A j \in 1..n : asked[j] = list[h[j]]
      /\ \A i \in 1..n : \A j \in 1..n : h[i] = h[j] => i = j
  BY DEF ArrangedBy
<1>1. \A j \in 1..n : h[j] \in 1..Len(items)
  BY DEF ArrangedBy
<1>2. \A j \in 1..n : DraftOf(items[h[j]], asked[j]) /\ asked[j].uid = items[h[j]].uid
  BY <1>0, <1>1 DEF DraftsFollow
<1>3. \A j \in 1..n : Sent(items, asked[j])
  BY <1>1, <1>2 DEF Sent, FileListed
<1>4. \A i \in 1..n : \A j \in 1..n : asked[i].uid = asked[j].uid => i = j
  <2> SUFFICES ASSUME NEW i \in 1..n, NEW j \in 1..n, asked[i].uid = asked[j].uid PROVE i = j
    OBVIOUS
  <2>1. items[h[i]].uid = items[h[j]].uid
    BY <1>2
  <2>2. h[i] = h[j]
    BY <1>1, <2>1 DEF FileListed
  <2> QED
    BY <1>0, <2>2
<1> QED
  BY <1>0, <1>3, <1>4 DEF AskedFor

LEMMA AskedIs ==
  ASSUME NEW items, NEW bound, FileListed(items, bound), NEW asked \in Requests(items)
  PROVE  AskedFor(items, asked)
<1>1. PICK list : list = Drafts(items) /\ DraftsFollow(items, list)
  BY DraftsAre
<1>2. PICK n : n = Len(items) /\ n \in Nat /\ DOMAIN items = 1..n
  BY DEF FileListed
<1>3. PICK S : S = {list[k] : k \in DOMAIN list}
  OBVIOUS
<1>4. list \in Seq(S) /\ Len(list) = n /\ DOMAIN list = 1..n /\ \A k \in 1..n : list[k] \in S
  BY <1>1, <1>2, <1>3 DEF DraftsFollow
<1>5. \A k \in 1..n : DraftOf(items[k], list[k]) /\ list[k].uid = items[k].uid /\ list[k].uid # 0
  BY <1>1, <1>2 DEF DraftsFollow
<1>6. \A i \in 1..n : \A j \in 1..n : list[i].uid = list[j].uid => i = j
  BY <1>2, <1>5 DEF FileListed
<1>7. CASE asked = list
  <2>1. PICK h : h = [j \in 1..n |-> j]
    OBVIOUS
  <2>2. \A j \in 1..n : h[j] = j
    BY <2>1
  <2>3. ArrangedBy(items, list, asked, h, n)
    <3>1. asked = <<>> <=> n = 0
      BY <1>4, <1>7, EmptyList
    <3> QED
      BY <1>2, <1>4, <1>7, <2>2, <3>1 DEF ArrangedBy
  <2> QED
    BY <1>1, <1>2, <2>3, Arranged
<1>8. CASE \E k \in Offered : asked = Append(list, BlankDraft(k))
  <2>0. PICK k \in Offered : asked = Append(list, BlankDraft(k))
    BY <1>8
  <2>1. PICK b : b = BlankDraft(k) /\ asked = Append(list, b)
    BY <2>0
  <2>2. b.uid = 0
    BY <2>1 DEF BlankDraft
  <2>3. /\ Len(asked) = n + 1 /\ DOMAIN asked = 1..n + 1 /\ asked # <<>>
        /\ \A j \in 1..n + 1 : asked[j] = IF j <= n THEN list[j] ELSE b
    BY <1>2, <1>4, <2>1, AppendProperties
  <2>4. \A j \in 1..n + 1 : Sent(items, asked[j])
    <3> SUFFICES ASSUME NEW j \in 1..n + 1 PROVE Sent(items, asked[j])
      OBVIOUS
    <3>1. CASE j <= n
      BY <1>2, <1>5, <2>3, <3>1 DEF Sent
    <3>2. CASE ~(j <= n)
      BY <2>1, <2>3, <3>2 DEF Sent
    <3> QED
      BY <3>1, <3>2
  <2>5. ASSUME NEW i \in 1..n + 1, NEW j \in 1..n + 1, asked[i].uid = asked[j].uid PROVE i = j
    <3>1. CASE i <= n /\ j <= n
      BY <1>2, <1>6, <2>3, <2>5, <3>1
    <3>2. CASE i <= n /\ ~(j <= n)
      BY <1>2, <1>5, <2>2, <2>3, <2>5, <3>2
    <3>3. CASE ~(i <= n) /\ j <= n
      BY <1>2, <1>5, <2>2, <2>3, <2>5, <3>3
    <3>4. CASE ~(i <= n) /\ ~(j <= n)
      BY <1>2, <3>4
    <3> QED
      BY <3>1, <3>2, <3>3, <3>4
  <2> QED
    BY <1>2, <2>3, <2>4, <2>5 DEF AskedFor
<1>9. ASSUME NEW k \in 1..n
      PROVE  \E s \in Seq(S) : /\ s = RemoveAt(list, k) /\ Len(s) = n - 1 /\ DOMAIN s = 1..n - 1
                              /\ \A j \in 1..n - 1 : s[j] = IF j < k THEN list[j] ELSE list[j + 1]
  <2>1. PICK s : s = RemoveAt(list, k)
    OBVIOUS
  <2>2. k \in 1..Len(list) /\ list \in Seq(S)
    BY <1>4
  <2>3. s \in Seq(S) /\ Len(s) = Len(list) - 1
        /\ \A j \in 1..Len(list) - 1 : s[j] = IF j < k THEN list[j] ELSE list[j + 1]
    BY <2>1, <2>2, RemoveAtIs
  <2>4. DOMAIN s = 1..n - 1
    BY <1>2, <1>4, <2>3
  <2> QED
    BY <1>4, <2>1, <2>3, <2>4
<1>10. CASE \E k \in 1..n : asked = RemoveAt(list, k)
  <2>1. PICK k \in 1..n : asked = RemoveAt(list, k)
    BY <1>10
  <2>2. PICK m : m = n - 1 /\ m \in Nat
    BY <1>2, <2>1
  <2>3. PICK h : h = [j \in 1..m |-> IF j < k THEN j ELSE j + 1]
    OBVIOUS
  <2>4. \A j \in 1..m : h[j] = IF j < k THEN j ELSE j + 1
    BY <2>3
  <2>5. /\ asked \in Seq(S) /\ Len(asked) = m /\ DOMAIN asked = 1..m
        /\ \A j \in 1..m : asked[j] = IF j < k THEN list[j] ELSE list[j + 1]
    BY <1>9, <2>1, <2>2
  <2>6. \A j \in 1..m : h[j] \in 1..Len(items) /\ asked[j] = list[h[j]]
    BY <1>2, <2>2, <2>4, <2>5
  <2>7. \A i \in 1..m : \A j \in 1..m : h[i] = h[j] => i = j
    BY <1>2, <2>2, <2>4
  <2>8. ArrangedBy(items, list, asked, h, m)
    <3>1. asked = <<>> <=> m = 0
      BY <2>5, EmptyList
    <3> QED
      BY <2>5, <2>6, <2>7, <3>1 DEF ArrangedBy
  <2> QED
    BY <1>1, <2>2, <2>8, Arranged
<1>11. CASE \E k \in 1..n \ {1} : asked = InsertAt(RemoveAt(list, k), k - 1, list[k])
  <2>1. PICK k \in 1..n \ {1} : asked = InsertAt(RemoveAt(list, k), k - 1, list[k])
    BY <1>11
  <2>2. PICK s : s = RemoveAt(list, k) /\ s \in Seq(S) /\ Len(s) = n - 1
                 /\ \A j \in 1..n - 1 : s[j] = IF j < k THEN list[j] ELSE list[j + 1]
    BY <1>9
  <2>3. PICK e : e = list[k] /\ e \in S
    BY <1>4
  <2>4. PICK l : l = k - 1 /\ l \in 1..Len(s) + 1
    BY <1>2, <2>2
  <2>5. /\ asked \in Seq(S) /\ Len(asked) = Len(s) + 1
        /\ \A j \in 1..Len(s) + 1 : asked[j] = IF j < l THEN s[j] ELSE IF j = l THEN e ELSE s[j - 1]
    <3>1. asked = InsertAt(s, l, e)
      BY <2>1, <2>2, <2>3, <2>4
    <3>2. s \in Seq(S) /\ e \in S /\ l \in 1..Len(s) + 1
      BY <2>2, <2>3, <2>4
    <3> QED
      BY <3>1, <3>2, InsertAtIs
  <2>6. Len(asked) = n /\ DOMAIN asked = 1..n
    BY <1>2, <2>2, <2>5
  <2>7. PICK h : h = [j \in 1..n |-> IF j = k - 1 THEN k ELSE IF j = k THEN k - 1 ELSE j]
    OBVIOUS
  <2>8. \A j \in 1..n : h[j] = IF j = k - 1 THEN k ELSE IF j = k THEN k - 1 ELSE j
    BY <2>7
  <2>9. ASSUME NEW j \in 1..n PROVE asked[j] = list[h[j]]
    <3>1. CASE j < l
      <4>1. k \in 2..n /\ j \in 1..n - 1 /\ j < k - 1
        BY <1>2, <2>4, <3>1
      <4>2. h[j] = j
        BY <1>2, <2>8, <4>1
      <4>3. j \in 1..Len(s) + 1
        BY <1>2, <2>2
      <4>4. asked[j] = s[j]
        BY ONLY <2>5, <3>1, <4>3
      <4>5. s[j] = list[j]
        BY <1>2, <2>2, <4>1
      <4> QED
        BY <4>2, <4>4, <4>5
    <3>2. CASE j = l
      <4>1. h[j] = k
        BY <2>4, <2>8, <3>2
      <4>2. j \in 1..Len(s) + 1 /\ ~(j < l)
        BY <1>2, <2>2, <3>2
      <4>3. asked[j] = e
        BY <2>5, <3>2, <4>2
      <4> QED
        BY <2>3, <4>1, <4>3
    <3>3. CASE j > l
      <4>1. k \in Nat /\ k \in 2..n /\ j \in k..n /\ Len(s) + 1 = n
        BY <1>2, <2>2, <2>4, <3>3
      <4>2. asked[j] = s[j - 1]
        BY <2>4, <2>5, <3>3, <4>1
      <4>3. s[j - 1] = IF j - 1 < k THEN list[j - 1] ELSE list[j - 1 + 1]
        BY <1>2, <2>2, <4>1
      <4>4. j - 1 + 1 = j
        OBVIOUS
      <4>5. CASE j = k
        BY <2>8, <4>1, <4>2, <4>3, <4>5
      <4>6. CASE j # k
        BY <2>8, <4>1, <4>2, <4>3, <4>4, <4>6
      <4> QED
        BY <4>5, <4>6
    <3> QED
      BY <1>2, <2>4, <3>1, <3>2, <3>3
  <2>10. \A i \in 1..n : \A j \in 1..n : h[i] = h[j] => i = j
    BY <1>2, <2>8
  <2>11. \A j \in 1..n : h[j] \in 1..Len(items)
    BY <1>2, <2>8
  <2>12. ArrangedBy(items, list, asked, h, n)
    <3>1. asked = <<>> <=> n = 0
      BY <2>5, <2>6, EmptyList
    <3> QED
      BY <2>6, <2>9, <2>10, <2>11, <3>1 DEF ArrangedBy
  <2> QED
    BY <1>1, <1>2, <2>12, Arranged
<1>12. CASE \E k \in 1..n : \E d \in EditedItem(list[k]) : asked = [list EXCEPT ![k] = d]
  <2>1. PICK k \in 1..n : \E d \in EditedItem(list[k]) : asked = [list EXCEPT ![k] = d]
    BY <1>12
  <2>2. PICK d \in EditedItem(list[k]) : asked = [list EXCEPT ![k] = d]
    BY <2>1
  <2>3. DraftOf(items[k], d) /\ d.uid = items[k].uid
    <3>1. DraftOf(items[k], d)
      BY <1>5, EditedIs
    <3> QED
      BY <3>1 DEF DraftOf
  <2>4. /\ Len(asked) = n /\ DOMAIN asked = 1..n /\ (asked = <<>> <=> n = 0)
        /\ \A j \in 1..n : asked[j] = IF j = k THEN d ELSE list[j]
    <3>1. list \in [1..n -> S]
      BY <1>2, <1>4
    <3>2. asked \in [1..n -> S \cup {d}] /\ \A j \in 1..n : asked[j] = IF j = k THEN d ELSE list[j]
      BY <2>2, <3>1
    <3>3. asked \in Seq(S \cup {d}) /\ DOMAIN asked = 1..n
      BY <1>2, <3>2, SeqDef
    <3>4. Len(asked) = n
      BY <1>2, <3>3, LenProperties
    <3>5. asked = <<>> <=> n = 0
      BY <3>3, <3>4, EmptyList
    <3> QED
      BY <3>2, <3>3, <3>4, <3>5
  <2>5. \A j \in 1..n : Sent(items, asked[j]) /\ asked[j].uid = items[j].uid
    BY <1>2, <1>5, <2>3, <2>4 DEF Sent
  <2> QED
    BY <1>2, <2>4, <2>5 DEF AskedFor, FileListed
<1>13. \/ asked = list \/ (\E k \in Offered : asked = Append(list, BlankDraft(k)))
       \/ (\E k \in 1..n : asked = RemoveAt(list, k))
       \/ (\E k \in 1..n \ {1} : asked = InsertAt(RemoveAt(list, k), k - 1, list[k]))
       \/ (\E k \in 1..n : \E d \in EditedItem(list[k]) : asked = [list EXCEPT ![k] = d])
  <2>1. \/ asked = list \/ asked \in {Append(list, BlankDraft(k)) : k \in Offered}
        \/ asked \in {RemoveAt(list, k) : k \in DOMAIN list}
        \/ asked \in {InsertAt(RemoveAt(list, k), k - 1, list[k]) : k \in DOMAIN list \ {1}}
        \/ asked \in UNION {{[list EXCEPT ![k] = d] : d \in EditedItem(list[k])} : k \in DOMAIN list}
    BY <1>1 DEF Requests
  <2>2. asked \in {RemoveAt(list, k) : k \in DOMAIN list} => \E k \in 1..n : asked = RemoveAt(list, k)
    BY <1>4
  <2>3. asked \in {InsertAt(RemoveAt(list, k), k - 1, list[k]) : k \in DOMAIN list \ {1}}
          => \E k \in 1..n \ {1} : asked = InsertAt(RemoveAt(list, k), k - 1, list[k])
    BY <1>4
  <2>4. asked \in UNION {{[list EXCEPT ![k] = d] : d \in EditedItem(list[k])} : k \in DOMAIN list}
          => \E k \in 1..n : \E d \in EditedItem(list[k]) : asked = [list EXCEPT ![k] = d]
    BY <1>4
  <2>5. asked \in {Append(list, BlankDraft(k)) : k \in Offered} => \E k \in Offered : asked = Append(list, BlankDraft(k))
    OBVIOUS
  <2> QED
    BY ONLY <2>1, <2>2, <2>3, <2>4, <2>5
<1> QED
  BY <1>7, <1>8, <1>10, <1>11, <1>12, <1>13

---------------------------------------------------------------------------
(* The list as it is written.                                              *)
LEMMA PreviousOld ==
  ASSUME NEW items, NEW bound, FileListed(items, bound), NEW m \in DOMAIN items, NEW d, d.uid = items[m].uid
  PROVE  Previous(items, d) = {items[m]}
<1>1. \A k \in DOMAIN items : items[k].uid = items[m].uid => k = m
  BY DEF FileListed
<1>2. {k \in DOMAIN items : items[k].uid = d.uid} = {m}
  BY <1>1
<1> QED
  BY <1>2 DEF Previous

LEMMA PreviousNew ==
  ASSUME NEW items, NEW bound, FileListed(items, bound), NEW d, d.uid = 0
  PROVE  Previous(items, d) = {}
<1>1. \A k \in DOMAIN items : items[k].uid # 0
  BY DEF FileListed, FileItem
<1> QED
  BY <1>1 DEF Previous

\* Each written item is one that was there, saved, or the one added.
Follows(half, items, d, fresh, a) ==
  \/ \E m \in DOMAIN items : DraftOf(items[m], d) /\ ItemSaved(half, items[m], d, fresh, a)
  \/ \E k \in Offered : d = BlankDraft(k) /\ ItemMade(half, d, fresh, a)
SaveOf(half, items, asked, fresh, r) ==
  /\ Len(r) = Len(asked) /\ DOMAIN r = DOMAIN asked
  /\ \A n \in DOMAIN asked : Follows(half, items, asked[n], fresh, r[n])

LEMMA OfferedAre == ASSUME place.type \in DOMAIN KindsOf PROVE Offered \subseteq DOMAIN Kinds
  BY TypesSound DEF Offered

Listing(r) == r \in Seq({r[n] : n \in DOMAIN r})

LEMMA RenderedIs ==
  ASSUME NEW items, NEW bound, FileListed(items, bound), NEW asked, AskedFor(items, asked),
         NEW fresh \in Nat \ {0}, NEW half, place.type \in DOMAIN KindsOf,
         \A n \in DOMAIN asked : ~ItemRefused(half, Previous(items, asked[n]), asked[n])
  PROVE  /\ SaveOf(half, items, asked, fresh, Rendered(items, asked, fresh))
         /\ Listing(Rendered(items, asked, fresh))
<1>1. PICK l : l = Len(asked) /\ l \in Nat /\ DOMAIN asked = 1..l /\ \A n \in 1..l : Sent(items, asked[n])
  BY DEF AskedFor
<1>2. PICK r : r = [n \in 1..l |-> Written(Built(Previous(items, asked[n]), asked[n], fresh))]
  OBVIOUS
<1>3. Rendered(items, asked, fresh) = r
  BY <1>1, <1>2 DEF Rendered
<1>4. r = [n \in 1..l |-> r[n]] /\ \A n \in 1..l : r[n] = Written(Built(Previous(items, asked[n]), asked[n], fresh))
  BY <1>2
<1>5. r \in Seq({r[n] : n \in DOMAIN r}) /\ Len(r) = l /\ DOMAIN r = 1..l
  BY ONLY <1>1, <1>4, ListIs
<1>6. ASSUME NEW n \in 1..l PROVE Follows(half, items, asked[n], fresh, r[n])
  <2>1. PICK d : d = asked[n] /\ Sent(items, d)
    BY <1>1
  <2>2. ~ItemRefused(half, Previous(items, d), d) /\ r[n] = Written(Built(Previous(items, d), d, fresh))
    BY <1>1, <1>4, <2>1
  <2>3. ASSUME NEW m \in DOMAIN items, DraftOf(items[m], d) PROVE Follows(half, items, d, fresh, r[n])
    <3>1. PICK o : o = items[m] /\ FileItem(o)
      BY DEF FileListed
    <3>2. d.uid = items[m].uid
      BY <2>3 DEF DraftOf
    <3>3. Previous(items, d) = {o}
      BY <3>1, <3>2, PreviousOld
    <3>4. DraftOf(o, d) /\ ~ItemRefused(half, {o}, d) /\ r[n] = Written(Built({o}, d, fresh))
      BY <2>2, <2>3, <3>1, <3>3
    <3>5. ItemSaved(half, o, d, fresh, r[n])
      BY <3>1, <3>4, ItemOld
    <3> QED
      BY <2>3, <3>1, <3>5 DEF Follows
  <2>4. ASSUME NEW k \in Offered, d = BlankDraft(k) PROVE Follows(half, items, d, fresh, r[n])
    <3>1. k \in DOMAIN Kinds
      BY OfferedAre
    <3>2. d.uid = 0
      <4>1. Blank(d, k)
        BY <2>4, <3>1, BlankIs
      <4> QED
        BY <4>1 DEF Blank
    <3>3. Previous(items, d) = {}
      BY <3>2, PreviousNew
    <3>4. ~ItemRefused(half, {}, d) /\ r[n] = Written(Built({}, d, fresh))
      BY <2>2, <3>3
    <3>5. ItemMade(half, d, fresh, r[n])
      BY <2>4, <3>1, <3>4, ItemNew
    <3> QED
      BY <2>4, <3>5 DEF Follows
  <2> QED
    BY <2>1, <2>3, <2>4 DEF Sent
<1>7. SaveOf(half, items, asked, fresh, r)
  BY <1>1, <1>5, <1>6 DEF SaveOf
<1> QED
  BY <1>3, <1>5, <1>7 DEF Listing

(* It is again a list of items, each of its own identifier.                *)
LEMMA SavedList ==
  ASSUME NEW items, NEW asked, NEW fresh \in Nat \ {0}, NEW half, FileListed(items, fresh),
         AskedFor(items, asked), NEW r, SaveOf(half, items, asked, fresh, r), Listing(r),
         place.type \in DOMAIN KindsOf, \A n \in DOMAIN items : items[n].kind \in KindsOf[place.type]
  PROVE  /\ FileItems(r, fresh + 1)
         /\ \A n \in DOMAIN r : r[n].kind \in KindsOf[place.type] /\ half \in Kinds[r[n].kind].halves
<1>1. DOMAIN r = DOMAIN asked /\ \A n \in DOMAIN r : Follows(half, items, asked[n], fresh, r[n])
  BY DEF SaveOf
<1>2. ASSUME NEW n \in DOMAIN r
      PROVE  /\ FileItem(r[n]) /\ r[n].uid < fresh + 1 /\ r[n].changed < fresh + 1
             /\ r[n].kind \in KindsOf[place.type] /\ half \in Kinds[r[n].kind].halves
             /\ \/ r[n].uid = asked[n].uid /\ r[n].uid < fresh
                \/ r[n].uid = fresh /\ asked[n].uid = 0
  <2>1. ASSUME NEW m \in DOMAIN items, DraftOf(items[m], asked[n]), ItemSaved(half, items[m], asked[n], fresh, r[n])
        PROVE  /\ FileItem(r[n]) /\ r[n].uid < fresh + 1 /\ r[n].changed < fresh + 1
               /\ r[n].kind \in KindsOf[place.type] /\ half \in Kinds[r[n].kind].halves
               /\ r[n].uid = asked[n].uid /\ r[n].uid < fresh
    <3>1. /\ FileItem(r[n]) /\ r[n].kind = asked[n].kind /\ r[n].uid = items[m].uid
          /\ r[n].changed \in {fresh, items[m].changed} /\ half \in Kinds[r[n].kind].halves
      BY <2>1 DEF ItemSaved
    <3>2. asked[n].kind = items[m].kind /\ asked[n].uid = items[m].uid
      BY <2>1 DEF DraftOf
    <3>3. items[m].uid < fresh /\ items[m].changed < fresh /\ items[m].uid \in Nat /\ items[m].changed \in Nat
      BY DEF FileListed, FileItem
    <3> QED
      BY <3>1, <3>2, <3>3
  <2>2. ASSUME NEW k \in Offered, asked[n] = BlankDraft(k), ItemMade(half, asked[n], fresh, r[n])
        PROVE  /\ FileItem(r[n]) /\ r[n].uid < fresh + 1 /\ r[n].changed < fresh + 1
               /\ r[n].kind \in KindsOf[place.type] /\ half \in Kinds[r[n].kind].halves
               /\ r[n].uid = fresh /\ asked[n].uid = 0
    <3>1. Blank(asked[n], k)
      BY <2>2, OfferedAre, BlankIs
    <3>2. asked[n].kind = k /\ asked[n].uid = 0 /\ k \in KindsOf[place.type]
      BY <3>1 DEF Blank, Offered
    <3>3. /\ FileItem(r[n]) /\ r[n].kind = asked[n].kind /\ r[n].uid = fresh /\ r[n].changed = fresh
          /\ half \in Kinds[r[n].kind].halves
      BY <2>2 DEF ItemMade
    <3>4. fresh < fresh + 1
      OBVIOUS
    <3> QED
      BY <3>2, <3>3, <3>4
  <2> QED
    BY <1>1, <2>1, <2>2 DEF Follows
<1>3. ASSUME NEW m \in DOMAIN r, NEW n \in DOMAIN r, r[m].uid = r[n].uid PROVE m = n
  <2>1. asked[m].uid = asked[n].uid
    BY <1>2, <1>3
  <2> QED
    BY <1>1, <2>1 DEF AskedFor
<1>4. FileItems(r, fresh + 1)
  BY <1>2, <1>3 DEF FileItems, Listing
<1> QED
  BY <1>2, <1>4

---------------------------------------------------------------------------
(* A save, of the whole file.                                              *)
LEMMA ByUidIs ==
  ASSUME NEW items, NEW bound, FileListed(items, bound), NEW m \in DOMAIN items
  PROVE  ByUid(items, items[m].uid) = {items[m]}
<1>1. {k \in DOMAIN items : items[k].uid = items[m].uid} = {m}
  BY DEF FileListed
<1> QED
  BY <1>1 DEF ByUid

\* A file left alone keeps everything.
LEMMA LeftAlone ==
  ASSUME NEW bound, FileListed(prefFile.items, bound), prefFile' = prefFile
  PROVE  /\ \A u \in Uids(prefFile.items) : FiltersAsRequested(u)
         /\ \A u \in Uids(prefFile'.items) : CarriedUnseen(u)
         /\ NamedStampHonest
<1>1. ASSUME NEW u \in Uids(prefFile.items)
      PROVE  \E o : ByUid(prefFile.items, u) = {o} /\ ByUid(prefFile'.items, u) = {o}
  <2>1. PICK m \in DOMAIN prefFile.items : u = prefFile.items[m].uid
    BY DEF Uids
  <2> QED
    BY <2>1, ByUidIs
<1>2. ASSUME NEW u \in Uids(prefFile.items) PROVE FiltersAsRequested(u) /\ CarriedUnseen(u) /\ ~MovedAlone(u)
  <2>1. PICK o : ByUid(prefFile.items, u) = {o} /\ ByUid(prefFile'.items, u) = {o}
    BY <1>1
  <2>2. \A p \in Pairs(u) : p[1] = o /\ p[2] = o
    BY <2>1 DEF Pairs
  <2>3. FiltersAsRequested(u)
    BY <2>2 DEF FiltersAsRequested
  <2>4. CarriedUnseen(u)
    BY <2>1 DEF CarriedUnseen
  <2>5. ~MovedAlone(u)
    BY <2>2 DEF MovedAlone
  <2> QED
    BY <2>3, <2>4, <2>5
<1> QED
  BY <1>2 DEF NamedStampHonest

\* A file saved: every item met its own.
Old(items, r, asked, fresh, m, n) ==
  /\ DraftOf(items[m], asked[n]) /\ ItemSaved(place.half, items[m], asked[n], fresh, r[n])
  /\ asked[n].uid = items[m].uid /\ r[n].uid = items[m].uid

LEMMA Met ==
  ASSUME NEW items, NEW asked, NEW fresh \in Nat \ {0}, FileListed(items, fresh), NEW r,
         SaveOf(place.half, items, asked, fresh, r),
         NEW m \in DOMAIN items, NEW n \in DOMAIN r, items[m].uid = r[n].uid
  PROVE  Old(items, r, asked, fresh, m, n)
<1>1. n \in DOMAIN asked /\ Follows(place.half, items, asked[n], fresh, r[n])
  BY DEF SaveOf
<1>2. items[m].uid < fresh /\ items[m].uid \in Nat
  BY DEF FileListed, FileItem
<1>3. r[n].uid # fresh
  BY <1>2
<1>4. PICK k \in DOMAIN items : DraftOf(items[k], asked[n]) /\ ItemSaved(place.half, items[k], asked[n], fresh, r[n])
  BY <1>1, <1>3 DEF Follows, ItemMade
<1>5. r[n].uid = items[k].uid /\ asked[n].uid = items[k].uid
  BY <1>4 DEF ItemSaved, DraftOf
<1>6. k = m
  BY <1>5 DEF FileListed
<1> QED
  BY <1>4, <1>5, <1>6 DEF Old

LEMMA SaveKeeps ==
  ASSUME NEW asked, NEW fresh \in Nat \ {0}, FileListed(prefFile.items, fresh),
         SaveOf(place.half, prefFile.items, asked, fresh, prefFile'.items),
         NEW result, sent' = {[asked |-> asked, result |-> result]}
  PROVE  /\ \A u \in Uids(prefFile.items) : FiltersAsRequested(u)
         /\ \A u \in Uids(prefFile'.items) : CarriedUnseen(u)
         /\ NamedStampHonest /\ SavedAsAsked
<1>1. PICK items, r : items = prefFile.items /\ r = prefFile'.items
  OBVIOUS
<1>2. /\ FileListed(items, fresh) /\ SaveOf(place.half, items, asked, fresh, r) /\ DOMAIN r = DOMAIN asked
      /\ Len(r) = Len(asked)
  BY <1>1 DEF SaveOf
<1>3. ASSUME NEW u, NEW p \in Pairs(u)
      PROVE  \E m \in DOMAIN items : \E n \in DOMAIN r :
               p[1] = items[m] /\ p[2] = r[n] /\ items[m].uid = u /\ r[n].uid = u /\ Old(items, r, asked, fresh, m, n)
  <2>1. p[1] \in ByUid(items, u) /\ p[2] \in ByUid(r, u)
    BY <1>1 DEF Pairs
  <2>2. PICK m \in DOMAIN items : p[1] = items[m] /\ items[m].uid = u
    BY <2>1 DEF ByUid
  <2>3. PICK n \in DOMAIN r : p[2] = r[n] /\ r[n].uid = u
    BY <2>1 DEF ByUid
  <2>4. Old(items, r, asked, fresh, m, n)
    BY <1>2, <2>2, <2>3, Met
  <2> QED
    BY <2>2, <2>3, <2>4
<1>4. ASSUME NEW u \in Uids(items) PROVE FiltersAsRequested(u)
  <2> DEFINE requests == UNION {{q.asked[n] : n \in {m \in DOMAIN q.asked : q.asked[m].uid = u}} : q \in sent'}
  <2>1. \A n \in DOMAIN asked : asked[n].uid = u => asked[n] \in requests
    OBVIOUS
  <2> HIDE DEF requests
  <2>2. ASSUME NEW p \in Pairs(u)
        PROVE  /\ p[1].filters.foreign => p[2].filters = p[1].filters
               /\ p[1].filters.once # 0 /\ p[2].filters.once # 0 => p[2].filters.once = p[1].filters.once
               /\ p[2].filters.once = 0 /\ p[1].filters.once # 0 => \E d \in requests : d.options # {}
               /\ p[2].filters.conditions # p[1].filters.conditions
                    => \E d \in requests : d.targeting \notin {{}, {p[1].filters.conditions}}
    <3>1. PICK m \in DOMAIN items, n \in DOMAIN r :
            p[1] = items[m] /\ p[2] = r[n] /\ items[m].uid = u /\ r[n].uid = u /\ Old(items, r, asked, fresh, m, n)
      BY <1>3
    <3>2. asked[n] \in requests /\ FiltersFollow(p[1].filters, p[2].filters, asked[n])
      BY <1>2, <2>1, <3>1 DEF Old, ItemSaved
    <3> QED
      BY <3>2 DEF FiltersFollow
  <2> QED
    BY <2>2 DEF FiltersAsRequested, requests
<1>5. ASSUME NEW u \in Uids(r) PROVE CarriedUnseen(u)
  <2> SUFFICES ASSUME NEW after \in ByUid(r, u)
               PROVE  IF ByUid(items, u) = {} THEN \A p \in Unseen(after).properties : p[2] = ""
                      ELSE \A b \in ByUid(items, u) : Unseen(after) = Unseen(b)
    BY <1>1 DEF CarriedUnseen
  <2>1. PICK n \in DOMAIN r : after = r[n] /\ r[n].uid = u
    BY DEF ByUid
  <2>2. ASSUME NEW b \in ByUid(items, u) PROVE Unseen(after) = Unseen(b)
    <3>1. PICK m \in DOMAIN items : b = items[m] /\ items[m].uid = u
      BY DEF ByUid
    <3>2. Old(items, r, asked, fresh, m, n)
      BY <1>2, <2>1, <3>1, Met
    <3> QED
      BY <2>1, <3>1, <3>2 DEF Old, ItemSaved
  <2>3. ASSUME ByUid(items, u) = {} PROVE \A p \in Unseen(after).properties : p[2] = ""
    <3>1. n \in DOMAIN asked /\ Follows(place.half, items, asked[n], fresh, r[n])
      BY <1>2 DEF SaveOf
    <3>2. ASSUME NEW m \in DOMAIN items, ItemSaved(place.half, items[m], asked[n], fresh, r[n]) PROVE FALSE
      <4>1. items[m].uid = u
        BY <2>1, <3>2 DEF ItemSaved
      <4>2. items[m] \in ByUid(items, u)
        BY <4>1 DEF ByUid
      <4> QED
        BY <2>3, <4>2
    <3>3. ItemMade(place.half, asked[n], fresh, r[n])
      BY <3>1, <3>2 DEF Follows
    <3> QED
      BY <2>1, <3>3 DEF ItemMade
  <2> QED
    BY <2>2, <2>3
<1>6. ASSUME NEW u \in Uids(items), MovedAlone(u) PROVE \E item \in ByUid(items, u) : ~Kinds[item.kind].status
  <2>1. PICK p \in Pairs(u) : p[1] # p[2] /\ [p[2] EXCEPT !.changed = p[1].changed] = p[1]
    BY <1>6 DEF MovedAlone
  <2>2. PICK m \in DOMAIN items, n \in DOMAIN r :
          p[1] = items[m] /\ p[2] = r[n] /\ items[m].uid = u /\ Old(items, r, asked, fresh, m, n)
    BY <1>3
  <2>3. PICK o, a : o = items[m] /\ a = r[n]
    OBVIOUS
  <2>4. Kinds[o.kind].status /\ [a EXCEPT !.changed = o.changed] = o => a = o
    BY <2>2, <2>3 DEF Old, ItemSaved
  <2>5. a # o /\ [a EXCEPT !.changed = o.changed] = o
    BY <2>1, <2>2, <2>3
  <2>6. o \in ByUid(items, u)
    BY <2>2, <2>3 DEF ByUid
  <2> QED
    BY <2>4, <2>5, <2>6
<1>7. SavedAsAsked
  <2>1. \A n \in DOMAIN asked : ReadsAsSent(r[n], asked[n])
    BY <1>2 DEF SaveOf, Follows, ItemSaved, ItemMade
  <2>2. PICK q : q = [asked |-> asked, result |-> result] /\ sent' = {q}
    OBVIOUS
  <2>3. q.asked = asked
    BY <2>2
  <2>4. Len(prefFile'.items) = Len(q.asked) /\ \A n \in DOMAIN q.asked : ReadsAsSent(prefFile'.items[n], q.asked[n])
    BY <1>1, <1>2, <2>1, <2>3
  <2> QED
    BY <2>2, <2>4 DEF SavedAsAsked
<1> QED
  BY <1>1, <1>4, <1>5, <1>6, <1>7 DEF NamedStampHonest

---------------------------------------------------------------------------
(* The invariant: the file is a list of items, each of its own identifier, *)
(* which no later item has; and a form that was read at the version the    *)
(* policy has holds the file's items.                                      *)
PrefsInv ==
  /\ prefVersion \in 1..MaxVersion /\ next \in Nat /\ FirstUid <= next
  /\ place.type \in DOMAIN KindsOf
  /\ FileItems(prefFile.items, next)
  /\ prefFile = [items |-> prefFile.items, unknown |-> prefFile.unknown]
  /\ \A n \in DOMAIN prefFile.items : /\ prefFile.items[n].kind \in KindsOf[place.type]
                                      /\ place.half \in Kinds[prefFile.items[n].kind].halves
  /\ listed = (prefFile.items # <<>>)
  /\ \A f \in form : /\ f.version \in Nat /\ f.version <= prefVersion
                     /\ f.version = prefVersion => f.items = prefFile.items

LEMMA PrefsInvInit == PreferencesInit => PrefsInv
<1> SUFFICES ASSUME PreferencesInit PROVE PrefsInv
  OBVIOUS
<1>1. PICK s \in Starts : /\ place = [type |-> s.type, half |-> s.half]
                          /\ prefFile = [items |-> s.items, unknown |-> s.unknown]
                          /\ listed = (s.items # <<>>) /\ prefVersion = 1 /\ next = FirstUid /\ form = {}
  BY DEF PreferencesInit
<1>2. place.type = s.type /\ place.half = s.half /\ prefFile.items = s.items /\ prefFile.unknown = s.unknown
  BY <1>1
<1>3. /\ FileItems(s.items, FirstUid) /\ s.type \in DOMAIN KindsOf
      /\ \A n \in DOMAIN s.items : s.half \in Kinds[s.items[n].kind].halves
      /\ \A n \in DOMAIN s.items : s.items[n].kind \in KindsOf[s.type]
  BY PreferenceFiles, PreferenceConstants
<1>4. prefVersion \in 1..MaxVersion /\ next \in Nat /\ FirstUid <= next
  BY <1>1, PreferenceConstants DEF FirstUid
<1> QED
  BY <1>1, <1>2, <1>3, <1>4 DEF PrefsInv

LEMMA FileItemsLater ==
  ASSUME NEW items, NEW b \in Nat, NEW c \in Nat, b <= c, FileItems(items, b)
  PROVE  FileItems(items, c)
<1>1. \A n \in DOMAIN items : items[n].uid < c /\ items[n].changed < c
  <2> SUFFICES ASSUME NEW n \in DOMAIN items PROVE items[n].uid < c /\ items[n].changed < c
    OBVIOUS
  <2>1. items[n].uid \in Nat /\ items[n].changed \in Nat /\ items[n].uid < b /\ items[n].changed < b
    BY DEF FileItems, FileItem
  <2> QED
    BY <2>1
<1> QED
  BY <1>1 DEF FileItems

\* What a step makes of the file, and of what was answered.
Untouched == /\ prefFile' = prefFile /\ listed' = listed /\ prefVersion' = prefVersion /\ next' = next
             /\ place' = place

LEMMA SetItemsIs ==
  ASSUME PrefsInv, SetItems
  PROVE  /\ place' = place /\ form' = form
         /\ \E asked, result :
              /\ sent' = {[asked |-> asked, result |-> result]}
              /\ \/ Untouched /\ result \in {"conflict", "refused"}
                 \/ /\ AskedFor(prefFile.items, asked)
                    /\ SaveOf(place.half, prefFile.items, asked, next, Rendered(prefFile.items, asked, next))
                    /\ Listing(Rendered(prefFile.items, asked, next))
                    /\ \/ Untouched /\ Rendered(prefFile.items, asked, next) = prefFile.items
                       \/ /\ prefVersion < MaxVersion
                          /\ BumpFor(Rendered(prefFile.items, asked, next), asked # <<>>)
<1>1. PICK f \in form : \E asked \in Requests(f.items) :
        /\ prefVersion < MaxVersion
        /\ UNCHANGED <<place, form>>
        /\ \/ f.version # prefVersion
              /\ Answer(asked, "conflict") /\ UNCHANGED <<prefFile, listed, prefVersion, next>>
           \/ /\ f.version = prefVersion
              /\ \/ prefFile.unknown
                 \/ \E n \in DOMAIN asked : ItemRefused(place.half, Previous(prefFile.items, asked[n]), asked[n])
              /\ Answer(asked, "refused") /\ UNCHANGED <<prefFile, listed, prefVersion, next>>
           \/ /\ f.version = prefVersion /\ ~prefFile.unknown
              /\ \A n \in DOMAIN asked : ~ItemRefused(place.half, Previous(prefFile.items, asked[n]), asked[n])
              /\ IF Rendered(prefFile.items, asked, next) = prefFile.items
                 THEN Answer(asked, "unchanged") /\ UNCHANGED <<prefFile, listed, prefVersion, next>>
                 ELSE /\ Answer(asked, "written")
                      /\ BumpFor(Rendered(prefFile.items, asked, next), asked # <<>>)
  BY DEF SetItems
<1>2. PICK asked \in Requests(f.items) :
        /\ prefVersion < MaxVersion
        /\ UNCHANGED <<place, form>>
        /\ \/ f.version # prefVersion
              /\ Answer(asked, "conflict") /\ UNCHANGED <<prefFile, listed, prefVersion, next>>
           \/ /\ f.version = prefVersion
              /\ \/ prefFile.unknown
                 \/ \E n \in DOMAIN asked : ItemRefused(place.half, Previous(prefFile.items, asked[n]), asked[n])
              /\ Answer(asked, "refused") /\ UNCHANGED <<prefFile, listed, prefVersion, next>>
           \/ /\ f.version = prefVersion /\ ~prefFile.unknown
              /\ \A n \in DOMAIN asked : ~ItemRefused(place.half, Previous(prefFile.items, asked[n]), asked[n])
              /\ IF Rendered(prefFile.items, asked, next) = prefFile.items
                 THEN Answer(asked, "unchanged") /\ UNCHANGED <<prefFile, listed, prefVersion, next>>
                 ELSE /\ Answer(asked, "written")
                      /\ BumpFor(Rendered(prefFile.items, asked, next), asked # <<>>)
  BY <1>1
<1>3. CASE \E result \in {"conflict", "refused"} : Answer(asked, result) /\ Untouched
  BY <1>2, <1>3 DEF Answer
<1>4. CASE /\ f.version = prefVersion
           /\ \A n \in DOMAIN asked : ~ItemRefused(place.half, Previous(prefFile.items, asked[n]), asked[n])
           /\ \E result : /\ Answer(asked, result)
                          /\ \/ Untouched /\ Rendered(prefFile.items, asked, next) = prefFile.items
                             \/ BumpFor(Rendered(prefFile.items, asked, next), asked # <<>>)
  <2>1. FileListed(prefFile.items, next) /\ f.items = prefFile.items
    BY <1>4, ItemsAre DEF PrefsInv
  <2>2. AskedFor(prefFile.items, asked)
    BY <2>1, AskedIs
  <2>3. next \in Nat \ {0} /\ place.type \in DOMAIN KindsOf
    BY DEF PrefsInv, FirstUid
  <2>4. /\ SaveOf(place.half, prefFile.items, asked, next, Rendered(prefFile.items, asked, next))
        /\ Listing(Rendered(prefFile.items, asked, next))
    <3>1. \A n \in DOMAIN asked : ~ItemRefused(place.half, Previous(prefFile.items, asked[n]), asked[n])
      BY <1>4
    <3>2. PICK items, fresh, half : items = prefFile.items /\ fresh = next /\ half = place.half
      OBVIOUS
    <3>3. /\ FileListed(items, fresh) /\ AskedFor(items, asked) /\ fresh \in Nat \ {0}
          /\ \A n \in DOMAIN asked : ~ItemRefused(half, Previous(items, asked[n]), asked[n])
      BY <2>1, <2>2, <2>3, <3>1, <3>2
    <3>4. SaveOf(half, items, asked, fresh, Rendered(items, asked, fresh)) /\ Listing(Rendered(items, asked, fresh))
      BY ONLY <2>3, <3>3, RenderedIs
    <3> QED
      BY <3>2, <3>4
  <2>5. PICK result : /\ Answer(asked, result)
                      /\ \/ Untouched /\ Rendered(prefFile.items, asked, next) = prefFile.items
                         \/ BumpFor(Rendered(prefFile.items, asked, next), asked # <<>>)
    BY <1>4
  <2> QED
    BY <1>2, <2>2, <2>4, <2>5 DEF Answer
<1> QED
  BY <1>2, <1>3, <1>4 DEF Untouched

LEMMA PrefsInvStep == PrefsInv /\ [PreferencesNext]_preferenceVars => PrefsInv'
<1> SUFFICES ASSUME PrefsInv, [PreferencesNext]_preferenceVars PROVE PrefsInv'
  OBVIOUS
<1>1. CASE ReadItems
  <2>1. \A f \in form' : f.version = prefVersion /\ f.items = prefFile.items
    BY <1>1 DEF ReadItems
  <2>2. UNCHANGED <<place, prefFile, listed, prefVersion, next>>
    BY <1>1 DEF ReadItems
  <2> QED
    BY <2>1, <2>2 DEF PrefsInv
<1>2. CASE SetItems
  <2>1. place' = place /\ form' = form
    BY <1>2, SetItemsIs
  <2>2. CASE Untouched
    BY <2>1, <2>2 DEF PrefsInv, Untouched
  <2>3. CASE ~Untouched
    <3>1. PICK asked, r :
            /\ r = Rendered(prefFile.items, asked, next) /\ AskedFor(prefFile.items, asked)
            /\ SaveOf(place.half, prefFile.items, asked, next, r) /\ Listing(r)
            /\ prefVersion < MaxVersion /\ BumpFor(r, asked # <<>>)
      BY <1>2, <2>3, SetItemsIs
    <3>2. /\ FileListed(prefFile.items, next) /\ next \in Nat \ {0} /\ place.type \in DOMAIN KindsOf
          /\ \A n \in DOMAIN prefFile.items : prefFile.items[n].kind \in KindsOf[place.type]
      BY ItemsAre DEF PrefsInv, FirstUid
    <3>3. /\ FileItems(r, next + 1)
          /\ \A n \in DOMAIN r : r[n].kind \in KindsOf[place.type] /\ place.half \in Kinds[r[n].kind].halves
      <4>1. PICK items, fresh, half : items = prefFile.items /\ fresh = next /\ half = place.half
        OBVIOUS
      <4>2. /\ FileListed(items, fresh) /\ fresh \in Nat \ {0} /\ AskedFor(items, asked)
            /\ SaveOf(half, items, asked, fresh, r) /\ Listing(r)
            /\ \A n \in DOMAIN items : items[n].kind \in KindsOf[place.type]
        BY <3>1, <3>2, <4>1
      <4>3. /\ FileItems(r, fresh + 1)
            /\ \A n \in DOMAIN r : r[n].kind \in KindsOf[place.type] /\ half \in Kinds[r[n].kind].halves
        BY ONLY <3>2, <4>2, SavedList
      <4> QED
        BY <4>1, <4>3
    <3>4. PICK x : x = prefFile.unknown /\ prefFile = [items |-> prefFile.items, unknown |-> x]
      BY DEF PrefsInv
    <3>5. prefFile' = [prefFile EXCEPT !.items = r]
      BY <3>1 DEF BumpFor
    <3>6. prefFile' = [items |-> r, unknown |-> x]
      BY ONLY <3>4, <3>5
    <3>7. prefFile'.items = r /\ prefFile' = [items |-> prefFile'.items, unknown |-> prefFile'.unknown]
      BY ONLY <3>6
    <3>8. listed' = (asked # <<>>) /\ prefVersion' = prefVersion + 1 /\ next' = next + 1
      BY <3>1 DEF BumpFor
    <3>9. (asked # <<>>) = (r # <<>>)
      <4>1. Len(r) = Len(asked) /\ (asked = <<>> <=> Len(asked) = 0)
        BY <3>1 DEF SaveOf, AskedFor
      <4>2. r = <<>> <=> Len(r) = 0
        BY <3>1, EmptyList DEF Listing
      <4> QED
        BY <4>1, <4>2
    <3>10. prefVersion' \in 1..MaxVersion /\ next' \in Nat /\ FirstUid <= next'
      BY <3>1, <3>8, PreferenceConstants DEF PrefsInv, FirstUid
    <3>11. \A f \in form' : f.version \in Nat /\ f.version <= prefVersion' /\ f.version # prefVersion'
      BY <2>1, <3>8 DEF PrefsInv
    <3> QED
      BY <2>1, <3>2, <3>3, <3>7, <3>8, <3>9, <3>10, <3>11 DEF PrefsInv
  <2> QED
    BY <2>2, <2>3
<1>3. CASE ConsoleSaves
  <2>1. PICK w \in Foreign :
          /\ prefVersion < MaxVersion
          /\ \A n \in DOMAIN w.items : w.items[n].kind \in KindsOf[place.type] /\ place.half \in Kinds[w.items[n].kind].halves
          /\ prefFile' = w /\ listed' = (w.items # <<>>)
          /\ prefVersion' = prefVersion + 1 /\ next' = next + 1 /\ place' = place /\ form' = form
    BY <1>3 DEF ConsoleSaves
  <2>2. FileItems(w.items, FirstUid) /\ w = [items |-> w.items, unknown |-> w.unknown]
    BY PreferenceFiles
  <2>3. prefVersion' \in 1..MaxVersion /\ next' \in Nat /\ FirstUid <= next'
    BY <2>1, PreferenceConstants DEF PrefsInv, FirstUid
  <2>4. FileItems(w.items, next')
    BY <2>2, <2>3, FileItemsLater DEF FirstUid
  <2>5. \A f \in form' : f.version \in Nat /\ f.version <= prefVersion' /\ f.version # prefVersion'
    BY <2>1 DEF PrefsInv
  <2> QED
    BY <2>1, <2>2, <2>3, <2>4, <2>5 DEF PrefsInv
<1>4. CASE UNCHANGED preferenceVars
  BY <1>4 DEF PrefsInv, preferenceVars
<1> QED
  BY <1>1, <1>2, <1>3, <1>4 DEF PreferencesNext

(* The list is a list: identifiers are distinct and none is from the       *)
(* future, kinds are those of the type and the half, and the extension is  *)
(* registered exactly while there are items, whatever editors and the      *)
(* Windows console save, in any order (store.write, store._clear).         *)
THEOREM PrefsTyped == PreferencesSpec => []PrefsTypeOK
<1>1. PrefsInv => PrefsTypeOK
  BY DEF PrefsInv, PrefsTypeOK, FileItems
<1> QED
  BY <1>1, PrefsInvInit, PrefsInvStep, PTL DEF PreferencesSpec

(* A save is what the form sent and nothing more: conditions, the run-once *)
(* marker and a block the form cannot edit change only on request, what no *)
(* form shows is carried from the item with the same identifier, what was  *)
(* sent reads back, and a stamp does not move alone but for the kinds that *)
(* carry no status (store.write, store._prepare, _options_and_targeting).  *)
THEOREM PreferencesKeptHolds == PreferencesSpec => PreferencesKept
<1>1. ASSUME PrefsInv, [PreferencesNext]_preferenceVars
      PROVE  [Saving => /\ \A u \in Uids(prefFile.items) : FiltersAsRequested(u)
                        /\ \A u \in Uids(prefFile'.items) : CarriedUnseen(u)
                        /\ SavedAsAsked /\ NamedStampHonest]_preferenceVars
  <2> SUFFICES ASSUME PreferencesNext, Saving
               PROVE  /\ \A u \in Uids(prefFile.items) : FiltersAsRequested(u)
                      /\ \A u \in Uids(prefFile'.items) : CarriedUnseen(u)
                      /\ SavedAsAsked /\ NamedStampHonest
    BY <1>1
  <2>1. SetItems
    BY DEF PreferencesNext, Saving, ReadItems, ConsoleSaves
  <2>2. FileListed(prefFile.items, next) /\ next \in Nat \ {0}
    BY <1>1, ItemsAre DEF PrefsInv, FirstUid
  <2>3. PICK asked, result :
          /\ sent' = {[asked |-> asked, result |-> result]}
          /\ \/ Untouched /\ result \in {"conflict", "refused"}
             \/ /\ AskedFor(prefFile.items, asked)
                /\ SaveOf(place.half, prefFile.items, asked, next, Rendered(prefFile.items, asked, next))
                /\ Listing(Rendered(prefFile.items, asked, next))
                /\ \/ Untouched /\ Rendered(prefFile.items, asked, next) = prefFile.items
                   \/ /\ prefVersion < MaxVersion
                      /\ BumpFor(Rendered(prefFile.items, asked, next), asked # <<>>)
    BY <1>1, <2>1, SetItemsIs
  <2>4. CASE Untouched /\ result \in {"conflict", "refused"}
    <3>1. SavedAsAsked
      <4>1. PICK q : q = [asked |-> asked, result |-> result] /\ sent' = {q}
        BY <2>3
      <4>2. q.result \notin {"written", "unchanged"}
        BY <2>4, <4>1
      <4> QED
        BY <4>1, <4>2 DEF SavedAsAsked
    <3> QED
      BY <2>2, <2>4, <3>1, LeftAlone DEF Untouched
  <2>5. CASE /\ SaveOf(place.half, prefFile.items, asked, next, Rendered(prefFile.items, asked, next))
             /\ \/ Untouched /\ Rendered(prefFile.items, asked, next) = prefFile.items
                \/ BumpFor(Rendered(prefFile.items, asked, next), asked # <<>>)
    <3>1. PICK r : r = Rendered(prefFile.items, asked, next)
      OBVIOUS
    <3>2. prefFile'.items = r
      <4>1. CASE Untouched /\ r = prefFile.items
        BY <4>1 DEF Untouched
      <4>2. CASE BumpFor(r, asked # <<>>)
        <5>1. prefFile' = [prefFile EXCEPT !.items = r]
          BY <4>2 DEF BumpFor
        <5>2. PICK i, x : prefFile = [items |-> i, unknown |-> x]
          BY <1>1 DEF PrefsInv
        <5> QED
          BY ONLY <5>1, <5>2
      <4> QED
        BY <2>5, <3>1, <4>1, <4>2
    <3>3. SaveOf(place.half, prefFile.items, asked, next, prefFile'.items)
      BY <2>5, <3>1, <3>2
    <3> QED
      BY <2>2, <2>3, <3>3, SaveKeeps
  <2> QED
    BY <2>3, <2>4, <2>5
<1> QED
  BY <1>1, PrefsInvInit, PrefsInvStep, PTL DEF PreferencesSpec, PreferencesKept
=============================================================================
