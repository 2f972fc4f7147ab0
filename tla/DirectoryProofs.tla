--------------------------- MODULE DirectoryProofs ---------------------------
(***************************************************************************)
(* What an administrator edits in the directory: theorems about Tree,      *)
(* Sites and Zones, for any directory, any configured units, any zones,    *)
(* any requests and any number of sessions.                                *)
(***************************************************************************)
EXTENDS Tree, Sites, Zones, CollectionsProofs, FiniteSetTheorems, FunctionTheorems

---------------------------------------------------------------------------
(* Tree: names                                                             *)
(* One sequence begins another if it is no longer and agrees with it.      *)
LEMMA PrefixIs ==
  ASSUME NEW s \in Seq(STRING), NEW t \in Seq(STRING)
  PROVE  IsPrefix(s, t) <=> Len(s) <= Len(t) /\ \A i \in 1..Len(s) : s[i] = t[i]
<1>1. CASE Len(s) <= Len(t)
  <2>1. SubSeq(s, 1, Len(s)) = s
    BY SubSeqFull
  <2>2. \A i \in 1..Len(s) : t[i] \in STRING
    BY <1>1
  <2>3. /\ SubSeq(t, 1, Len(s)) \in Seq(STRING) /\ Len(SubSeq(t, 1, Len(s))) = Len(s)
        /\ \A i \in 1..Len(s) : SubSeq(t, 1, Len(s))[i] = t[i]
    BY <1>1, <2>2, SubSeqProperties
  <2>4. s = SubSeq(t, 1, Len(s)) <=> \A i \in 1..Len(s) : s[i] = t[i]
    BY <2>3, SeqEqual
  <2> QED
    BY <1>1, <2>1, <2>4 DEF IsPrefix
<1>2. CASE ~(Len(s) <= Len(t))
  BY <1>2 DEF IsPrefix
<1> QED
  BY <1>1, <1>2

(* The beginning of a sequence up to n, and that it is what IsPrefix says. *)
LEMMA SubSeqIs ==
  ASSUME NEW t \in Seq(STRING), NEW n \in 1..Len(t)
  PROVE  /\ SubSeq(t, 1, n) \in Path /\ Len(SubSeq(t, 1, n)) = n
         /\ \A i \in 1..n : SubSeq(t, 1, n)[i] = t[i]
         /\ IsPrefix(SubSeq(t, 1, n), t)
<1>1. \A i \in 1..n : t[i] \in STRING
  OBVIOUS
<1>2. /\ SubSeq(t, 1, n) \in Seq(STRING) /\ Len(SubSeq(t, 1, n)) = n
      /\ \A i \in 1..n : SubSeq(t, 1, n)[i] = t[i]
  BY <1>1, SubSeqProperties
<1>3. SubSeq(t, 1, n) # <<>>
  BY <1>2
<1>4. IsPrefix(SubSeq(t, 1, n), t)
  <2> DEFINE p == SubSeq(t, 1, n)
  <2> HIDE DEF p
  <2>1. p \in Seq(STRING) /\ Len(p) <= Len(t) /\ \A i \in 1..Len(p) : p[i] = t[i]
    BY <1>2 DEF p
  <2>2. IsPrefix(p, t)
    BY <2>1, PrefixIs
  <2> QED
    BY <2>2 DEF p
<1> QED
  BY <1>2, <1>3, <1>4 DEF Path

(* What begins something is one of its beginnings.                         *)
LEMMA PrefixIsSubSeq ==
  ASSUME NEW s \in Path, NEW t \in Path, IsPrefix(s, t)
  PROVE  Len(s) \in 1..Len(t) /\ s = SubSeq(t, 1, Len(s))
<1>1. s \in Seq(STRING) /\ t \in Seq(STRING) /\ s # <<>>
  BY DEF Path
<1>2. Len(s) <= Len(t) /\ \A i \in 1..Len(s) : s[i] = t[i]
  BY <1>1, PrefixIs
<1>3. Len(s) \in 1..Len(t)
  BY <1>1, <1>2, EmptySeq
<1>4. SubSeq(t, 1, Len(s)) \in Seq(STRING) /\ Len(SubSeq(t, 1, Len(s))) = Len(s)
      /\ \A i \in 1..Len(s) : SubSeq(t, 1, Len(s))[i] = t[i]
  BY <1>1, <1>3, SubSeqIs DEF Path
<1>5. s = SubSeq(t, 1, Len(s))
  BY <1>1, <1>2, <1>4, SeqEqual
<1> QED
  BY <1>3, <1>5

(* Two beginnings of one sequence: the shorter begins the longer.          *)
LEMMA PrefixesMeet ==
  ASSUME NEW s \in Path, NEW t \in Path, NEW u \in Path, IsPrefix(s, u), IsPrefix(t, u)
  PROVE  IsPrefix(s, t) \/ IsPrefix(t, s)
  BY PrefixIs DEF Path

(* Beginning is transitive, and only equals begin each other.              *)
LEMMA PrefixOrder ==
  ASSUME NEW s \in Path, NEW t \in Path, NEW u \in Path, IsPrefix(s, t)
  PROVE  (IsPrefix(t, u) => IsPrefix(s, u)) /\ (IsPrefix(t, s) => s = t)
<1>1. s \in Seq(STRING) /\ t \in Seq(STRING) /\ u \in Seq(STRING)
  BY DEF Path
<1>2. IsPrefix(t, u) => IsPrefix(s, u)
  BY <1>1, PrefixIs
<1>3. IsPrefix(t, s) => s = t
  BY <1>1, PrefixIs, SeqEqual
<1> QED
  BY <1>2, <1>3

(***************************************************************************)
(* The invariant                                                           *)
(***************************************************************************)
IsOperation(op) ==
  {"dn", "to", "recursive"} \subseteq DOMAIN op /\ op.dn \in Path /\ op.to \in Path /\ op.recursive \in BOOLEAN
OpsInv ==
  /\ DOMAIN working = TAdmin
  /\ \A a \in TAdmin : Working(a) => IsOperation(working[a])
TInv == Rooted(Dns) /\ OpsInv

(* Going on to an operation's next request keeps what it is about.         *)
LEMMA TreeReadyKeeps ==
  ASSUME OpsInv, NEW a \in TAdmin, NEW op, IsOperation(op), Ready(a, op)
  PROVE  OpsInv'
<1>1. IsOperation([op EXCEPT !.todo = Tail(@)])
  BY DEF IsOperation
<1>2. Idle("ok").todo = <<>>
  BY DEF Idle
<1>3. DOMAIN working' = TAdmin
  BY DEF Ready, OpsInv
<1>4. ASSUME NEW b \in TAdmin, Working(b)'
      PROVE  IsOperation(working'[b])
  <2>1. CASE b = a
    <3>1. working'[a] = IF Len(op.todo) > 1 THEN [op EXCEPT !.todo = Tail(@)] ELSE Idle("ok")
      BY DEF Ready, OpsInv
    <3> QED
      BY <1>1, <1>2, <1>4, <2>1, <3>1 DEF Working
  <2>2. CASE b # a
    <3>1. working'[b] = working[b]
      BY <2>2 DEF Ready, OpsInv
    <3> QED
      BY <1>4, <3>1 DEF Working, OpsInv
  <2> QED
    BY <2>1, <2>2
<1> QED
  BY <1>3, <1>4 DEF OpsInv

(* Ending an operation leaves none.                                        *)
LEMMA TreeStopKeeps ==
  ASSUME OpsInv, NEW a \in TAdmin, NEW why, Stop(a, why)
  PROVE  OpsInv'
<1>1. PICK w : working'[a] = Idle(w)
  BY DEF Stop, OpsInv
<1>2. DOMAIN working' = TAdmin /\ \A b \in TAdmin \ {a} : working'[b] = working[b]
  BY DEF Stop, OpsInv
<1>3. working'[a].todo = <<>>
  BY <1>1 DEF Idle
<1> QED
  BY <1>2, <1>3 DEF OpsInv, Working

(* An operation begins with what was asked.                                *)
LEMMA TreeBeginKeeps ==
  ASSUME OpsInv, NEW a \in TAdmin, TBegin(a)
  PROVE  OpsInv'
<1>1. PICK r \in TAsked :
        working' = [working EXCEPT ![a] = Extended(r,
          [todo |-> TPlan(r), result |-> "none", sheet |-> AclOf(r.dn), acl |-> <<>>, next |-> <<>>,
           given |-> 0, added |-> FALSE])]
  BY DEF TBegin
<1> DEFINE new == Extended(r,
          [todo |-> TPlan(r), result |-> "none", sheet |-> AclOf(r.dn), acl |-> <<>>, next |-> <<>>,
           given |-> 0, added |-> FALSE])
<1>2. r \in TRequest
  BY TreeConstants
<1>3. {"dn", "to", "recursive"} \subseteq DOMAIN r /\ r.dn \in Path /\ r.to \in Path /\ r.recursive \in BOOLEAN
  BY <1>2 DEF TRequest
<1>4. IsOperation(new)
  BY <1>3 DEF IsOperation, Extended
<1> HIDE DEF new
<1>5. DOMAIN working' = TAdmin /\ working'[a] = new /\ \A b \in TAdmin \ {a} : working'[b] = working[b]
  BY <1>1 DEF OpsInv, new
<1> QED
  BY <1>4, <1>5 DEF OpsInv, Working

(***************************************************************************)
(* What the requests do to the tree                                        *)
(***************************************************************************)
(* Changing one entry elsewhere does nothing to a guarded unit.            *)
LEMMA EntryStep ==
  ASSUME NEW dn, ~ProtectingOu(dn), DOMAIN tree' = Dns, \A d \in Dns \ {dn} : tree'[d] = tree[d]
  PROVE  Untouched
  BY DEF Untouched, Under, Dns, ProtectingOu

(* Adding an entry below one that exists.                                  *)
LEMMA AddStep ==
  ASSUME Rooted(Dns), NEW dn \in Path, NEW entry,
         ~ProtectingOu(dn), dn \notin Dns, Front(dn) \in Dns, tree' = Extended([d \in {dn} |-> entry], tree)
  PROVE  Rooted(Dns') /\ Untouched
<1>1. DOMAIN tree' = Dns \cup {dn} /\ \A d \in Dns : tree'[d] = tree[d]
  BY DEF Dns, Extended
<1>2. Untouched
  BY <1>1 DEF Untouched, Under, Dns, ProtectingOu
<1>3. ASSUME NEW n \in 1..Len(dn)
      PROVE  SubSeq(dn, 1, n) \in Dns \cup {dn}
  <2>1. dn \in Seq(STRING) /\ Len(dn) \in Nat /\ Len(dn) >= 1
    BY EmptySeq DEF Path
  <2>2. CASE n = Len(dn)
    BY <2>1, <2>2, SubSeqFull
  <2>3. CASE n # Len(dn)
    <3>1. n \in 1..Len(dn) - 1 /\ Len(dn) - 1 \in 1..Len(dn)
      BY <2>1, <2>3
    <3> DEFINE front == SubSeq(dn, 1, Len(dn) - 1)
    <3>2. front \in Path /\ Len(front) = Len(dn) - 1 /\ \A i \in 1..Len(dn) - 1 : front[i] = dn[i]
      BY <2>1, <3>1, SubSeqIs
    <3>3. front \in Dns
      BY DEF Front
    <3> HIDE DEF front
    <3>4. SubSeq(front, 1, n) \in Dns
      BY <3>1, <3>2, <3>3 DEF Rooted
    <3>5. /\ SubSeq(front, 1, n) \in Seq(STRING) /\ Len(SubSeq(front, 1, n)) = n
          /\ \A i \in 1..n : SubSeq(front, 1, n)[i] = front[i]
      BY <3>1, <3>2, SubSeqIs DEF Path
    <3>6. /\ SubSeq(dn, 1, n) \in Seq(STRING) /\ Len(SubSeq(dn, 1, n)) = n
          /\ \A i \in 1..n : SubSeq(dn, 1, n)[i] = dn[i]
      BY <2>1, SubSeqIs DEF Path
    <3>7. SubSeq(front, 1, n) = SubSeq(dn, 1, n)
      BY <3>1, <3>2, <3>5, <3>6, SeqEqual
    <3> QED
      BY <3>4, <3>7
  <2> QED
    BY <2>2, <2>3
<1>4. Rooted(Dns')
  BY <1>1, <1>3 DEF Rooted, Dns
<1> QED
  BY <1>2, <1>4

(* A beginning of an existing name is one that exists.                     *)
LEMMA RootedUp ==
  ASSUME NEW S, Rooted(S), NEW dn \in S, NEW p \in Path, IsPrefix(p, dn)
  PROVE  p \in S
<1>1. dn \in Path
  BY DEF Rooted
<1>2. Len(p) \in 1..Len(dn) /\ p = SubSeq(dn, 1, Len(p))
  BY <1>1, PrefixIsSubSeq
<1> QED
  BY <1>2 DEF Rooted

(* What has something below it has a child.                                *)
LEMMA ChildBetween ==
  ASSUME Rooted(Dns), NEW dn \in Dns, NEW d \in Under(dn), d # dn
  PROVE  Children(dn) # {}
<1>1. dn \in Path /\ d \in Path /\ d \in Dns /\ IsPrefix(dn, d)
  BY DEF Rooted, Under
<1>2. Len(dn) \in Nat \ {0} /\ Len(d) \in Nat /\ Len(dn) <= Len(d) /\ \A i \in 1..Len(dn) : dn[i] = d[i]
  BY <1>1, PrefixIs, EmptySeq DEF Path
<1>3. Len(dn) # Len(d)
  BY <1>1, <1>2, SeqEqual DEF Path
<1> DEFINE n == Len(dn) + 1
           c == SubSeq(d, 1, n)
<1>4. n \in 1..Len(d)
  BY <1>2, <1>3
<1>5. c \in Path /\ Len(c) = n /\ (\A i \in 1..n : c[i] = d[i]) /\ c \in Dns
  BY <1>1, <1>4, SubSeqIs DEF Path, Rooted
<1> HIDE DEF c
<1>6. IsPrefix(dn, c)
  BY <1>1, <1>2, <1>5, PrefixIs DEF Path
<1>7. c \in Children(dn)
  BY <1>5, <1>6 DEF Children, Under
<1> QED
  BY <1>7

(* Deleting an entry without children, or a whole subtree that holds no    *)
(* guarded unit.                                                           *)
LEMMA DeleteStep ==
  ASSUME Rooted(Dns), NEW dn \in Dns, NEW recursive \in BOOLEAN,
         ~GuardDelete(dn, recursive), recursive \/ Children(dn) = {},
         tree' = Restrict(tree, Dns \ Under(dn))
  PROVE  Rooted(Dns') /\ Untouched
<1>1. dn \in Path /\ \A d \in Dns : d \in Path
  BY DEF Rooted
<1>2. Dns' = Dns \ Under(dn) /\ \A d \in Dns' : tree'[d] = tree[d]
  BY DEF Dns, Restrict
<1>3. ASSUME NEW d \in Dns', NEW n \in 1..Len(d)
      PROVE  SubSeq(d, 1, n) \in Dns'
  <2>1. d \in Path /\ d \in Dns /\ ~IsPrefix(dn, d)
    BY <1>1, <1>2 DEF Under
  <2>2. SubSeq(d, 1, n) \in Path /\ IsPrefix(SubSeq(d, 1, n), d) /\ SubSeq(d, 1, n) \in Dns
    BY <2>1, SubSeqIs DEF Path, Rooted
  <2>3. ~IsPrefix(dn, SubSeq(d, 1, n))
    BY <1>1, <2>1, <2>2, PrefixOrder
  <2> QED
    BY <1>2, <2>2, <2>3 DEF Under
<1>4. Rooted(Dns')
  BY <1>1, <1>2, <1>3 DEF Rooted
<1>5. ASSUME NEW ou \in Guarded \cap Dns, IsPrefix(dn, ou)
      PROVE  FALSE
  <2>1. ou \in Path /\ ~IsPrefix(ou, dn)
    BY <1>1 DEF GuardDelete, ProtectingOu
  <2>2. dn # ou
    BY <1>1, <1>5, <2>1
  <2>3. ~recursive /\ Children(dn) = {}
    BY <1>5, <2>2 DEF GuardDelete, ProtectedBelow, IsStrictPrefix
  <2>4. ou \in Under(dn)
    BY <1>5 DEF Under
  <2> QED
    BY <2>2, <2>3, <2>4, ChildBetween
<1>6. ASSUME NEW ou \in Guarded \cap Dns, NEW d \in Under(ou)
      PROVE  d \notin Under(dn)
  <2>1. ou \in Path /\ d \in Path /\ IsPrefix(ou, d) /\ ~IsPrefix(ou, dn) /\ ~IsPrefix(dn, ou)
    BY <1>1, <1>5 DEF Under, GuardDelete, ProtectingOu
  <2> QED
    BY <1>1, <2>1, PrefixesMeet DEF Under
<1>7. Untouched
  BY <1>2, <1>5, <1>6 DEF Untouched, Under
<1> QED
  BY <1>4, <1>7

(* What a name looks like whose beginning is called otherwise.             *)
LEMMA BelowIs ==
  ASSUME NEW new \in Path, NEW old \in Path, NEW d \in Path, IsPrefix(old, d)
  PROVE  /\ Below(new, old, d) \in Path /\ Len(Below(new, old, d)) = Len(new) + (Len(d) - Len(old))
         /\ IsPrefix(new, Below(new, old, d))
         /\ \A i \in 1..Len(new) : Below(new, old, d)[i] = new[i]
         /\ \A i \in 1..Len(d) - Len(old) : Below(new, old, d)[Len(new) + i] = d[Len(old) + i]
<1> DEFINE rest == SubSeq(d, Len(old) + 1, Len(d))
           b == new \o rest
<1>1. /\ new \in Seq(STRING) /\ old \in Seq(STRING) /\ d \in Seq(STRING)
      /\ Len(new) \in Nat \ {0} /\ Len(old) \in Nat /\ Len(d) \in Nat
  BY EmptySeq DEF Path
<1>2. Len(old) <= Len(d)
  BY <1>1, PrefixIs
<1>3. /\ rest \in Seq(STRING) /\ Len(rest) = Len(d) - Len(old)
      /\ \A i \in 1..Len(d) - Len(old) : rest[i] = d[Len(old) + i]
  <2>1. \A i \in Len(old) + 1..Len(d) : d[i] \in STRING
    BY <1>1
  <2>2. /\ Len(d) - (Len(old) + 1) + 1 = Len(d) - Len(old)
        /\ \A i \in 1..Len(d) - Len(old) : (Len(old) + 1) + i - 1 = Len(old) + i
    BY <1>1
  <2>3. /\ rest \in Seq(STRING)
        /\ Len(rest) = IF Len(old) + 1 <= Len(d) THEN Len(d) - (Len(old) + 1) + 1 ELSE 0
        /\ \A i \in 1..Len(d) - (Len(old) + 1) + 1 : rest[i] = d[(Len(old) + 1) + i - 1]
    BY <1>1, <2>1, SubSeqProperties
  <2> HIDE DEF rest
  <2>4. Len(rest) = Len(d) - Len(old)
    BY <1>1, <1>2, <2>3
  <2>5. ASSUME NEW i \in 1..Len(d) - Len(old)
        PROVE  rest[i] = d[Len(old) + i]
    <3>1. i \in 1..Len(d) - (Len(old) + 1) + 1 /\ (Len(old) + 1) + i - 1 = Len(old) + i
      BY <2>2
    <3> QED
      BY <2>3, <3>1
  <2> QED
    BY <2>3, <2>4, <2>5
<1> HIDE DEF rest
<1>4. /\ b \in Seq(STRING) /\ Len(b) = Len(new) + Len(rest)
      /\ \A i \in 1..Len(new) + Len(rest) : b[i] = IF i <= Len(new) THEN new[i] ELSE rest[i - Len(new)]
  BY <1>1, <1>3, ConcatProperties
<1> HIDE DEF b
<1>5. \A i \in 1..Len(new) : b[i] = new[i]
  BY <1>1, <1>2, <1>3, <1>4
<1>6. \A i \in 1..Len(d) - Len(old) : b[Len(new) + i] = d[Len(old) + i]
  <2> SUFFICES ASSUME NEW i \in 1..Len(d) - Len(old)
               PROVE  b[Len(new) + i] = d[Len(old) + i]
    OBVIOUS
  <2>1. /\ Len(new) + i \in 1..Len(new) + Len(rest) /\ ~(Len(new) + i <= Len(new))
        /\ (Len(new) + i) - Len(new) = i
    BY <1>1, <1>2, <1>3
  <2>2. b[Len(new) + i] = rest[i]
    BY <1>4, <2>1
  <2> QED
    BY <1>3, <2>2
<1>7. b # <<>>
  BY <1>1, <1>2, <1>3, <1>4, EmptySeq
<1>8. IsPrefix(new, b)
  BY <1>1, <1>2, <1>3, <1>4, <1>5, PrefixIs
<1> QED
  BY <1>3, <1>4, <1>5, <1>6, <1>7, <1>8 DEF Path, Below, b, rest

(* A beginning of such a name, at least as long as the new one, is the new *)
(* name of a beginning.                                                    *)
LEMMA BelowBegins ==
  ASSUME NEW new \in Path, NEW old \in Path, NEW d \in Path, IsPrefix(old, d),
         NEW n \in Len(new)..Len(Below(new, old, d))
  PROVE  LET m == Len(old) + (n - Len(new)) IN
         /\ m \in 1..Len(d) /\ IsPrefix(old, SubSeq(d, 1, m))
         /\ SubSeq(Below(new, old, d), 1, n) = Below(new, old, SubSeq(d, 1, m))
<1> DEFINE m == Len(old) + (n - Len(new))
           e == Below(new, old, d)
           c == SubSeq(d, 1, m)
           f == Below(new, old, c)
           g == SubSeq(e, 1, n)
<1>1. /\ new \in Seq(STRING) /\ old \in Seq(STRING) /\ d \in Seq(STRING)
      /\ Len(new) \in Nat \ {0} /\ Len(old) \in Nat \ {0} /\ Len(d) \in Nat
  BY EmptySeq DEF Path
<1>2. Len(old) <= Len(d) /\ \A i \in 1..Len(old) : old[i] = d[i]
  BY <1>1, PrefixIs
<1>3. /\ e \in Path /\ Len(e) = Len(new) + (Len(d) - Len(old))
      /\ \A i \in 1..Len(new) : e[i] = new[i]
      /\ \A i \in 1..Len(d) - Len(old) : e[Len(new) + i] = d[Len(old) + i]
  BY BelowIs
<1> HIDE DEF e
<1>4. n \in Len(new)..Len(e)
  BY DEF e
<1>5. m \in Nat /\ Len(old) <= m /\ m <= Len(d) /\ m \in 1..Len(d) /\ n \in 1..Len(e) /\ m - Len(old) = n - Len(new)
  BY <1>1, <1>2, <1>3, <1>4
<1> HIDE DEF m
<1>6. c \in Path /\ Len(c) = m /\ \A i \in 1..m : c[i] = d[i]
  BY <1>1, <1>5, SubSeqIs
<1>7. g \in Path /\ Len(g) = n /\ \A i \in 1..n : g[i] = e[i]
  BY <1>3, <1>5, SubSeqIs DEF Path
<1> HIDE DEF c, g
<1>8. IsPrefix(old, c)
  BY <1>1, <1>2, <1>5, <1>6, PrefixIs DEF Path
<1>9. /\ f \in Path /\ Len(f) = Len(new) + (m - Len(old))
      /\ \A i \in 1..Len(new) : f[i] = new[i]
      /\ \A i \in 1..m - Len(old) : f[Len(new) + i] = c[Len(old) + i]
  BY <1>6, <1>8, BelowIs
<1> HIDE DEF f
<1>10. Len(f) = Len(g)
  BY <1>1, <1>4, <1>5, <1>7, <1>9
<1>11. ASSUME NEW i \in 1..Len(g)
       PROVE  g[i] = f[i]
  <2>1. CASE i <= Len(new)
    <3>1. i \in 1..Len(new) /\ i \in 1..n
      BY <1>1, <1>5, <1>7, <2>1
    <3> QED
      BY <1>3, <1>7, <1>9, <3>1
  <2>2. CASE ~(i <= Len(new))
    <3> DEFINE j == i - Len(new)
    <3>1. j \in 1..m - Len(old) /\ j \in 1..Len(d) - Len(old) /\ i = Len(new) + j /\ Len(old) + j \in 1..m /\ i \in 1..n
      BY <1>1, <1>2, <1>5, <1>7, <2>2
    <3> HIDE DEF j
    <3>2. g[i] = d[Len(old) + j]
      BY <1>3, <1>7, <3>1
    <3>3. f[i] = d[Len(old) + j]
      BY <1>6, <1>9, <3>1
    <3> QED
      BY <3>2, <3>3
  <2> QED
    BY <2>1, <2>2
<1>12. g = f
  BY <1>7, <1>9, <1>10, <1>11, SeqEqual DEF Path
<1> QED
  BY <1>5, <1>8, <1>12 DEF c, e, f, g, m

(* Renaming a unit that is not guarded and holds no guarded one, to a name *)
(* outside of guarded units.                                               *)
LEMMA RenameStep ==
  ASSUME Rooted(Dns), NEW old \in Dns, NEW new \in Path, ~GuardRename(old, new),
         new \notin Dns, Front(new) \in Dns, ~IsPrefix(old, new),
         tree' = [dn \in (Dns \ Carried(old)) \cup {Below(new, old, d) : d \in Carried(old)}
                    |-> tree[Renamed(dn, old, new)]]
  PROVE  Rooted(Dns') /\ Untouched
<1> DEFINE Stay == Dns \ Carried(old)
           Move == {Below(new, old, d) : d \in Carried(old)}
<1>1. old \in Path /\ \A d \in Dns : d \in Path
  BY DEF Rooted
<1>2. Dns' = Stay \cup Move /\ \A dn \in Dns' : tree'[dn] = tree[Renamed(dn, old, new)]
  BY DEF Dns
<1>3. \A d \in Dns : d \in Carried(old) <=> IsPrefix(old, d)
  BY DEF Carried, Under
<1>4. Carried(old) \subseteq Dns
  BY DEF Carried, Under
<1> HIDE DEF Stay
<1>5. ASSUME NEW p \in Path, NEW d \in Dns, IsPrefix(p, d), ~IsPrefix(old, d)
      PROVE  p \in Stay
  <2>1. p \in Dns
    BY <1>5, RootedUp
  <2>2. ~IsPrefix(old, p)
    BY <1>1, <1>5, PrefixOrder
  <2> QED
    BY <1>3, <2>1, <2>2 DEF Stay
<1>6. ASSUME NEW dn \in Stay, NEW n \in 1..Len(dn)
      PROVE  SubSeq(dn, 1, n) \in Stay
  <2>1. dn \in Dns /\ dn \in Path /\ ~IsPrefix(old, dn)
    BY <1>1, <1>3 DEF Stay
  <2>2. SubSeq(dn, 1, n) \in Path /\ IsPrefix(SubSeq(dn, 1, n), dn)
    BY <2>1, SubSeqIs DEF Path
  <2> QED
    BY <1>5, <2>1, <2>2
<1>7. ASSUME NEW d \in Carried(old), NEW n \in 1..Len(Below(new, old, d))
      PROVE  SubSeq(Below(new, old, d), 1, n) \in Stay \cup Move
  <2> DEFINE e == Below(new, old, d)
             p == SubSeq(e, 1, n)
  <2>1. d \in Dns /\ d \in Path /\ IsPrefix(old, d)
    BY <1>1, <1>3, <1>4
  <2>2. e \in Path /\ \A i \in 1..Len(new) : e[i] = new[i]
    BY <1>1, <2>1, BelowIs
  <2>3. Len(new) \in Nat \ {0} /\ new \in Seq(STRING)
    BY EmptySeq DEF Path
  <2>4. CASE n < Len(new)
    <3> DEFINE front == Front(new)
    <3>1. Len(new) - 1 \in 1..Len(new) /\ n \in 1..Len(new) - 1
      BY <2>3, <2>4
    <3>2. front \in Path /\ Len(front) = Len(new) - 1 /\ (\A i \in 1..Len(new) - 1 : front[i] = new[i]) /\ IsPrefix(front, new)
      BY <2>3, <3>1, SubSeqIs DEF Front
    <3> HIDE DEF front
    <3>3. p \in Path /\ Len(p) = n /\ \A i \in 1..n : p[i] = e[i]
      BY <2>2, SubSeqIs DEF Path
    <3> HIDE DEF e, p
    <3>4. \A i \in 1..n : i \in 1..Len(new) /\ i \in 1..Len(new) - 1
      BY <2>3, <3>1
    <3>5. \A i \in 1..Len(p) : p[i] = front[i]
      BY <2>2, <3>2, <3>3, <3>4
    <3>6. IsPrefix(p, front)
      <4>1. Len(p) <= Len(front)
        BY <2>3, <3>1, <3>2, <3>3
      <4> QED
        BY <3>2, <3>3, <3>5, <4>1, PrefixIs DEF Path
    <3>7. ~IsPrefix(old, front)
      BY <1>1, <3>2, PrefixOrder
    <3>8. front \in Dns
      BY DEF front
    <3>9. p \in Stay
      BY <1>5, <3>3, <3>6, <3>7, <3>8
    <3> QED
      BY <3>9 DEF e, p
  <2>5. CASE ~(n < Len(new))
    <3> DEFINE m == Len(old) + (n - Len(new))
               c == SubSeq(d, 1, m)
    <3>1. n \in Len(new)..Len(e)
      BY <2>3, <2>5
    <3>2. m \in 1..Len(d) /\ IsPrefix(old, c) /\ p = Below(new, old, c)
      BY <1>1, <2>1, <3>1, BelowBegins
    <3>3. c \in Dns
      BY <2>1, <3>2 DEF Rooted
    <3>4. c \in Carried(old)
      BY <1>3, <3>2, <3>3
    <3> QED
      BY <3>2, <3>4
  <2> QED
    BY <2>4, <2>5
<1>8. \A e \in Move : e \in Path /\ IsPrefix(new, e)
  <2> SUFFICES ASSUME NEW d \in Carried(old)
               PROVE  Below(new, old, d) \in Path /\ IsPrefix(new, Below(new, old, d))
    OBVIOUS
  <2>1. d \in Path /\ IsPrefix(old, d)
    BY <1>1, <1>3, <1>4
  <2> QED
    BY <1>1, <2>1, BelowIs
<1>9. Rooted(Dns')
  <2>1. ASSUME NEW e \in Move, NEW n \in 1..Len(e)
        PROVE  SubSeq(e, 1, n) \in Stay \cup Move
    BY <1>7
  <2>2. Stay \subseteq Dns
    BY DEF Stay
  <2> HIDE DEF Move
  <2> QED
    BY <1>1, <1>2, <1>6, <1>8, <2>1, <2>2 DEF Rooted
<1> HIDE DEF Move
<1>10. ASSUME NEW ou \in Guarded \cap Dns
       PROVE  ou \in Path /\ ~IsPrefix(ou, old) /\ ~IsPrefix(ou, new) /\ ~IsPrefix(old, ou) /\ ~IsPrefix(new, ou)
  <2>1. ou \in Path /\ ~IsPrefix(ou, old) /\ ~IsPrefix(ou, new)
    BY <1>1 DEF GuardRename, ProtectingOu
  <2>2. ~IsPrefix(old, ou)
    BY <2>1 DEF GuardRename, ProtectedBelow, IsStrictPrefix
  <2>3. ~IsPrefix(new, ou)
    BY RootedUp
  <2> QED
    BY <2>1, <2>2, <2>3
<1>11. ASSUME NEW ou \in Guarded \cap Dns, NEW d \in Under(ou)
       PROVE  d \in Stay /\ Renamed(d, old, new) = d
  <2>1. d \in Dns /\ d \in Path /\ IsPrefix(ou, d)
    BY <1>1 DEF Under
  <2>2. ~IsPrefix(old, d) /\ ~IsPrefix(new, d)
    BY <1>1, <1>10, <2>1, PrefixesMeet
  <2> QED
    BY <1>3, <2>1, <2>2 DEF Stay, Renamed
<1>12. ASSUME NEW ou \in Guarded \cap Dns, NEW e \in Dns', IsPrefix(ou, e)
       PROVE  e \in Dns
  <2>1. e \notin Move
    BY <1>8, <1>10, <1>12, PrefixesMeet
  <2> QED
    BY <1>2, <2>1 DEF Stay
<1>13. ASSUME NEW ou \in Guarded \cap Dns
       PROVE  ou \in Dns' /\ Under(ou)' = Under(ou) /\ \A dn \in Under(ou) : tree'[dn] = tree[dn]
  <2>1. ou \in Stay
    BY <1>3, <1>10 DEF Stay
  <2>2. \A dn \in Under(ou) : dn \in Dns' /\ tree'[dn] = tree[dn]
    BY <1>2, <1>11
  <2>3. Under(ou)' = Under(ou)
    BY <1>12, <2>2 DEF Under
  <2> QED
    BY <1>2, <2>1, <2>2, <2>3
<1>14. Untouched
  BY <1>13 DEF Untouched
<1> QED
  BY <1>9, <1>14

(***************************************************************************)
(* The steps                                                               *)
(***************************************************************************)
(* The requests that read, and a request that fails, leave the tree.       *)
LEMMA ReadStep ==
  ASSUME TInv, NEW a \in TAdmin,
         Parent(a) \/ Free(a) \/ Unprotected(a) \/ Empty(a) \/ EntryRead(a) \/ AclRead(a) \/ TLost(a)
  PROVE  OpsInv' /\ tree' = tree
<1>1. OpsInv
  BY DEF TInv
<1>2. \A step : AtStep(a, step) => IsOperation(working[a])
  BY <1>1 DEF OpsInv, AtStep
<1>3. CASE Parent(a)
  BY <1>1, <1>2, <1>3, TreeReadyKeeps, TreeStopKeeps DEF Parent, IfElse
<1>4. CASE Free(a)
  BY <1>1, <1>2, <1>4, TreeReadyKeeps, TreeStopKeeps DEF Free, IfElse
<1>5. CASE Unprotected(a)
  <2>1. ASSUME NEW acl, IsOperation(working[a])
        PROVE  IsOperation([working[a] EXCEPT !.acl = acl])
    BY <2>1 DEF IsOperation
  <2> QED
    BY <1>1, <1>2, <1>5, <2>1, TreeReadyKeeps, TreeStopKeeps DEF Unprotected, IfElse
<1>6. CASE Empty(a)
  BY <1>1, <1>2, <1>6, TreeReadyKeeps, TreeStopKeeps DEF Empty, IfElse
<1>7. CASE EntryRead(a)
  BY <1>1, <1>2, <1>7, TreeReadyKeeps, TreeStopKeeps DEF EntryRead, IfElse
<1>8. CASE AclRead(a)
  <2>1. ASSUME NEW acl, NEW next, IsOperation(working[a])
        PROVE  IsOperation([working[a] EXCEPT !.acl = acl, !.next = next])
    BY <2>1 DEF IsOperation
  <2> QED
    BY <1>1, <1>2, <1>8, <2>1, TreeReadyKeeps, TreeStopKeeps DEF AclRead
<1>9. CASE TLost(a)
  <2>1. IsOperation(working[a])
    BY <1>1, <1>9 DEF OpsInv, TLost
  <2> QED
    BY <1>1, <1>9, <2>1, TreeReadyKeeps, TreeStopKeeps DEF TLost
<1> QED
  BY <1>3, <1>4, <1>5, <1>6, <1>7, <1>8, <1>9

(* The requests that write keep the invariant and what is guarded.         *)
LEMMA WriteStep ==
  ASSUME TInv, NEW a \in TAdmin,
         TAdd(a) \/ Text(a) \/ TDelete(a) \/ Rename(a) \/ AclWrite(a)
  PROVE  TInv' /\ Untouched
<1> DEFINE op == working[a]
<1>1. OpsInv /\ Rooted(Dns)
  BY DEF TInv
<1>2. IsOperation(op)
  BY <1>1 DEF OpsInv, TAdd, Text, TDelete, Rename, AclWrite, AtStep
<1>3. op.dn \in Path /\ op.to \in Path /\ op.recursive \in BOOLEAN
  BY <1>2 DEF IsOperation
<1>4. /\ Ready(a, op) => OpsInv'
      /\ \A why : Stop(a, why) => OpsInv'
  BY <1>1, <1>2, TreeReadyKeeps, TreeStopKeeps
<1>5. tree' = tree => Rooted(Dns') /\ Untouched
  BY <1>1 DEF Untouched, Under, Dns
<1>6. CASE TAdd(a)
  <2>1. Ready(a, [op EXCEPT !.added = TRUE]) => OpsInv'
    <3>1. IsOperation([op EXCEPT !.added = TRUE])
      BY <1>2 DEF IsOperation
    <3> QED
      BY <1>1, <3>1, TreeReadyKeeps
  <2>2. CASE tree' = tree
    BY <1>4, <1>5, <1>6, <2>1, <2>2 DEF TAdd, TInv
  <2>3. CASE tree' # tree
    <3>1. /\ ~ProtectingOu(op.dn) /\ op.dn \notin Dns /\ Front(op.dn) \in Dns
          /\ tree' = Extended([dn \in {op.dn} |-> New(op)], tree) /\ OpsInv'
      BY <1>6, <2>1, <2>3 DEF TAdd
    <3>2. Rooted(Dns') /\ Untouched
      BY <1>1, <1>3, <3>1, AddStep
    <3> QED
      BY <3>1, <3>2 DEF TInv
  <2> QED
    BY <2>2, <2>3
<1>7. CASE Text(a)
  <2>1. OpsInv'
    BY <1>4, <1>7 DEF Text
  <2>2. CASE tree' = tree
    BY <1>5, <2>1, <2>2 DEF TInv
  <2>3. CASE tree' # tree
    <3>1. ~ProtectingOu(op.dn) /\ tree' = [tree EXCEPT ![op.dn].text = op.value]
      BY <1>7, <2>3 DEF Text
    <3>2. DOMAIN tree' = Dns /\ \A d \in Dns \ {op.dn} : tree'[d] = tree[d]
      BY <3>1 DEF Dns
    <3> QED
      BY <1>1, <2>1, <3>1, <3>2, EntryStep DEF TInv, Dns
  <2> QED
    BY <2>2, <2>3
<1>8. CASE TDelete(a)
  <2>1. OpsInv'
    BY <1>4, <1>8 DEF TDelete
  <2>2. CASE tree' = tree
    BY <1>5, <2>1, <2>2 DEF TInv
  <2>3. CASE tree' # tree
    <3>1. /\ ~GuardDelete(op.dn, op.recursive) /\ op.dn \in Dns /\ (op.recursive \/ Children(op.dn) = {})
          /\ tree' = Restrict(tree, Dns \ Under(op.dn))
      BY <1>8, <2>3 DEF TDelete
    <3> QED
      BY <1>1, <1>3, <2>1, <3>1, DeleteStep DEF TInv
  <2> QED
    BY <2>2, <2>3
<1>9. CASE Rename(a)
  <2> DEFINE old == op.dn
             new == NewName(op)
  <2>1. OpsInv'
    BY <1>4, <1>9 DEF Rename
  <2>2. new \in Path
    <3>1. old \in Seq(STRING) /\ op.to \in Seq(STRING) /\ Len(old) \in 1..Len(old)
      BY <1>3, EmptySeq DEF Path
    <3>2. Last(old) \in STRING
      BY <3>1 DEF Last
    <3>3. Append(op.to, Last(old)) \in Path
      BY <3>1, <3>2, AppendProperties DEF Path
    <3> QED
      BY <1>3, <3>3 DEF NewName
  <2>3. CASE tree' = tree
    BY <1>5, <2>1, <2>3 DEF TInv
  <2>4. CASE tree' # tree
    <3> HIDE DEF new
    <3>1. /\ ~GuardRename(old, new) /\ old \in Dns /\ new \notin Dns /\ Front(new) \in Dns /\ ~IsPrefix(old, new)
          /\ tree' = [dn \in (Dns \ Carried(old)) \cup {Below(new, old, d) : d \in Carried(old)}
                        |-> tree[Renamed(dn, old, new)]]
      BY <1>9, <2>4 DEF Rename, new
    <3>2. Rooted(Dns') /\ Untouched
      BY <1>1, <2>2, <3>1, RenameStep
    <3> QED
      BY <2>1, <3>2 DEF TInv
  <2> QED
    BY <2>3, <2>4
<1>10. CASE AclWrite(a)
  <2>1. Ready(a, [op EXCEPT !.given = @ + 1]) => OpsInv'
    <3>1. IsOperation([op EXCEPT !.given = @ + 1])
      BY <1>2 DEF IsOperation
    <3> QED
      BY <1>1, <3>1, TreeReadyKeeps
  <2>2. OpsInv'
    BY <1>4, <1>10, <2>1 DEF AclWrite
  <2>3. CASE tree' = tree
    BY <1>5, <2>2, <2>3 DEF TInv
  <2>4. CASE tree' # tree
    <3>1. ~ProtectingOu(op.dn) /\ tree' = [tree EXCEPT ![op.dn].acl = op.next]
      BY <1>10, <2>4 DEF AclWrite
    <3>2. DOMAIN tree' = Dns /\ \A d \in Dns \ {op.dn} : tree'[d] = tree[d]
      BY <3>1 DEF Dns
    <3> QED
      BY <1>1, <2>2, <3>1, <3>2, EntryStep DEF TInv, Dns
  <2> QED
    BY <2>3, <2>4
<1> QED
  BY <1>6, <1>7, <1>8, <1>9, <1>10

(* Every step keeps the invariant and what is guarded.                     *)
LEMMA TreeNextKeeps ==
  ASSUME TInv, [TreeNext]_treeVars
  PROVE  TInv' /\ Untouched
<1>1. ASSUME OpsInv', tree' = tree
      PROVE  TInv' /\ Untouched
  BY <1>1 DEF TInv, Rooted, Untouched, Under, Dns
<1>2. CASE UNCHANGED treeVars
  <2>1. OpsInv'
    BY <1>2 DEF TInv, OpsInv, Working, treeVars
  <2> QED
    BY <1>1, <1>2, <2>1 DEF treeVars
<1>3. ASSUME NEW a \in TAdmin, TreeStep(a)
      PROVE  TInv' /\ Untouched
  <2>1. CASE TBegin(a)
    <3>1. OpsInv'
      BY <2>1, TreeBeginKeeps DEF TInv
    <3> QED
      BY <1>1, <2>1, <3>1 DEF TBegin
  <2>2. CASE Parent(a) \/ Free(a) \/ Unprotected(a) \/ Empty(a) \/ EntryRead(a) \/ AclRead(a) \/ TLost(a)
    BY <1>1, <2>2, ReadStep
  <2>3. CASE TAdd(a) \/ Text(a) \/ TDelete(a) \/ Rename(a) \/ AclWrite(a)
    BY <2>3, WriteStep
  <2> QED
    BY <1>3, <2>1, <2>2, <2>3 DEF TreeStep
<1> QED
  BY <1>2, <1>3 DEF TreeNext

(* The tree stays a tree: every name's parents exist, and every operation  *)
(* is about names.                                                         *)
THEOREM TreeInvariant == TreeSpec => []TInv
<1>1. TreeInit => TInv
  BY TreeConstants DEF TreeInit, TInv, OpsInv, Working, Idle, Dns
<1>2. TInv /\ [TreeNext]_treeVars => TInv'
  BY TreeNextKeeps
<1> QED
  BY <1>1, <1>2, PTL DEF TreeSpec

(* Nothing at or below a configured unit is touched, whatever any number   *)
(* of sessions ask for and whichever calls fail (DirectoryConnection,      *)
(* write_guard.py).                                                        *)
THEOREM GuardKeptHolds == TreeSpec => GuardKept
<1>1. TInv /\ [TreeNext]_treeVars => [Untouched]_treeVars
  BY TreeNextKeeps
<1> QED
  BY <1>1, TreeInvariant, PTL DEF TreeSpec, GuardKept

---------------------------------------------------------------------------
(* Tree: access lists                                                      *)
Sound(acl) == acl \in Seq(TAce) /\ InOrder(acl) /\ SaysOnce(acl)

(* The entries of w are those of acl, in its order, e telling where each   *)
(* of them stood.                                                          *)
Selects(e, w, acl) ==
  /\ e \in [1..Len(w) -> 1..Len(acl)]
  /\ \A k \in 1..Len(w) : w[k] = acl[e[k]]
  /\ \A k, l \in 1..Len(w) : k < l => e[k] < e[l]

LEMMA SelectedSound ==
  ASSUME NEW acl, Sound(acl), NEW w \in Seq(TAce), NEW e, Selects(e, w, acl)
  PROVE  Sound(w)
<1>1. Len(w) \in Nat /\ Len(acl) \in Nat /\ DOMAIN w = 1..Len(w) /\ DOMAIN acl = 1..Len(acl)
  BY DEF Sound
<1>2. \A k \in 1..Len(w) : e[k] \in 1..Len(acl) /\ w[k] = acl[e[k]]
  BY DEF Selects
<1>3. ASSUME NEW k \in 1..Len(w), NEW l \in 1..Len(w), e[k] < e[l] \/ e[k] = e[l], ~(k < l), k # l
      PROVE  FALSE
  <2>1. l < k
    BY <1>1, <1>3
  <2>2. e[l] < e[k]
    BY <2>1 DEF Selects
  <2> QED
    BY <1>2, <1>3, <2>2
<1>4. InOrder(w)
  <2> SUFFICES ASSUME NEW i \in 1..Len(w), NEW j \in 1..Len(w), w[i] \in Allow, w[j] \in Deny PROVE j < i
    BY <1>1 DEF InOrder
  <2>1. e[j] < e[i]
    BY <1>1, <1>2 DEF Sound, InOrder
  <2>2. i # j
    BY DEF Allow, Deny
  <2> QED
    BY <1>3, <2>1, <2>2
<1>5. SaysOnce(w)
  <2> SUFFICES ASSUME NEW i \in 1..Len(w), NEW j \in 1..Len(w), w[i] = w[j], w[i] \in Deny \cup Allow PROVE i = j
    BY <1>1 DEF SaysOnce
  <2>1. e[i] = e[j]
    BY <1>1, <1>2 DEF Sound, SaysOnce
  <2>2. ~(i < j) /\ ~(j < i)
    BY <1>2, <2>1 DEF Selects
  <2> QED
    BY <1>1, <2>2
<1> QED
  BY <1>4, <1>5 DEF Sound

(* r is s with ace at k.                                                   *)
Inserted(r, s, k, ace) ==
  /\ r \in Seq(TAce) /\ Len(r) = Len(s) + 1 /\ k \in 1..Len(s) + 1
  /\ \A j \in 1..Len(s) + 1 : r[j] = IF j < k THEN s[j] ELSE IF j = k THEN ace ELSE s[j - 1]

LEMMA InsertedSound ==
  ASSUME NEW s, Sound(s), NEW ace \in TAce, NEW r, NEW k, Inserted(r, s, k, ace),
         \A i \in 1..Len(s) : s[i] # ace,
         ace \in Deny => \A i \in 1..Len(s) : s[i] \in Allow => k <= i,
         ace \in Allow => \A i \in 1..Len(s) : s[i] \in Deny => i < k
  PROVE  Sound(r)
<1>1. /\ Len(s) \in Nat /\ DOMAIN s = 1..Len(s) /\ Len(r) = Len(s) + 1 /\ DOMAIN r = 1..Len(r) /\ r \in Seq(TAce)
      /\ k \in 1..Len(s) + 1
  BY DEF Sound, Inserted
<1>2. ASSUME NEW j \in 1..Len(r)
      PROVE  \/ j < k /\ j \in 1..Len(s) /\ r[j] = s[j]
             \/ j = k /\ r[j] = ace
             \/ j > k /\ j - 1 \in 1..Len(s) /\ r[j] = s[j - 1]
  <2>1. CASE j < k
    BY <1>1, <2>1 DEF Inserted
  <2>2. CASE j = k
    BY <1>1, <2>2 DEF Inserted
  <2>3. CASE j > k
    BY <1>1, <2>3 DEF Inserted
  <2> QED
    BY <1>1, <2>1, <2>2, <2>3
<1>3. InOrder(r)
  <2> SUFFICES ASSUME NEW i \in 1..Len(r), NEW j \in 1..Len(r), r[i] \in Allow, r[j] \in Deny PROVE j < i
    BY <1>1 DEF InOrder
  <2>1. \A x, y \in 1..Len(s) : s[x] \in Allow /\ s[y] \in Deny => y < x
    BY <1>1 DEF Sound, InOrder
  <2>2. ~(ace \in Allow /\ ace \in Deny)
    BY DEF Allow, Deny
  <2>3. CASE i = k
    BY <1>1, <1>2, <2>2, <2>3
  <2>4. CASE j = k
    BY <1>1, <1>2, <2>2, <2>4
  <2>5. CASE i # k /\ j # k
    BY <1>1, <1>2, <2>1, <2>5
  <2> QED
    BY <2>3, <2>4, <2>5
<1>4. SaysOnce(r)
  <2> SUFFICES ASSUME NEW i \in 1..Len(r), NEW j \in 1..Len(r), r[i] = r[j], r[i] \in Deny \cup Allow PROVE i = j
    BY <1>1 DEF SaysOnce
  <2>1. \A x, y \in 1..Len(s) : s[x] = s[y] /\ s[x] \in Deny \cup Allow => x = y
    BY <1>1 DEF Sound, SaysOnce
  <2>2. CASE i = k \/ j = k
    BY <1>1, <1>2, <2>2
  <2>3. CASE i # k /\ j # k
    BY <1>1, <1>2, <2>1, <2>3
  <2> QED
    BY <2>2, <2>3
<1> QED
  BY <1>1, <1>3, <1>4 DEF Sound

LEMMA AppendInserted ==
  ASSUME NEW s \in Seq(TAce), NEW ace \in TAce
  PROVE  Inserted(Append(s, ace), s, Len(s) + 1, ace)
<1>1. PICK r : r = Append(s, ace)
  OBVIOUS
<1>2. /\ r \in Seq(TAce) /\ Len(r) = Len(s) + 1 /\ Len(s) \in Nat
      /\ \A i \in 1..Len(s) : r[i] = s[i]
      /\ r[Len(s) + 1] = ace
  BY <1>1, AppendProperties
<1> QED
  BY <1>1, <1>2 DEF Inserted

LEMMA InsertInserted ==
  ASSUME NEW s \in Seq(TAce), NEW ace \in TAce, NEW k \in 1..Len(s) + 1
  PROVE  Inserted(InsertAt(s, k, ace), s, k, ace)
<1> DEFINE r == InsertAt(s, k, ace)
<1>1. /\ r \in Seq(TAce) /\ Len(r) = Len(s) + 1
      /\ \A j \in 1..Len(s) + 1 : r[j] = IF j < k THEN s[j] ELSE IF j = k THEN ace ELSE s[j - 1]
  BY InsertAtIs
<1> HIDE DEF r
<1>2. Inserted(r, s, k, ace)
  BY <1>1 DEF Inserted
<1> QED
  BY <1>2 DEF r

(* Where an entry is placed, in a list that does not have it.              *)
LEMMA PlaceIs ==
  ASSUME NEW s, Sound(s), NEW ace \in TAce, \A i \in 1..Len(s) : s[i] # ace
  PROVE  Sound(Place(s, ace)) /\ \E k : Inserted(Place(s, ace), s, k, ace)
<1>1. s \in Seq(TAce) /\ Len(s) \in Nat /\ DOMAIN s = 1..Len(s)
  BY DEF Sound
<1>2. PICK allows : allows = {i \in DOMAIN s : s[i] \in Allow \cup {"inherited allow"}}
  OBVIOUS
<1>3. PICK r : r = Place(s, ace)
  OBVIOUS
<1> DEFINE Allows(i) == s[i] \in Allow \cup {"inherited allow"}
<1> HIDE DEF Allows
<1>4. \A i : i \in allows <=> i \in DOMAIN s /\ Allows(i)
  BY <1>2 DEF Allows
<1>5. \A i : i \in allows <=> i \in 1..Len(s) /\ Allows(i)
  BY <1>1, <1>4
<1>6. \A i \in 1..Len(s) : s[i] \in Allow => i \in allows
  BY <1>5 DEF Allows
<1>7. CASE ace \in Deny /\ allows # {}
  <2>1. PICK first : first = CHOOSE i \in allows : \A j \in allows : i <= j
    OBVIOUS
  <2>2. allows \subseteq Nat
    BY <1>1, <1>5
  <2>3. first \in allows /\ \A j \in allows : first <= j
    <3>1. \E d \in allows : \A e \in allows : d <= e
      BY <1>7, <2>2, Least
    <3> QED
      BY <2>1, <3>1
  <2>4. r = InsertAt(s, first, ace)
    BY <1>2, <1>3, <1>7, <2>1 DEF Place
  <2>5. first \in 1..Len(s) /\ first \in 1..Len(s) + 1
    BY <1>1, <1>5, <2>3
  <2>6. Inserted(r, s, first, ace)
    BY <1>1, <2>4, <2>5, InsertInserted
  <2>7. \A i \in 1..Len(s) : s[i] \in Allow => first <= i
    BY <1>6, <2>3
  <2>8. ace \notin Allow
    BY <1>7 DEF Deny, Allow
  <2>9. Sound(r)
    BY <2>6, <2>7, <2>8, InsertedSound
  <2> QED
    BY <1>3, <2>6, <2>9
<1>8. CASE ~(ace \in Deny /\ allows # {})
  <2>1. r = Append(s, ace)
    BY <1>2, <1>3, <1>8 DEF Place
  <2>2. Inserted(r, s, Len(s) + 1, ace)
    BY <1>1, <2>1, AppendInserted
  <2>3. ace \in Deny => \A i \in 1..Len(s) : s[i] \notin Allow
    BY <1>6, <1>8
  <2>4. \A i \in 1..Len(s) : i < Len(s) + 1
    BY <1>1
  <2>5. Sound(r)
    BY <2>2, <2>3, <2>4, InsertedSound
  <2> QED
    BY <1>3, <2>2, <2>5
<1> QED
  BY <1>7, <1>8

(* What is left of a list, e telling where each entry stood.               *)
Leaves(e, w, acl, remove) ==
  /\ w \in Seq(TAce) /\ Selects(e, w, acl)
  /\ \A k \in 1..Len(w) : e[k] \notin remove
  /\ \A i \in 1..Len(acl) : i \notin remove => \E k \in 1..Len(w) : e[k] = i

LEMMA WithoutLeaves ==
  ASSUME NEW acl \in Seq(TAce), NEW remove
  PROVE  \E e : Leaves(e, Without(acl, remove), acl, remove)
<1>1. PICK n \in Nat : n = Len(acl) /\ DOMAIN acl = 1..n
  OBVIOUS
<1>2. PICK pairs : pairs = [i \in DOMAIN acl |-> <<i, acl[i]>>]
  OBVIOUS
<1> DEFINE Pairs == (1..n) \X TAce
<1>3. pairs \in Seq(Pairs) /\ Len(pairs) = n /\ \A i \in 1..n : pairs[i] = <<i, acl[i]>>
  <2>1. \A i \in 1..n : acl[i] \in TAce /\ <<i, acl[i]>> \in Pairs
    BY <1>1
  <2>2. pairs \in [1..n -> Pairs] /\ \A i \in 1..n : pairs[i] = <<i, acl[i]>>
    BY <1>1, <1>2, <2>1
  <2> QED
    BY <2>2
<1>4. PICK stay : stay = {<<i, acl[i]>> : i \in DOMAIN acl \ remove}
  OBVIOUS
<1>5. PICK kept : kept = Kept(acl, remove)
  OBVIOUS
<1>6. kept = Those(pairs, stay)
  BY <1>2, <1>4, <1>5 DEF Kept
<1>7. kept \in Seq(Pairs) /\ Filtered(kept, pairs, stay, n)
  <2> HIDE DEF Pairs
  <2> QED
    BY <1>3, <1>6, ThoseFiltered
<1>8. PICK m \in Nat : m = Len(kept) /\ DOMAIN kept = 1..m
  BY <1>7
<1>9. PICK w : w = Without(acl, remove)
  OBVIOUS
<1>10. w = [i \in 1..m |-> kept[i][2]]
  BY <1>5, <1>8, <1>9 DEF Without
<1>11. PICK e : e = [i \in 1..m |-> kept[i][1]]
  OBVIOUS
<1>12. ASSUME NEW k \in 1..m
       PROVE  \E i \in 1..n : i \notin remove /\ kept[k] = <<i, acl[i]>>
  BY <1>1, <1>4, <1>7, <1>8 DEF Filtered
<1>13. ASSUME NEW k \in 1..m
       PROVE  e[k] \in 1..n /\ e[k] \notin remove /\ w[k] = acl[e[k]]
  BY <1>10, <1>11, <1>12
<1>14. \A i \in 1..n : acl[i] \in TAce
  BY <1>1
<1>15. w \in Seq(TAce) /\ Len(w) = m
  <2>1. w \in [1..m -> TAce]
    BY <1>10, <1>13, <1>14
  <2> QED
    BY ONLY <2>1, m \in Nat
<1>16. ASSUME NEW k \in 1..m, NEW l \in 1..m, k < l
       PROVE  e[k] < e[l]
  <2>1. PICK p \in 1..n, q \in 1..n : p < q /\ pairs[p] = kept[k] /\ pairs[q] = kept[l]
    BY <1>7, <1>8, <1>16 DEF Filtered
  <2>2. e[k] = p /\ e[l] = q
    BY <1>3, <1>11, <2>1
  <2> QED
    BY <2>1, <2>2
<1>17. ASSUME NEW i \in 1..n, i \notin remove
       PROVE  \E k \in 1..m : e[k] = i
  <2>1. pairs[i] \in stay
    BY <1>1, <1>3, <1>4, <1>17
  <2>2. \E k \in 1..Len(kept) : kept[k] = pairs[i]
    BY <1>7, <2>1, Zenon DEF Filtered
  <2>3. PICK k \in 1..m : kept[k] = pairs[i]
    BY <1>8, <2>2
  <2>4. e[k] = i
    <3>1. kept[k] = <<i, acl[i]>>
      BY <1>3, <2>3
    <3>2. e[k] = kept[k][1]
      BY <1>11
    <3> QED
      BY <3>1, <3>2
  <2> QED
    BY <2>4
<1>18. e \in [1..m -> 1..n]
  BY <1>11, <1>13
<1>19. Selects(e, w, acl)
  BY <1>1, <1>13, <1>15, <1>16, <1>18 DEF Selects
<1>20. Leaves(e, w, acl, remove)
  BY <1>1, <1>13, <1>15, <1>17, <1>19 DEF Leaves
<1> QED
  BY <1>9, <1>20

(* A list filtered.                                                        *)
LEMMA FilteredSound ==
  ASSUME NEW acl, Sound(acl), NEW S, NEW r \in Seq(TAce), Filtered(r, acl, S, Len(acl))
  PROVE  Sound(r)
<1>1. /\ Len(acl) \in Nat /\ DOMAIN acl = 1..Len(acl) /\ Len(r) \in Nat /\ DOMAIN r = 1..Len(r)
      /\ InOrder(acl) /\ SaysOnce(acl)
  BY DEF Sound
<1>2. \A j, k \in 1..Len(r) : j < k => \E p, q \in 1..Len(acl) : p < q /\ acl[p] = r[j] /\ acl[q] = r[k]
  BY DEF Filtered
<1>3. InOrder(r)
  <2> SUFFICES ASSUME NEW i \in 1..Len(r), NEW j \in 1..Len(r), r[i] \in Allow, r[j] \in Deny, ~(j < i) PROVE FALSE
    BY <1>1 DEF InOrder
  <2>1. i # j
    BY DEF Allow, Deny
  <2>2. i < j
    BY <1>1, <2>1
  <2>3. PICK p \in 1..Len(acl), q \in 1..Len(acl) : p < q /\ acl[p] = r[i] /\ acl[q] = r[j]
    BY <1>2, <2>2
  <2>4. q < p
    BY <1>1, <2>3 DEF InOrder
  <2> QED
    BY <1>1, <2>3, <2>4
<1>4. SaysOnce(r)
  <2>1. ASSUME NEW i \in 1..Len(r), NEW j \in 1..Len(r), r[i] = r[j], r[i] \in Deny \cup Allow, i < j
        PROVE  FALSE
    <3>1. PICK p \in 1..Len(acl), q \in 1..Len(acl) : p < q /\ acl[p] = r[i] /\ acl[q] = r[j]
      BY <1>2, <2>1
    <3>2. p = q
      BY <1>1, <2>1, <3>1 DEF SaysOnce
    <3> QED
      BY <1>1, <3>1, <3>2
  <2> SUFFICES ASSUME NEW i \in 1..Len(r), NEW j \in 1..Len(r), r[i] = r[j], r[i] \in Deny \cup Allow PROVE i = j
    BY <1>1 DEF SaysOnce
  <2>2. ~(i < j) /\ ~(j < i)
    BY <2>1
  <2> QED
    BY <1>1, <2>2
<1> QED
  BY <1>3, <1>4 DEF Sound

(* Setting and lifting the protection.                                     *)
LEMMA SetProtectionSound ==
  ASSUME NEW acl, Sound(acl), NEW protect \in BOOLEAN
  PROVE  Sound(SetProtection(acl, protect))
<1>1. acl \in Seq(TAce) /\ Len(acl) \in Nat /\ DOMAIN acl = 1..Len(acl)
  BY DEF Sound
<1>2. CASE IsDeleteProtected(acl) = protect
  BY <1>2 DEF SetProtection
<1>3. CASE IsDeleteProtected(acl) # protect /\ protect
  <2>1. PICK r : r = <<"protect">> \o acl
    OBVIOUS
  <2>2. SetProtection(acl, protect) = r
    BY <1>3, <2>1 DEF SetProtection
  <2>3. \A i \in 1..Len(acl) : acl[i] # "protect"
    BY <1>1, <1>3 DEF IsDeleteProtected, ToSet
  <2>4. "protect" \in TAce /\ "protect" \in Deny /\ "protect" \notin Allow
    BY DEF TAce, Deny, Allow
  <2>5. PICK one : one = <<"protect">>
    OBVIOUS
  <2>6. one \in Seq(TAce) /\ Len(one) = 1 /\ one[1] = "protect"
    BY <2>4, <2>5
  <2>7. /\ r \in Seq(TAce) /\ Len(r) = 1 + Len(acl)
        /\ \A i \in 1..1 + Len(acl) : r[i] = IF i <= 1 THEN one[i] ELSE acl[i - 1]
    BY ONLY <1>1, <2>1, <2>5, <2>6, ConcatProperties
  <2>8. Inserted(r, acl, 1, "protect")
    BY <1>1, <2>6, <2>7 DEF Inserted
  <2>9. \A i \in 1..Len(acl) : 1 <= i
    BY <1>1
  <2>10. Sound(r)
    BY <2>3, <2>4, <2>8, <2>9, InsertedSound
  <2> QED
    BY <2>2, <2>10
<1>4. CASE IsDeleteProtected(acl) # protect /\ ~protect
  <2>1. PICK r : r = Those(acl, TAce \ {"protect"})
    OBVIOUS
  <2>2. SetProtection(acl, protect) = r
    BY <1>4, <2>1 DEF SetProtection
  <2>3. r \in Seq(TAce) /\ Filtered(r, acl, TAce \ {"protect"}, Len(acl))
    BY <1>1, <2>1, ThoseFiltered
  <2>4. Sound(r)
    BY <2>3, FilteredSound
  <2> QED
    BY <2>2, <2>4
<1> QED
  BY <1>2, <1>3, <1>4

(* g is the list after each of the first n entries was placed.             *)
Placing(g, w, add, n) ==
  /\ g = [k \in 0..n |-> g[k]]
  /\ g[0] = w
  /\ \A k \in 1..n : g[k] = Place(g[k - 1], add[k])

LEMMA PlacingExists ==
  ASSUME NEW w, NEW add, NEW m \in Nat
  PROVE  \E g : Placing(g, w, add, m)
<1> DEFINE T == {k \in Nat : \E g : Placing(g, w, add, k)}
<1>1. 0 \in T
  <2>1. Placing([k \in 0..0 |-> w], w, add, 0)
    BY DEF Placing
  <2> QED
    BY <2>1
<1>2. ASSUME NEW k \in Nat, k \in T PROVE k + 1 \in T
  <2>1. PICK g : Placing(g, w, add, k)
    BY <1>2
  <2>2. PICK last : last = Place(g[k], add[k + 1])
    OBVIOUS
  <2>3. PICK h : h = [i \in 0..(k + 1) |-> IF i = k + 1 THEN last ELSE g[i]]
    OBVIOUS
  <2>4. h[k + 1] = last /\ \A i \in 0..k : h[i] = g[i]
    BY <2>3
  <2>5. h = [i \in 0..(k + 1) |-> h[i]]
    BY <2>3
  <2>6. h[0] = w
    BY <2>1, <2>4 DEF Placing
  <2>7. ASSUME NEW i \in 1..(k + 1)
        PROVE  h[i] = Place(h[i - 1], add[i])
    <3>1. CASE i = k + 1
      <4>1. i - 1 = k /\ k \in 0..k
        BY <3>1
      <4> QED
        BY <2>2, <2>4, <3>1, <4>1
    <3>2. CASE i # k + 1
      <4>1. i \in 1..k /\ i \in 0..k /\ i - 1 \in 0..k
        BY <3>2
      <4>2. g[i] = Place(g[i - 1], add[i])
        BY <2>1, <4>1 DEF Placing
      <4> QED
        BY <2>4, <4>1, <4>2
    <3> QED
      BY <3>1, <3>2
  <2>8. Placing(h, w, add, k + 1)
    BY <2>5, <2>6, <2>7 DEF Placing
  <2> QED
    BY <2>8
<1>3. Nat \subseteq T
  <2> HIDE DEF T
  <2> QED
    BY <1>1, <1>2, NatInd
<1> QED
  BY <1>3

LEMMA ChangeAclIs ==
  ASSUME NEW acl, NEW remove, NEW add, Len(add) \in Nat
  PROVE  \E g : /\ Placing(g, Without(acl, remove), add, Len(add))
                /\ ChangeAcl(acl, remove, add) = g[Len(add)]
<1>1. PICK w : w = Without(acl, remove)
  OBVIOUS
<1> DEFINE Is(f) == f = [k \in 0..Len(add) |-> IF k = 0 THEN w ELSE Place(f[k - 1], add[k])]
<1>2. PICK h : Placing(h, w, add, Len(add))
  BY PlacingExists
<1>3. Is(h)
  <2> DEFINE r == [k \in 0..Len(add) |-> IF k = 0 THEN w ELSE Place(h[k - 1], add[k])]
  <2>1. ASSUME NEW k \in 0..Len(add) PROVE r[k] = h[k]
    <3>1. CASE k = 0
      BY <1>2, <3>1 DEF Placing
    <3>2. CASE k # 0
      <4>1. k \in 1..Len(add)
        BY <3>2
      <4> QED
        BY <1>2, <3>2, <4>1 DEF Placing
    <3> QED
      BY <3>1, <3>2
  <2>2. r = [k \in 0..Len(add) |-> r[k]]
    OBVIOUS
  <2>3. h = [k \in 0..Len(add) |-> h[k]]
    BY <1>2 DEF Placing
  <2> HIDE DEF r
  <2>4. r = h
    BY <2>1, <2>2, <2>3
  <2> QED
    BY <2>4 DEF r
<1>4. PICK g : g = (CHOOSE f : Is(f))
  OBVIOUS
<1>5. Is(g)
  <2> HIDE DEF Is
  <2> QED
    BY <1>3, <1>4
<1>6. Placing(g, w, add, Len(add))
  <2>1. \A k \in 0..Len(add) : g[k] = IF k = 0 THEN w ELSE Place(g[k - 1], add[k])
    BY <1>5
  <2>2. g = [k \in 0..Len(add) |-> g[k]]
    BY <1>5
  <2> HIDE DEF Is
  <2>3. g[0] = w
    BY <2>1
  <2>4. ASSUME NEW k \in 1..Len(add) PROVE g[k] = Place(g[k - 1], add[k])
    <3>1. k \in 0..Len(add) /\ k # 0
      OBVIOUS
    <3> QED
      BY <2>1, <3>1
  <2> QED
    BY <2>2, <2>3, <2>4 DEF Placing
<1>7. ChangeAcl(acl, remove, add) = g[Len(add)]
  BY <1>1, <1>4 DEF ChangeAcl
<1> QED
  BY <1>1, <1>6, <1>7

(* The entries to add are none of w's and no two the same.                 *)
Fresh(w, add) ==
  /\ \A i \in 1..Len(add) : \A k \in 1..Len(w) : w[k] # add[i]
  /\ \A i, j \in 1..Len(add) : j < i => add[j] # add[i]

(* r is w with the first n entries of add among its own, m telling where   *)
(* w's went.                                                               *)
Built(r, w, add, n, m) ==
  /\ Sound(r) /\ Len(r) = Len(w) + n /\ Selects(m, w, r)
  /\ \A i \in 1..Len(r) : \/ \E k \in 1..Len(w) : r[i] = w[k]
                          \/ \E j \in 1..n : r[i] = add[j]

LEMMA BuiltNext ==
  ASSUME NEW w, Sound(w), NEW add \in Seq(TAce), Fresh(w, add), NEW n \in Nat, n + 1 <= Len(add),
         NEW r, NEW m, Built(r, w, add, n, m)
  PROVE  \E x : Built(Place(r, add[n + 1]), w, add, n + 1, x)
<1>1. /\ Len(w) \in Nat /\ Len(r) \in Nat /\ Len(add) \in Nat /\ Sound(r) /\ Len(r) = Len(w) + n
      /\ m \in [1..Len(w) -> 1..Len(r)]
  BY DEF Built, Sound, Selects
<1>2. n + 1 \in 1..Len(add)
  BY <1>1
<1>3. PICK ace \in TAce : ace = add[n + 1]
  BY <1>2
<1>4. ASSUME NEW i \in 1..Len(r) PROVE r[i] # ace
  <2>1. CASE \E k \in 1..Len(w) : r[i] = w[k]
    BY <1>2, <1>3, <2>1 DEF Fresh
  <2>2. CASE \E j \in 1..n : r[i] = add[j]
    <3>1. PICK j \in 1..n : r[i] = add[j]
      BY <2>2
    <3>2. j \in 1..Len(add) /\ j < n + 1
      BY <1>1
    <3> QED
      BY <1>2, <1>3, <3>1, <3>2 DEF Fresh
  <2> QED
    BY <2>1, <2>2 DEF Built
<1>5. PICK s, p : s = Place(r, ace) /\ Sound(s) /\ Inserted(s, r, p, ace)
  BY <1>1, <1>3, <1>4, PlaceIs
<1>6. /\ Len(s) = Len(r) + 1 /\ p \in 1..Len(r) + 1
      /\ \A j \in 1..Len(r) + 1 : s[j] = IF j < p THEN r[j] ELSE IF j = p THEN ace ELSE r[j - 1]
  BY <1>5 DEF Inserted
<1>7. PICK x : x = [k \in 1..Len(w) |-> IF m[k] < p THEN m[k] ELSE m[k] + 1]
  OBVIOUS
<1>8. ASSUME NEW k \in 1..Len(w)
      PROVE  x[k] \in 1..Len(s) /\ w[k] = s[x[k]]
  <2>1. m[k] \in 1..Len(r) /\ w[k] = r[m[k]] /\ x[k] = IF m[k] < p THEN m[k] ELSE m[k] + 1
    BY <1>1, <1>7 DEF Built, Selects
  <2>2. PICK q \in 1..Len(r) : q = m[k]
    BY <2>1
  <2>3. CASE q < p
    <3>1. q \in 1..Len(r) + 1 /\ s[q] = r[q]
      BY <1>1, <1>6, <2>3
    <3> QED
      BY <1>6, <2>1, <2>2, <2>3, <3>1
  <2>4. CASE ~(q < p)
    <3>1. q + 1 \in 1..Len(r) + 1 /\ ~(q + 1 < p) /\ q + 1 # p /\ (q + 1) - 1 = q
      BY <1>1, <1>6, <2>4
    <3>2. s[q + 1] = r[q]
      BY <1>6, <3>1
    <3> QED
      BY <1>6, <2>1, <2>2, <2>4, <3>1, <3>2
  <2> QED
    BY <2>3, <2>4
<1>9. ASSUME NEW k \in 1..Len(w), NEW l \in 1..Len(w), k < l
      PROVE  x[k] < x[l]
  <2>1. m[k] < m[l] /\ m[k] \in 1..Len(r) /\ m[l] \in 1..Len(r)
    BY <1>1, <1>9 DEF Built, Selects
  <2>2. x[k] = (IF m[k] < p THEN m[k] ELSE m[k] + 1) /\ x[l] = (IF m[l] < p THEN m[l] ELSE m[l] + 1)
    BY <1>7
  <2> QED
    BY <1>1, <1>6, <2>1, <2>2
<1>10. x \in [1..Len(w) -> 1..Len(s)]
  BY <1>7, <1>8
<1>11. Selects(x, w, s)
  BY <1>8, <1>9, <1>10 DEF Selects
<1>12. ASSUME NEW i \in 1..Len(s)
       PROVE  \/ \E k \in 1..Len(w) : s[i] = w[k]
              \/ \E j \in 1..n + 1 : s[i] = add[j]
  <2>1. CASE i = p
    <3>1. s[i] = add[n + 1] /\ n + 1 \in 1..n + 1
      BY <1>3, <1>6, <2>1
    <3> QED
      BY <3>1
  <2>2. CASE i # p
    <3>1. PICK j \in 1..Len(r) : s[i] = r[j]
      <4>1. CASE i < p
        <5>1. i \in 1..Len(r)
          BY <1>1, <1>6, <4>1
        <5> QED
          BY <1>6, <4>1, <5>1
      <4>2. CASE ~(i < p)
        <5>1. i - 1 \in 1..Len(r)
          BY <1>1, <1>6, <2>2, <4>2
        <5> QED
          BY <1>6, <2>2, <4>2, <5>1
      <4> QED
        BY <4>1, <4>2
    <3>2. CASE \E k \in 1..Len(w) : r[j] = w[k]
      BY <3>1, <3>2
    <3>3. CASE \E l \in 1..n : r[j] = add[l]
      <4>1. PICK l \in 1..n : r[j] = add[l]
        BY <3>3
      <4>2. l \in 1..n + 1
        OBVIOUS
      <4> QED
        BY <3>1, <4>1, <4>2
    <3> QED
      BY <3>2, <3>3 DEF Built
  <2> QED
    BY <2>1, <2>2
<1>13. Len(s) = Len(w) + (n + 1)
  BY <1>1, <1>6
<1>14. Built(s, w, add, n + 1, x)
  BY <1>5, <1>11, <1>12, <1>13 DEF Built
<1> QED
  BY <1>3, <1>5, <1>14

LEMMA ChangeAclBuilt ==
  ASSUME NEW acl, Sound(acl), NEW remove, NEW add \in Seq(TAce), Fresh(Without(acl, remove), add)
  PROVE  /\ Sound(Without(acl, remove))
         /\ \E m : Built(ChangeAcl(acl, remove, add), Without(acl, remove), add, Len(add), m)
<1>1. PICK w : w = Without(acl, remove)
  OBVIOUS
<1>2. acl \in Seq(TAce) /\ Len(add) \in Nat
  BY DEF Sound
<1>3. PICK e : Leaves(e, w, acl, remove)
  BY <1>1, <1>2, WithoutLeaves
<1>4. Sound(w) /\ w \in Seq(TAce) /\ Len(w) \in Nat
  <2>1. w \in Seq(TAce) /\ Selects(e, w, acl)
    BY <1>3 DEF Leaves
  <2> QED
    BY <2>1, SelectedSound
<1>5. PICK g : Placing(g, w, add, Len(add)) /\ ChangeAcl(acl, remove, add) = g[Len(add)]
  BY <1>1, <1>2, ChangeAclIs
<1> DEFINE T == {n \in Nat : n <= Len(add) => \E m : Built(g[n], w, add, n, m)}
<1>6. 0 \in T
  <2>1. g[0] = w
    BY <1>5 DEF Placing
  <2>2. PICK m : m = [k \in 1..Len(w) |-> k]
    OBVIOUS
  <2>3. Selects(m, w, w)
    BY <2>2 DEF Selects
  <2>4. Built(w, w, add, 0, m)
    BY <1>4, <2>3 DEF Built
  <2> QED
    BY <2>1, <2>4
<1>7. ASSUME NEW n \in Nat, n \in T PROVE n + 1 \in T
  <2> SUFFICES ASSUME n + 1 <= Len(add) PROVE \E m : Built(g[n + 1], w, add, n + 1, m)
    OBVIOUS
  <2>1. n <= Len(add)
    BY <1>2
  <2>2. PICK m : Built(g[n], w, add, n, m)
    BY <1>7, <2>1
  <2>3. g[n + 1] = Place(g[n], add[n + 1])
    <3>1. n + 1 \in 1..Len(add) /\ (n + 1) - 1 = n
      BY <1>2
    <3> QED
      BY <1>5, <3>1 DEF Placing
  <2>4. PICK r : r = g[n]
    OBVIOUS
  <2>5. Fresh(w, add)
    BY <1>1
  <2>6. \E x : Built(Place(r, add[n + 1]), w, add, n + 1, x)
    BY <1>4, <2>2, <2>4, <2>5, BuiltNext
  <2> QED
    BY <2>3, <2>4, <2>6
<1>8. Nat \subseteq T
  <2> HIDE DEF T
  <2> QED
    BY <1>6, <1>7, NatInd
<1>9. \E m : Built(g[Len(add)], w, add, Len(add), m)
  BY <1>2, <1>8
<1> QED
  BY <1>1, <1>4, <1>5, <1>9

(* What is not refused adds each entry once.                               *)
LEMMA AcceptedFresh ==
  ASSUME NEW acl \in Seq(TAce), NEW remove, NEW add \in Seq(TAce), ~RefusesAcl(acl, remove, add)
  PROVE  Fresh(Without(acl, remove), add)
<1>1. PICK w : w = Without(acl, remove)
  OBVIOUS
<1>2. w \in Seq(TAce)
  BY <1>1, WithoutLeaves DEF Leaves
<1>3. \A i \in 1..Len(add) : add[i] \notin ToSet(w) /\ add[i] \notin ToSet(SubSeq(add, 1, i - 1))
  <2>1. ~AddsTwice(w, add)
    BY <1>1 DEF RefusesAcl
  <2>2. DOMAIN add = 1..Len(add)
    OBVIOUS
  <2>3. \A i \in 1..Len(add) : ~(add[i] \in ToSet(w) \cup ToSet(SubSeq(add, 1, i - 1)))
    BY ONLY <2>1, <2>2 DEF AddsTwice
  <2> QED
    BY <2>3
<1>4. ASSUME NEW i \in 1..Len(add), NEW k \in 1..Len(w) PROVE w[k] # add[i]
  <2>1. w[k] \in ToSet(w)
    BY <1>2 DEF ToSet
  <2> QED
    BY <1>3, <2>1
<1>5. ASSUME NEW i \in 1..Len(add), NEW j \in 1..Len(add), j < i PROVE add[j] # add[i]
  <2>1. PICK n \in Nat : n = i - 1 /\ j \in 1..n /\ n \in 1..Len(add)
    BY <1>5
  <2>2. \A l \in 1..n : add[l] \in TAce
    BY <2>1
  <2>3. PICK s : s = SubSeq(add, 1, n)
    OBVIOUS
  <2>4. s \in Seq(TAce) /\ Len(s) = n /\ \A l \in 1..n : s[l] = add[l]
    BY <2>1, <2>2, <2>3, SubSeqProperties
  <2>5. s[j] \in ToSet(s)
    BY <2>1, <2>4 DEF ToSet
  <2>6. add[i] \notin ToSet(s)
    BY <1>3, <2>1, <2>3
  <2> QED
    BY <2>1, <2>4, <2>5, <2>6
<1> QED
  BY <1>1, <1>4, <1>5 DEF Fresh

(* A numbering of a set counts it.                                         *)
LEMMA Counted ==
  ASSUME NEW n \in Nat, NEW S, NEW e \in [1..n -> S],
         \A k, l \in 1..n : e[k] = e[l] => k = l, \A i \in S : \E k \in 1..n : e[k] = i
  PROVE  Cardinality(S) = n
<1>1. IsFiniteSet(1..n) /\ Cardinality(1..n) = n
  BY FS_Interval
<1>2. IsInjective(e)
  BY DEF IsInjective
<1>3. e \in Bijection(1..n, S)
  BY <1>2 DEF Bijection, Injection, Surjection
<1>4. ExistsBijection(1..n, S)
  BY <1>3 DEF ExistsBijection
<1>5. Cardinality(S) = Cardinality(1..n)
  BY <1>1, <1>4, FS_Bijection
<1> QED
  BY <1>1, <1>5

(* A change of several entries writes the list it was made against, less   *)
(* the entries removed, in order, with the new ones between.               *)
WrittenFrom(new, sheet, remove, add) ==
  LET stay == {i \in DOMAIN sheet : i \notin remove}
  IN /\ Len(new) = Cardinality(stay) + Len(add)
     /\ \A i \in stay : sheet[i] \in ToSet(new)
     /\ \A i, j \in stay : i < j => \E k, l \in DOMAIN new :
            k < l /\ new[k] = sheet[i] /\ new[l] = sheet[j]
     /\ \A i \in remove : sheet[i] \in ToSet(new) => sheet[i] \in ToSet(add)

LEMMA ChangeWritten ==
  ASSUME NEW sheet, Sound(sheet), NEW remove, NEW add \in Seq(TAce), ~RefusesAcl(sheet, remove, add)
  PROVE  WrittenFrom(ChangeAcl(sheet, remove, add), sheet, remove, add)
<1>1. PICK w, new : w = Without(sheet, remove) /\ new = ChangeAcl(sheet, remove, add)
  OBVIOUS
<1>2. sheet \in Seq(TAce) /\ DOMAIN sheet = 1..Len(sheet) /\ Len(sheet) \in Nat
  BY DEF Sound
<1>3. PICK e : Leaves(e, w, sheet, remove)
  BY <1>1, <1>2, WithoutLeaves
<1>4. PICK m : Built(new, w, add, Len(add), m)
  BY <1>1, <1>2, AcceptedFresh, ChangeAclBuilt
<1>5. PICK stay : stay = {i \in DOMAIN sheet : i \notin remove}
  OBVIOUS
<1>6. /\ w \in Seq(TAce) /\ Len(w) \in Nat
      /\ e \in [1..Len(w) -> stay] /\ \A k \in 1..Len(w) : w[k] = sheet[e[k]]
      /\ \A k, l \in 1..Len(w) : k < l => e[k] < e[l]
      /\ \A i \in stay : \E k \in 1..Len(w) : e[k] = i
  <2>1. w \in Seq(TAce) /\ Selects(e, w, sheet)
    BY <1>3 DEF Leaves
  <2>2. \A k \in 1..Len(w) : e[k] \in stay
    BY <1>2, <1>3, <1>5 DEF Leaves, Selects
  <2>3. \A i \in stay : \E k \in 1..Len(w) : e[k] = i
    BY <1>2, <1>3, <1>5 DEF Leaves
  <2>4. e \in [1..Len(w) -> stay]
    BY <2>1, <2>2 DEF Selects
  <2> QED
    BY <2>1, <2>3, <2>4 DEF Selects
<1>7. /\ new \in Seq(TAce) /\ DOMAIN new = 1..Len(new) /\ Len(new) = Len(w) + Len(add)
      /\ m \in [1..Len(w) -> 1..Len(new)] /\ \A k \in 1..Len(w) : w[k] = new[m[k]]
      /\ \A k, l \in 1..Len(w) : k < l => m[k] < m[l]
  BY <1>4 DEF Built, Sound, Selects
<1>8. \A i \in stay : i \in 1..Len(sheet)
  BY <1>2, <1>5
<1>9. ASSUME NEW k \in 1..Len(w), NEW l \in 1..Len(w), e[k] < e[l]
      PROVE  k < l
  <2>1. e[k] \in Nat /\ e[l] \in Nat
    <3>1. e[k] \in stay /\ e[l] \in stay
      BY <1>6
    <3> QED
      BY <1>2, <1>8, <3>1
  <2>2. k # l
    BY <1>9, <2>1
  <2>3. ~(l < k)
    BY <1>6, <1>9, <2>1
  <2> QED
    BY <1>6, <2>2, <2>3
<1>10. Cardinality(stay) = Len(w)
  <2>1. \A k \in 1..Len(w) : e[k] \in Nat
    <3>1. \A i \in stay : i \in Nat
      BY <1>2, <1>8
    <3> QED
      BY <1>6, <3>1
  <2>2. ASSUME NEW k \in 1..Len(w), NEW l \in 1..Len(w), e[k] = e[l] PROVE k = l
    <3>1. ~(k < l) /\ ~(l < k)
      BY <1>6, <2>1, <2>2
    <3> QED
      BY <1>6, <3>1
  <2> QED
    BY <1>6, <2>2, Counted
<1>11. ASSUME NEW i \in stay PROVE sheet[i] \in ToSet(new)
  <2>1. PICK k \in 1..Len(w) : e[k] = i
    BY <1>6
  <2>2. new[m[k]] = sheet[i] /\ m[k] \in 1..Len(new)
    BY <1>6, <1>7, <2>1
  <2> QED
    BY <1>7, <2>2 DEF ToSet
<1>12. ASSUME NEW i \in stay, NEW j \in stay, i < j
       PROVE  \E k, l \in DOMAIN new : k < l /\ new[k] = sheet[i] /\ new[l] = sheet[j]
  <2>1. PICK k \in 1..Len(w), l \in 1..Len(w) : e[k] = i /\ e[l] = j
    BY <1>6
  <2>2. k < l
    BY <1>9, <1>12, <2>1
  <2>3. m[k] < m[l] /\ m[k] \in DOMAIN new /\ m[l] \in DOMAIN new /\ new[m[k]] = sheet[i] /\ new[m[l]] = sheet[j]
    BY <1>6, <1>7, <2>1, <2>2
  <2> QED
    BY <2>3
<1>13. ASSUME NEW i \in remove, sheet[i] \in ToSet(new) PROVE sheet[i] \in ToSet(add)
  <2>1. i \in DOMAIN sheet /\ sheet[i] \notin {"inherited deny", "inherited allow"}
    BY DEF RefusesAcl
  <2>2. sheet[i] \in Deny \cup Allow
    <3>1. sheet[i] \in TAce
      <4>1. i \in 1..Len(sheet)
        BY <1>2, <2>1
      <4> QED
        BY <1>2, <4>1
    <3> QED
      BY <2>1, <3>1 DEF TAce
  <2>3. PICK k \in 1..Len(new) : new[k] = sheet[i]
    BY <1>7, <1>13 DEF ToSet
  <2>4. CASE \E l \in 1..Len(w) : new[k] = w[l]
    <3>1. PICK l \in 1..Len(w) : sheet[e[l]] = sheet[i]
      BY <1>6, <2>3, <2>4
    <3>2. e[l] \in DOMAIN sheet /\ e[l] \notin remove
      BY <1>5, <1>6
    <3>3. e[l] = i
      BY <2>1, <2>2, <3>1, <3>2 DEF Sound, SaysOnce
    <3> QED
      BY <3>2, <3>3
  <2>5. CASE \E j \in 1..Len(add) : new[k] = add[j]
    BY <2>3, <2>5 DEF ToSet
  <2> QED
    BY <1>4, <2>4, <2>5 DEF Built
<1> HIDE DEF WrittenFrom
<1>14. WrittenFrom(new, sheet, remove, add)
  BY <1>5, <1>7, <1>10, <1>11, <1>12, <1>13 DEF WrittenFrom
<1> QED
  BY <1>1, <1>14

---------------------------------------------------------------------------
(* Tree: the entries and the operations that edit their lists              *)

(***************************************************************************)
(* What an operation on lists knows at each of its requests.  A change of  *)
(* several entries writes what it made of the list its sheet was shown;    *)
(* delegating has an entry left for each pair of requests; the list        *)
(* "delete OU" read of a unit was without protection.                      *)
(***************************************************************************)
Paired(todo, given, n) ==
  /\ given \in Nat /\ todo \in Seq({"acl", "write"})
  /\ \E k \in Nat :
       /\ given + k <= n
       /\ Len(todo) = 2 * k \/ Len(todo) = 2 * k - 1
       /\ \A j \in 1..k : todo[Len(todo) - 2 * j + 2] = "write"
       /\ \A j \in 1..k : 2 * j <= Len(todo) => todo[Len(todo) - 2 * j + 1] = "acl"

Changing(todo, remove, add, sheet, acl, next) ==
  \/ todo = <<"acl", "write">>
  \/ /\ todo = <<"write">> /\ acl = sheet
     /\ next = ChangeAcl(sheet, remove, add) /\ ~RefusesAcl(sheet, remove, add)

Deleting(todo, acl) ==
  "protect" \notin ToSet(acl) /\ todo \in Seq({"unprotected", "empty", "entry", "delete"})

Stage(do, todo, given, remove, add, sheet, acl, next) ==
  /\ do = "change acl" => Changing(todo, remove, add, sheet, acl, next)
  /\ do = "delegate" => Paired(todo, given, Len(add))
  /\ do = "delete ou" => Deleting(todo, acl)

OpFields == {"do", "dn", "to", "value", "protect", "recursive", "remove", "add", "todo", "result",
             "sheet", "acl", "next", "given"}
(* What is known of op once todo is what is left of it.                    *)
Edits(op, todo) ==
  /\ OpFields \subseteq DOMAIN op /\ op.result = "none"
  /\ op.add \in Seq(TAce) /\ op.value \in BOOLEAN
  /\ Sound(op.sheet) /\ Sound(op.next)
  /\ Stage(op.do, todo, op.given, op.remove, op.add, op.sheet, op.acl, op.next)

EditsInv ==
  /\ DOMAIN working = TAdmin
  /\ \A a \in TAdmin : working[a].result \in {"none", "ok", "refused", "failed", "unprotected"}
  /\ \A a \in TAdmin : Working(a) => Edits(working[a], working[a].todo)
EntriesInv == \A dn \in Dns : tree[dn] \in Entry /\ Sound(tree[dn].acl)

ListsInv == TInv /\ EntriesInv /\ EditsInv /\ treeOps \in 0..MaxTreeOps

(* What is left of a sequence after its first.                             *)
LEMMA TailIs ==
  ASSUME NEW S, NEW s \in Seq(S), Len(s) > 0
  PROVE  /\ Tail(s) \in Seq(S) /\ Len(Tail(s)) = Len(s) - 1 /\ Head(s) = s[1]
         /\ \A i \in 1..Len(s) - 1 : Tail(s)[i] = s[i + 1]
<1>1. s # <<>>
  OBVIOUS
<1> QED
  BY <1>1, HeadTailProperties

LEMMA PairedRead ==
  ASSUME NEW todo, NEW given, NEW n \in Nat, Paired(todo, given, n), Len(todo) > 0, Head(todo) = "acl"
  PROVE  Paired(Tail(todo), given, n) /\ given + 1 \in 1..n
<1>1. todo \in Seq({"acl", "write"}) /\ given \in Nat /\ Len(todo) \in Nat
  BY DEF Paired
<1>2. PICK k \in Nat :
        /\ given + k <= n
        /\ Len(todo) = 2 * k \/ Len(todo) = 2 * k - 1
        /\ \A j \in 1..k : todo[Len(todo) - 2 * j + 2] = "write"
        /\ \A j \in 1..k : 2 * j <= Len(todo) => todo[Len(todo) - 2 * j + 1] = "acl"
  BY DEF Paired
<1>3. PICK t : t = Tail(todo)
  OBVIOUS
<1>4. /\ t \in Seq({"acl", "write"}) /\ Len(t) = Len(todo) - 1 /\ todo[1] = "acl"
      /\ \A i \in 1..Len(todo) - 1 : t[i] = todo[i + 1]
  BY <1>1, <1>3, TailIs
<1>5. k >= 1
  BY <1>1, <1>2
<1>6. Len(todo) = 2 * k
  <2> SUFFICES ASSUME Len(todo) = 2 * k - 1 PROVE FALSE
    BY <1>2
  <2>1. k \in 1..k /\ Len(todo) - 2 * k + 2 = 1
    BY <1>5
  <2>2. todo[Len(todo) - 2 * k + 2] = "write"
    BY <1>2, <2>1
  <2> QED
    BY <1>4, <2>1, <2>2
<1>7. ASSUME NEW j \in 1..k PROVE t[Len(t) - 2 * j + 2] = "write"
  <2>1. PICK i : i = Len(t) - 2 * j + 2
    OBVIOUS
  <2>2. i \in 1..Len(todo) - 1 /\ i + 1 = Len(todo) - 2 * j + 2
    BY <1>4, <1>6, <2>1
  <2> QED
    BY <1>2, <1>4, <2>1, <2>2
<1>8. ASSUME NEW j \in 1..k, 2 * j <= Len(t) PROVE t[Len(t) - 2 * j + 1] = "acl"
  <2>1. PICK i : i = Len(t) - 2 * j + 1
    OBVIOUS
  <2>2. i \in 1..Len(todo) - 1 /\ i + 1 = Len(todo) - 2 * j + 1 /\ 2 * j <= Len(todo)
    BY <1>4, <1>6, <1>8, <2>1
  <2> QED
    BY <1>2, <1>4, <2>1, <2>2
<1>9. Len(t) = 2 * k - 1
  BY <1>4, <1>6
<1>10. Paired(t, given, n)
  BY <1>1, <1>2, <1>4, <1>7, <1>8, <1>9 DEF Paired
<1>11. given + 1 \in 1..n
  BY <1>1, <1>2, <1>5
<1> QED
  BY <1>3, <1>10, <1>11

LEMMA PairedWrite ==
  ASSUME NEW todo, NEW given, NEW n \in Nat, Paired(todo, given, n), Len(todo) > 0, Head(todo) = "write"
  PROVE  Paired(Tail(todo), given, n) /\ Paired(Tail(todo), given + 1, n)
<1>1. todo \in Seq({"acl", "write"}) /\ given \in Nat /\ Len(todo) \in Nat
  BY DEF Paired
<1>2. PICK k \in Nat :
        /\ given + k <= n
        /\ Len(todo) = 2 * k \/ Len(todo) = 2 * k - 1
        /\ \A j \in 1..k : todo[Len(todo) - 2 * j + 2] = "write"
        /\ \A j \in 1..k : 2 * j <= Len(todo) => todo[Len(todo) - 2 * j + 1] = "acl"
  BY DEF Paired
<1>3. PICK t : t = Tail(todo)
  OBVIOUS
<1>4. /\ t \in Seq({"acl", "write"}) /\ Len(t) = Len(todo) - 1 /\ todo[1] = "write"
      /\ \A i \in 1..Len(todo) - 1 : t[i] = todo[i + 1]
  BY <1>1, <1>3, TailIs
<1>5. k >= 1
  BY <1>1, <1>2
<1>6. Len(todo) = 2 * k - 1
  <2> SUFFICES ASSUME Len(todo) = 2 * k PROVE FALSE
    BY <1>2
  <2>1. k \in 1..k /\ Len(todo) - 2 * k + 1 = 1 /\ 2 * k <= Len(todo)
    BY <1>5
  <2>2. todo[Len(todo) - 2 * k + 1] = "acl"
    BY <1>2, <2>1
  <2> QED
    BY <1>4, <2>1, <2>2
<1>7. PICK l \in Nat : l = k - 1
  BY <1>5
<1>8. ASSUME NEW j \in 1..l PROVE t[Len(t) - 2 * j + 2] = "write"
  <2>1. PICK i : i = Len(t) - 2 * j + 2
    OBVIOUS
  <2>2. i \in 1..Len(todo) - 1 /\ i + 1 = Len(todo) - 2 * j + 2 /\ j \in 1..k
    BY <1>4, <1>6, <1>7, <2>1
  <2> QED
    BY <1>2, <1>4, <2>1, <2>2
<1>9. ASSUME NEW j \in 1..l, 2 * j <= Len(t) PROVE t[Len(t) - 2 * j + 1] = "acl"
  <2>1. PICK i : i = Len(t) - 2 * j + 1
    OBVIOUS
  <2>2. i \in 1..Len(todo) - 1 /\ i + 1 = Len(todo) - 2 * j + 1 /\ 2 * j <= Len(todo) /\ j \in 1..k
    BY <1>4, <1>6, <1>7, <1>9, <2>1
  <2> QED
    BY <1>2, <1>4, <2>1, <2>2
<1>10. Len(t) = 2 * l
  BY <1>4, <1>6, <1>7
<1>11. given + l <= n /\ (given + 1) + l <= n /\ given + 1 \in Nat
  BY <1>1, <1>2, <1>7
<1>12. Paired(t, given, n)
  BY <1>1, <1>4, <1>8, <1>9, <1>10, <1>11 DEF Paired
<1>13. Paired(t, given + 1, n)
  BY <1>1, <1>4, <1>8, <1>9, <1>10, <1>11 DEF Paired
<1> QED
  BY <1>3, <1>12, <1>13

LEMMA PairedFirst ==
  ASSUME NEW n \in Nat
  PROVE  Paired([i \in 1..2 * n |-> IF i % 2 = 1 THEN "acl" ELSE "write"], 0, n)
<1>1. PICK t : t = [i \in 1..2 * n |-> IF i % 2 = 1 THEN "acl" ELSE "write"]
  OBVIOUS
<1>2. t \in Seq({"acl", "write"}) /\ Len(t) = 2 * n
  <2>1. t \in [1..2 * n -> {"acl", "write"}] /\ 2 * n \in Nat
    BY <1>1
  <2> QED
    BY ONLY <2>1
<1>3. ASSUME NEW j \in 1..n PROVE t[2 * n - 2 * j + 2] = "write"
  <2>1. PICK i : i = 2 * n - 2 * j + 2
    OBVIOUS
  <2>2. i \in 1..2 * n /\ i % 2 = 0
    BY <2>1
  <2> QED
    BY <1>1, <2>1, <2>2
<1>4. ASSUME NEW j \in 1..n PROVE t[2 * n - 2 * j + 1] = "acl"
  <2>1. PICK i : i = 2 * n - 2 * j + 1
    OBVIOUS
  <2>2. i \in 1..2 * n /\ i % 2 = 1
    BY <2>1
  <2> QED
    BY <1>1, <2>1, <2>2
<1>5. Paired(t, 0, n)
  BY <1>2, <1>3, <1>4 DEF Paired
<1> QED
  BY <1>1, <1>5

LEMMA FewIn ==
  ASSUME NEW S
  PROVE  <<>> \in Seq(S) /\ \A x, y \in S : <<x>> \in Seq(S) /\ <<x, y>> \in Seq(S)
  OBVIOUS

LEMMA TwoLong ==
  ASSUME NEW x, NEW y
  PROVE  DOMAIN <<x, y>> = 1..2 /\ <<x, y>>[1] = x /\ <<x, y>>[2] = y
  OBVIOUS

LEMMA TwoSteps ==
  /\ Head(<<"acl", "write">>) = "acl" /\ Tail(<<"acl", "write">>) = <<"write">>
  /\ Len(<<"acl", "write">>) = 2 /\ Head(<<"write">>) = "write" /\ Len(<<"write">>) = 1
  OBVIOUS

LEMMA HeadIn ==
  ASSUME NEW S, NEW s \in Seq(S), Len(s) > 1
  PROVE  Head(s) \in S /\ Tail(s) \in Seq(S) /\ Len(s) > 0
<1>1. Len(s) > 0 /\ 1 \in 1..Len(s)
  OBVIOUS
<1>2. s[1] \in S
  BY <1>1
<1> QED
  BY <1>1, <1>2, TailIs

(* A request that is neither reads nor writes a list.                      *)
LEMMA StagePass ==
  ASSUME NEW do, NEW todo, NEW given, NEW remove, NEW add, NEW sheet, NEW acl, NEW next, NEW seen,
         Stage(do, todo, given, remove, add, sheet, acl, next), Len(todo) > 1,
         Head(todo) \notin {"acl", "write"}, seen = acl \/ "protect" \notin ToSet(seen)
  PROVE  Stage(do, Tail(todo), given, remove, add, sheet, seen, next)
<1>1. ASSUME do = "change acl" PROVE FALSE
  <2>1. Changing(todo, remove, add, sheet, acl, next)
    BY <1>1 DEF Stage
  <2>2. todo = <<"acl", "write">> \/ todo = <<"write">>
    BY ONLY <2>1 DEF Changing
  <2> QED
    BY <2>2, TwoSteps
<1>2. ASSUME do = "delegate" PROVE FALSE
  <2>1. todo \in Seq({"acl", "write"})
    BY <1>2 DEF Stage, Paired
  <2> QED
    BY <2>1, HeadIn
<1>3. ASSUME do = "delete ou" PROVE Deleting(Tail(todo), seen)
  <2>1. "protect" \notin ToSet(acl) /\ todo \in Seq({"unprotected", "empty", "entry", "delete"})
    BY <1>3 DEF Stage, Deleting
  <2>2. Tail(todo) \in Seq({"unprotected", "empty", "entry", "delete"})
    BY ONLY <2>1, Len(todo) > 1, HeadIn
  <2> QED
    BY <2>1, <2>2 DEF Deleting
<1> QED
  BY <1>1, <1>2, <1>3 DEF Stage

(* Delegating has an entry left to add when it reads the list.             *)
LEMMA StageLeft ==
  ASSUME NEW todo, NEW given, NEW remove, NEW add, NEW sheet, NEW acl, NEW next,
         Stage("delegate", todo, given, remove, add, sheet, acl, next), Len(add) \in Nat, Len(todo) > 0,
         Head(todo) = "acl"
  PROVE  given + 1 \in 1..Len(add)
<1>1. Paired(todo, given, Len(add))
  BY DEF Stage
<1> QED
  BY ONLY <1>1, Len(todo) > 0, Len(add) \in Nat, Head(todo) = "acl", PairedRead

(* What a change of several entries makes of the list it reads.            *)
Makes(remove, add, sheet, acl, next) ==
  acl = sheet /\ next = ChangeAcl(sheet, remove, add) /\ ~RefusesAcl(sheet, remove, add)

LEMMA StageRead ==
  ASSUME NEW do, NEW todo, NEW given, NEW remove, NEW add, NEW sheet, NEW acl, NEW next, NEW seen, NEW became,
         Stage(do, todo, given, remove, add, sheet, acl, next), Len(add) \in Nat, Len(todo) > 1,
         Head(todo) = "acl", do = "change acl" => Makes(remove, add, sheet, seen, became)
  PROVE  Stage(do, Tail(todo), given, remove, add, sheet, seen, became)
<1>1. ASSUME do = "change acl" PROVE Changing(Tail(todo), remove, add, sheet, seen, became)
  <2>1. Changing(todo, remove, add, sheet, acl, next)
    BY <1>1 DEF Stage
  <2>2. todo = <<"acl", "write">> \/ todo = <<"write">>
    BY ONLY <2>1 DEF Changing
  <2>3. Tail(todo) = <<"write">>
    <3>1. CASE todo = <<"write">>
      <4>1. Len(todo) = 1
        BY ONLY <3>1, TwoSteps
      <4> QED
        BY ONLY <4>1, Len(todo) > 1
    <3>2. CASE todo = <<"acl", "write">>
      BY ONLY <3>2, TwoSteps
    <3> QED
      BY <2>2, <3>1, <3>2
  <2>4. Makes(remove, add, sheet, seen, became)
    BY <1>1
  <2> QED
    BY ONLY <2>3, <2>4 DEF Changing, Makes
<1>2. ASSUME do = "delegate" PROVE Paired(Tail(todo), given, Len(add))
  <2>1. Paired(todo, given, Len(add)) /\ todo \in Seq({"acl", "write"})
    BY <1>2 DEF Stage, Paired
  <2>2. Len(todo) > 0
    BY ONLY <2>1, Len(todo) > 1, HeadIn
  <2> QED
    BY ONLY <2>1, <2>2, Len(add) \in Nat, Head(todo) = "acl", PairedRead
<1>3. ASSUME do = "delete ou" PROVE FALSE
  <2>1. todo \in Seq({"unprotected", "empty", "entry", "delete"})
    BY <1>3 DEF Stage, Deleting
  <2>2. Head(todo) \in {"unprotected", "empty", "entry", "delete"}
    BY ONLY <2>1, Len(todo) > 1, HeadIn
  <2> QED
    BY ONLY <2>2, Head(todo) = "acl"
<1> QED
  BY ONLY <1>1, <1>2, <1>3 DEF Stage

LEMMA StageWrite ==
  ASSUME NEW do, NEW todo, NEW given, NEW remove, NEW add, NEW sheet, NEW acl, NEW next, NEW since,
         Stage(do, todo, given, remove, add, sheet, acl, next), Len(add) \in Nat, Len(todo) > 1,
         Head(todo) = "write", since \in {given, given + 1}
  PROVE  Stage(do, Tail(todo), since, remove, add, sheet, acl, next)
<1>1. ASSUME do = "change acl" PROVE FALSE
  <2>1. Changing(todo, remove, add, sheet, acl, next)
    BY <1>1 DEF Stage
  <2>2. todo = <<"acl", "write">> \/ todo = <<"write">>
    BY ONLY <2>1 DEF Changing
  <2> QED
    BY ONLY <2>2, Len(todo) > 1, Head(todo) = "write", TwoSteps
<1>2. ASSUME do = "delegate" PROVE Paired(Tail(todo), since, Len(add))
  <2>1. Paired(todo, given, Len(add)) /\ todo \in Seq({"acl", "write"})
    BY <1>2 DEF Stage, Paired
  <2>2. Len(todo) > 0
    BY ONLY <2>1, Len(todo) > 1, HeadIn
  <2>3. Paired(Tail(todo), given, Len(add)) /\ Paired(Tail(todo), given + 1, Len(add))
    BY ONLY <2>1, <2>2, Len(add) \in Nat, Head(todo) = "write", PairedWrite
  <2> QED
    BY <2>3
<1>3. ASSUME do = "delete ou" PROVE FALSE
  <2>1. todo \in Seq({"unprotected", "empty", "entry", "delete"})
    BY <1>3 DEF Stage, Deleting
  <2>2. Head(todo) \in {"unprotected", "empty", "entry", "delete"}
    BY ONLY <2>1, Len(todo) > 1, HeadIn
  <2> QED
    BY ONLY <2>2, Head(todo) = "write"
<1> QED
  BY ONLY <1>1, <1>2, <1>3 DEF Stage

(* What an operation on lists knows is its own: others' steps leave it.    *)
LEMMA ReadyEdits ==
  ASSUME EditsInv, NEW a \in TAdmin, NEW q, q.result = "none",
         Len(q.todo) > 1 => Edits(q, Tail(q.todo)), Ready(a, q)
  PROVE  EditsInv'
<1>1. DOMAIN working = TAdmin
  BY DEF EditsInv
<1>2. PICK x : x = IF Len(q.todo) > 1 THEN [q EXCEPT !.todo = Tail(@)] ELSE Idle("ok")
  OBVIOUS
<1>3. working' = [working EXCEPT ![a] = x]
  BY <1>2 DEF Ready
<1>4. DOMAIN working' = TAdmin /\ working'[a] = x /\ \A b \in TAdmin \ {a} : working'[b] = working[b]
  BY ONLY <1>1, <1>3, a \in TAdmin
<1>5. x.result \in {"none", "ok"} /\ (x.todo # <<>> => Edits(x, x.todo))
  <2>1. CASE Len(q.todo) > 1
    <3>1. PICK t : t = Tail(q.todo)
      OBVIOUS
    <3>2. Edits(q, t)
      BY <2>1, <3>1
    <3>3. /\ OpFields \subseteq DOMAIN q /\ q.result = "none"
          /\ q.add \in Seq(TAce) /\ q.value \in BOOLEAN
          /\ Sound(q.sheet) /\ Sound(q.next)
          /\ Stage(q.do, t, q.given, q.remove, q.add, q.sheet, q.acl, q.next)
      BY ONLY <3>2 DEF Edits
    <3>4. x = [q EXCEPT !.todo = t]
      BY ONLY <1>2, <2>1, <3>1
    <3>5. /\ DOMAIN x = DOMAIN q /\ x.todo = t /\ x.do = q.do /\ x.given = q.given /\ x.remove = q.remove
          /\ x.add = q.add /\ x.sheet = q.sheet /\ x.acl = q.acl /\ x.next = q.next
          /\ x.value = q.value /\ x.result = q.result
      BY ONLY <3>3, <3>4 DEF OpFields
    <3>6. Edits(x, x.todo)
      BY ONLY <3>3, <3>5 DEF Edits
    <3> QED
      BY <3>3, <3>5, <3>6
  <2>2. CASE ~(Len(q.todo) > 1)
    BY <1>2, <2>2 DEF Idle
  <2> QED
    BY <2>1, <2>2
<1>6. ASSUME NEW b \in TAdmin
      PROVE  /\ working'[b].result \in {"none", "ok", "refused", "failed", "unprotected"}
             /\ working'[b].todo # <<>> => Edits(working'[b], working'[b].todo)
  <2>1. CASE b = a
    BY ONLY <1>4, <1>5, <2>1
  <2>2. CASE b # a
    <3>1. working'[b] = working[b]
      BY ONLY <1>4, <2>2, b \in TAdmin
    <3>2. /\ working[b].result \in {"none", "ok", "refused", "failed", "unprotected"}
          /\ working[b].todo # <<>> => Edits(working[b], working[b].todo)
      BY DEF EditsInv, Working
    <3> QED
      BY ONLY <3>1, <3>2
  <2> QED
    BY <2>1, <2>2
<1> QED
  BY <1>4, <1>6 DEF EditsInv, Working

LEMMA StopEdits ==
  ASSUME EditsInv, NEW a \in TAdmin, NEW why \in {"refused", "failed"}, Stop(a, why)
  PROVE  EditsInv'
<1>1. DOMAIN working = TAdmin
  BY DEF EditsInv
<1>2. PICK w \in {"refused", "failed", "unprotected"} : working' = [working EXCEPT ![a] = Idle(w)]
  BY <1>1 DEF Stop
<1>3. DOMAIN working' = TAdmin /\ working'[a] = Idle(w) /\ \A b \in TAdmin \ {a} : working'[b] = working[b]
  BY ONLY <1>1, <1>2, a \in TAdmin
<1>4. Idle(w).todo = <<>> /\ Idle(w).result = w
  BY DEF Idle
<1>5. ASSUME NEW b \in TAdmin
      PROVE  /\ working'[b].result \in {"none", "ok", "refused", "failed", "unprotected"}
             /\ working'[b].todo # <<>> => Edits(working'[b], working'[b].todo)
  <2>1. CASE b = a
    BY <1>2, <1>3, <1>4, <2>1
  <2>2. CASE b # a
    <3>1. working'[b] = working[b]
      BY ONLY <1>3, <2>2, b \in TAdmin
    <3>2. /\ working[b].result \in {"none", "ok", "refused", "failed", "unprotected"}
          /\ working[b].todo # <<>> => Edits(working[b], working[b].todo)
      BY DEF EditsInv, Working
    <3> QED
      BY ONLY <3>1, <3>2
  <2> QED
    BY <2>1, <2>2
<1> QED
  BY <1>3, <1>5 DEF EditsInv, Working

(* q is op, but for what the list was and what is made of it.              *)
Like(q, op) ==
  DOMAIN q = DOMAIN op /\ \A f \in DOMAIN op \ {"acl", "next", "given", "added"} : q[f] = op[f]

LEMMA LikeIs ==
  ASSUME NEW op, OpFields \subseteq DOMAIN op, NEW q, Like(q, op)
  PROVE  /\ q.do = op.do /\ q.todo = op.todo /\ q.value = op.value /\ q.remove = op.remove /\ q.add = op.add
         /\ q.sheet = op.sheet /\ q.result = op.result /\ OpFields \subseteq DOMAIN q
  BY DEF Like, OpFields

LEMMA EditsAre ==
  ASSUME NEW op, NEW todo, Edits(op, todo)
  PROVE  /\ OpFields \subseteq DOMAIN op /\ op.result = "none" /\ op.add \in Seq(TAce) /\ Len(op.add) \in Nat
         /\ op.value \in BOOLEAN /\ Sound(op.sheet) /\ Sound(op.next)
         /\ Stage(op.do, todo, op.given, op.remove, op.add, op.sheet, op.acl, op.next)
<1>1. op.add \in Seq(TAce)
  BY DEF Edits
<1>2. Len(op.add) \in Nat
  BY ONLY <1>1
<1> QED
  BY <1>1, <1>2 DEF Edits

LEMMA EditsPass ==
  ASSUME NEW op, Edits(op, op.todo), Len(op.todo) > 1, Head(op.todo) \notin {"acl", "write"},
         NEW q, Like(q, op), q.next = op.next, q.given = op.given,
         q.acl = op.acl \/ "protect" \notin ToSet(q.acl)
  PROVE  Edits(q, Tail(q.todo))
<1>1. Stage(op.do, Tail(op.todo), op.given, op.remove, op.add, op.sheet, q.acl, op.next)
  BY EditsAre, StagePass
<1> QED
  BY <1>1, EditsAre, LikeIs DEF Edits

LEMMA EditsRead ==
  ASSUME NEW op, Edits(op, op.todo), Len(op.todo) > 1, Head(op.todo) = "acl",
         NEW q, Like(q, op), q.given = op.given, Sound(q.next),
         op.do = "change acl" => Makes(op.remove, op.add, op.sheet, q.acl, q.next)
  PROVE  Edits(q, Tail(q.todo))
<1>1. /\ OpFields \subseteq DOMAIN op /\ op.result = "none" /\ op.add \in Seq(TAce) /\ Len(op.add) \in Nat
      /\ op.value \in BOOLEAN /\ Sound(op.sheet) /\ Sound(op.next)
      /\ Stage(op.do, op.todo, op.given, op.remove, op.add, op.sheet, op.acl, op.next)
  BY EditsAre
<1>2. Stage(op.do, Tail(op.todo), op.given, op.remove, op.add, op.sheet, q.acl, q.next)
  BY <1>1, StageRead
<1>3. /\ q.do = op.do /\ q.todo = op.todo /\ q.value = op.value /\ q.remove = op.remove /\ q.add = op.add
      /\ q.sheet = op.sheet /\ q.result = op.result /\ OpFields \subseteq DOMAIN q
  BY <1>1, LikeIs
<1> QED
  BY ONLY <1>1, <1>2, <1>3, q.given = op.given, Sound(q.next) DEF Edits

LEMMA EditsWrite ==
  ASSUME NEW op, Edits(op, op.todo), Len(op.todo) > 1, Head(op.todo) = "write",
         NEW q, Like(q, op), q.next = op.next, q.acl = op.acl, q.given \in {op.given, op.given + 1}
  PROVE  Edits(q, Tail(q.todo))
<1>1. /\ OpFields \subseteq DOMAIN op /\ op.result = "none" /\ op.add \in Seq(TAce) /\ Len(op.add) \in Nat
      /\ op.value \in BOOLEAN /\ Sound(op.sheet) /\ Sound(op.next)
      /\ Stage(op.do, op.todo, op.given, op.remove, op.add, op.sheet, op.acl, op.next)
  BY EditsAre
<1>2. PICK since : since = q.given
  OBVIOUS
<1>3. Stage(op.do, Tail(op.todo), since, op.remove, op.add, op.sheet, op.acl, op.next)
  BY <1>1, <1>2, StageWrite
<1>4. /\ q.do = op.do /\ q.todo = op.todo /\ q.value = op.value /\ q.remove = op.remove /\ q.add = op.add
      /\ q.sheet = op.sheet /\ q.result = op.result /\ OpFields \subseteq DOMAIN q
  BY <1>1, LikeIs
<1> QED
  BY ONLY <1>1, <1>2, <1>3, <1>4, q.next = op.next, q.acl = op.acl DEF Edits

LEMMA AtStepIs ==
  ASSUME EditsInv, NEW a \in TAdmin, Working(a)
  PROVE  Edits(working[a], working[a].todo) /\ working[a].result = "none" /\ Like(working[a], working[a])
  BY DEF EditsInv, Edits, Like

(* A request that edits no list, going on with q.                          *)
LEMMA PassEdits ==
  ASSUME EditsInv, NEW a \in TAdmin, Working(a), Head(working[a].todo) \notin {"acl", "write"},
         NEW q, Like(q, working[a]), q.next = working[a].next, q.given = working[a].given,
         q.acl = working[a].acl \/ "protect" \notin ToSet(q.acl), Ready(a, q)
  PROVE  EditsInv'
<1>1. PICK op : op = working[a]
  OBVIOUS
<1>2. Edits(op, op.todo) /\ op.result = "none"
  BY <1>1, AtStepIs
<1>3. q.result = "none" /\ q.todo = op.todo
  BY <1>1, <1>2, EditsAre, LikeIs
<1>4. Len(q.todo) > 1 => Edits(q, Tail(q.todo))
  <2>1. ASSUME Len(op.todo) > 1 PROVE Edits(q, Tail(q.todo))
    <3>1. /\ Head(op.todo) \notin {"acl", "write"} /\ Like(q, op) /\ q.next = op.next /\ q.given = op.given
          /\ q.acl = op.acl \/ "protect" \notin ToSet(q.acl)
      BY ONLY <1>1, Head(working[a].todo) \notin {"acl", "write"}, Like(q, working[a]), q.next = working[a].next,
              q.given = working[a].given, q.acl = working[a].acl \/ "protect" \notin ToSet(q.acl)
    <3> QED
      BY ONLY <1>2, <2>1, <3>1, EditsPass
  <2> QED
    BY <1>3, <2>1
<1> QED
  BY <1>3, <1>4, ReadyEdits

LEMMA SameEdits ==
  ASSUME EditsInv, NEW a \in TAdmin, Working(a), Head(working[a].todo) \notin {"acl", "write"},
         Ready(a, working[a])
  PROVE  EditsInv'
  BY AtStepIs, PassEdits

LEMMA IfElseEdits ==
  ASSUME EditsInv, NEW a \in TAdmin, NEW step, AtStep(a, step), step \notin {"acl", "write"}, NEW refuses,
         IfElse(a, refuses, "refused", working[a])
  PROVE  EditsInv'
  BY SameEdits, StopEdits DEF IfElse, AtStep

(* The requests that edit no list.                                         *)
LEMMA OthersEdits ==
  ASSUME EditsInv, NEW a \in TAdmin,
         Parent(a) \/ Free(a) \/ TAdd(a) \/ Text(a) \/ Unprotected(a) \/ Empty(a) \/ EntryRead(a)
           \/ TDelete(a) \/ Rename(a) \/ TLost(a)
  PROVE  EditsInv'
<1>1. CASE Parent(a)
  BY <1>1, IfElseEdits DEF Parent
<1>2. CASE Free(a)
  BY <1>2, IfElseEdits DEF Free
<1>3. CASE TAdd(a)
  <2>1. AtStep(a, "add") /\ (Stop(a, "failed") \/ Ready(a, [working[a] EXCEPT !.added = TRUE]))
    BY <1>3 DEF TAdd
  <2>2. CASE Stop(a, "failed")
    BY <2>2, StopEdits
  <2>3. CASE Ready(a, [working[a] EXCEPT !.added = TRUE])
    <3>1. PICK op, q : op = working[a] /\ q = [working[a] EXCEPT !.added = TRUE]
      OBVIOUS
    <3>2. OpFields \subseteq DOMAIN op
      BY <2>1, <3>1, AtStepIs, EditsAre DEF AtStep
    <3>3. Like(q, op) /\ q.next = op.next /\ q.given = op.given /\ q.acl = op.acl
      BY ONLY <3>1, <3>2 DEF Like, OpFields
    <3>4. Working(a) /\ Head(working[a].todo) \notin {"acl", "write"} /\ Ready(a, q)
      BY <2>1, <2>3, <3>1 DEF AtStep
    <3> QED
      BY <3>1, <3>3, <3>4, PassEdits
  <2> QED
    BY <2>1, <2>2, <2>3
<1>4. CASE Text(a)
  <2>1. AtStep(a, "text") /\ (Stop(a, "failed") \/ Ready(a, working[a]))
    BY <1>4 DEF Text
  <2> QED
    BY <2>1, StopEdits, SameEdits DEF AtStep
<1>5. CASE Unprotected(a)
  <2>1. AtStep(a, "unprotected") /\ IfElse(a, RefusesProtected(working[a], AclOf(working[a].dn)), "refused",
          [working[a] EXCEPT !.acl = AclOf(working[a].dn)])
    BY <1>5 DEF Unprotected
  <2>2. CASE Stop(a, "refused")
    BY <2>2, StopEdits
  <2>3. CASE ~Stop(a, "refused")
    <3>1. PICK op, acl, q : op = working[a] /\ acl = AclOf(working[a].dn) /\ q = [working[a] EXCEPT !.acl = acl]
      OBVIOUS
    <3>2. ~RefusesProtected(op, acl) /\ Ready(a, q)
      BY <2>1, <2>3, <3>1 DEF IfElse
    <3>3. OpFields \subseteq DOMAIN op
      BY <2>1, <3>1, AtStepIs, EditsAre DEF AtStep
    <3>4. Like(q, op) /\ q.next = op.next /\ q.given = op.given /\ q.acl = acl
      BY ONLY <3>1, <3>3 DEF Like, OpFields
    <3>5. "protect" \notin ToSet(q.acl)
      BY <3>2, <3>4 DEF RefusesProtected, IsDeleteProtected
    <3>6. Working(a) /\ Head(working[a].todo) \notin {"acl", "write"}
      BY <2>1 DEF AtStep
    <3> QED
      BY <3>1, <3>2, <3>4, <3>5, <3>6, PassEdits
  <2> QED
    BY <2>2, <2>3
<1>6. CASE Empty(a)
  BY <1>6, IfElseEdits DEF Empty
<1>7. CASE EntryRead(a)
  <2>1. PICK refuses : AtStep(a, "entry") /\ IfElse(a, refuses, "refused", working[a])
    BY <1>7 DEF EntryRead
  <2> QED
    BY <2>1, IfElseEdits
<1>8. CASE TDelete(a)
  <2>1. AtStep(a, "delete") /\ (Stop(a, "failed") \/ Ready(a, working[a]))
    BY <1>8 DEF TDelete
  <2> QED
    BY <2>1, StopEdits, SameEdits DEF AtStep
<1>9. CASE Rename(a)
  <2>1. AtStep(a, "rename") /\ (Stop(a, "failed") \/ Ready(a, working[a]))
    BY <1>9 DEF Rename
  <2> QED
    BY <2>1, StopEdits, SameEdits DEF AtStep
<1>10. CASE TLost(a)
  <2>1. Working(a) /\ (IF Head(working[a].todo) = "unprotected" THEN Ready(a, working[a]) ELSE Stop(a, "failed"))
    BY <1>10 DEF TLost
  <2> QED
    BY <2>1, StopEdits, SameEdits
<1> QED
  BY <1>1, <1>2, <1>3, <1>4, <1>5, <1>6, <1>7, <1>8, <1>9, <1>10

Protects(op) == op.do \in {"create ou", "update", "protect"}

(* A request that reads the list to edit it.                               *)
LEMMA AclReadEdits ==
  ASSUME EditsInv, EntriesInv, NEW a \in TAdmin, AclRead(a)
  PROVE  EditsInv'
<1>1. PICK op, acl : op = working[a] /\ acl = AclOf(op.dn)
  OBVIOUS
<1>3. PICK next : next = IF Protects(op) THEN SetProtection(acl, op.protect = "yes")
                         ELSE ChangeAcl(acl, op.remove, Adds(op))
  OBVIOUS
<1>4. /\ AtStep(a, "acl")
      /\ IF op.dn \notin Dns THEN Stop(a, "failed")
         ELSE IF ~Protects(op) /\ ((Checks(op) /\ acl # op.sheet) \/ RefusesAcl(acl, op.remove, Adds(op)))
         THEN Stop(a, "refused")
         ELSE Ready(a, [op EXCEPT !.acl = acl, !.next = next])
  BY ONLY <1>1, <1>3, AclRead(a) DEF AclRead, Protects
<1>5. Edits(op, op.todo) /\ op.result = "none" /\ Head(op.todo) = "acl" /\ op.todo # <<>>
  BY <1>1, <1>4, AtStepIs DEF AtStep, Working
<1>6. CASE Stop(a, "failed") \/ Stop(a, "refused")
  BY <1>6, StopEdits
<1>7. CASE ~(Stop(a, "failed") \/ Stop(a, "refused"))
  <2>1. /\ op.dn \in Dns /\ Ready(a, [op EXCEPT !.acl = acl, !.next = next])
        /\ ~Protects(op) => ~(Checks(op) /\ acl # op.sheet) /\ ~RefusesAcl(acl, op.remove, Adds(op))
    BY <1>4, <1>7
  <2>2. PICK q : q = [op EXCEPT !.acl = acl, !.next = next]
    OBVIOUS
  <2>3. OpFields \subseteq DOMAIN op
    BY <1>5, EditsAre
  <2>4. Like(q, op) /\ q.acl = acl /\ q.next = next /\ q.given = op.given /\ q.todo = op.todo /\ q.result = op.result
    BY ONLY <2>2, <2>3 DEF Like, OpFields
  <2>5. Sound(acl)
    BY <1>1, <2>1 DEF EntriesInv, AclOf
  <2>6. ASSUME Len(op.todo) > 1
        PROVE  Edits(q, Tail(q.todo))
    <3>1. Sound(next) /\ (op.do = "change acl" => Makes(op.remove, op.add, op.sheet, acl, next))
      <4>1. CASE Protects(op)
        <5>1. (op.protect = "yes") \in BOOLEAN
          OBVIOUS
        <5>2. Sound(SetProtection(acl, op.protect = "yes"))
          BY ONLY <2>5, <5>1, SetProtectionSound
        <5>3. op.do # "change acl" /\ next = SetProtection(acl, op.protect = "yes")
          BY ONLY <1>3, <4>1 DEF Protects
        <5> QED
          BY ONLY <5>2, <5>3
      <4>2. CASE ~Protects(op)
        <5>1. PICK add : add = Adds(op)
          OBVIOUS
        <5>2. add \in Seq(TAce)
          <6>1. op.add \in Seq(TAce) /\ Len(op.add) \in Nat
            BY <1>5, EditsAre
          <6>2. CASE op.do = "delegate"
            <7>1. Stage("delegate", op.todo, op.given, op.remove, op.add, op.sheet, op.acl, op.next)
              BY <1>5, <6>2, EditsAre
            <7>2. Len(op.todo) > 0
              <8>1. op.todo \in Seq({"acl", "write"})
                BY ONLY <7>1 DEF Stage, Paired
              <8> QED
                BY ONLY <1>5, <8>1, EmptySeq
            <7>3. op.given + 1 \in 1..Len(op.add)
              BY ONLY <1>5, <6>1, <7>1, <7>2, StageLeft
            <7>4. PICK ace \in TAce : ace = op.add[op.given + 1]
              BY ONLY <6>1, <7>3
            <7>5. add = <<ace>>
              BY ONLY <5>1, <6>2, <7>4 DEF Adds
            <7> QED
              BY ONLY <7>4, <7>5
          <6>3. CASE op.do # "delegate"
            BY <5>1, <6>1, <6>3 DEF Adds
          <6> QED
            BY <6>2, <6>3
        <5>3. acl \in Seq(TAce) /\ ~RefusesAcl(acl, op.remove, add) /\ next = ChangeAcl(acl, op.remove, add)
          BY ONLY <1>3, <2>1, <2>5, <4>2, <5>1 DEF Sound
        <5>4. Fresh(Without(acl, op.remove), add)
          BY ONLY <5>2, <5>3, AcceptedFresh
        <5>5. PICK m : Built(next, Without(acl, op.remove), add, Len(add), m)
          BY ONLY <2>5, <5>2, <5>3, <5>4, ChangeAclBuilt
        <5>6. Sound(next)
          BY ONLY <5>5 DEF Built
        <5>7. ASSUME op.do = "change acl" PROVE Makes(op.remove, op.add, op.sheet, acl, next)
          <6>1. Checks(op) /\ add = op.add
            BY ONLY <5>1, <5>7 DEF Checks, Adds
          <6>2. acl = op.sheet
            BY ONLY <2>1, <4>2, <6>1
          <6> QED
            BY ONLY <5>3, <6>1, <6>2 DEF Makes
        <5> QED
          BY ONLY <5>6, <5>7
      <4> QED
        BY <4>1, <4>2
    <3> QED
      BY ONLY <1>5, <2>4, <2>6, <3>1, EditsRead
  <2>7. Len(q.todo) > 1 => Edits(q, Tail(q.todo))
    BY ONLY <2>4, <2>6
  <2> QED
    BY <1>5, <2>1, <2>2, <2>4, <2>7, ReadyEdits
<1> QED
  BY <1>6, <1>7

LEMMA AclWriteEdits ==
  ASSUME EditsInv, NEW a \in TAdmin, AclWrite(a)
  PROVE  EditsInv'
<1>1. PICK op : op = working[a]
  OBVIOUS
<1>2. Edits(op, op.todo) /\ op.result = "none" /\ Head(op.todo) = "write" /\ Like(op, op)
  BY <1>1, AtStepIs DEF AclWrite, AtStep
<1>3. OpFields \subseteq DOMAIN op
  BY <1>2, EditsAre
<1>4. Stop(a, "failed") \/ \E q : Ready(a, q) /\ q \in {op, [op EXCEPT !.given = @ + 1]}
  BY <1>1 DEF AclWrite
<1>5. ASSUME NEW q, Ready(a, q), q \in {op, [op EXCEPT !.given = @ + 1]}
      PROVE  EditsInv'
  <2>1. /\ Like(q, op) /\ q.acl = op.acl /\ q.next = op.next /\ q.todo = op.todo /\ q.result = op.result
        /\ q.given \in {op.given, op.given + 1}
    <3>1. CASE q = op
      BY ONLY <1>2, <3>1
    <3>2. CASE q # op
      <4>1. PICK since : since = op.given + 1
        OBVIOUS
      <4>2. q = [op EXCEPT !.given = since]
        BY ONLY <1>5, <3>2, <4>1
      <4>3. Like(q, op) /\ q.acl = op.acl /\ q.next = op.next /\ q.todo = op.todo /\ q.result = op.result /\ q.given = since
        BY ONLY <1>3, <4>2 DEF Like, OpFields
      <4> QED
        BY ONLY <4>1, <4>3
    <3> QED
      BY <3>1, <3>2
  <2>2. ASSUME Len(op.todo) > 1 PROVE Edits(q, Tail(q.todo))
    BY ONLY <1>2, <2>1, <2>2, EditsWrite
  <2>3. Len(q.todo) > 1 => Edits(q, Tail(q.todo))
    BY ONLY <2>1, <2>2
  <2> QED
    BY <1>2, <1>5, <2>1, <2>3, ReadyEdits
<1> QED
  BY <1>4, <1>5, StopEdits

(* What an operation sets out with.                                        *)
LEMMA Plans ==
  ASSUME NEW r \in TRequest
  PROVE  /\ r.do = "change acl" => TPlan(r) = <<"acl", "write">>
         /\ r.do = "delegate" => TPlan(r) = [i \in 1..2 * Len(r.add) |-> IF i % 2 = 1 THEN "acl" ELSE "write"]
         /\ r.do = "delete ou" => TPlan(r) = <<"unprotected">> \o (IF r.recursive THEN <<>> ELSE <<"empty">>)
                                               \o <<"entry", "delete">>
<1>1. r.do \in {"create ou", "create computer", "update", "attributes", "protect", "delete ou", "delete", "move",
                "rename", "add ace", "remove ace", "change acl", "delegate"}
  BY DEF TRequest
<1>2. CASE r.do = "change acl"
  BY <1>2 DEF TPlan
<1>3. CASE r.do = "delegate"
  BY <1>3 DEF TPlan
<1>4. CASE r.do = "delete ou"
  BY <1>4 DEF TPlan
<1> QED
  BY <1>2, <1>3, <1>4

LEMMA BeginEdits ==
  ASSUME EditsInv, EntriesInv, NEW a \in TAdmin, TBegin(a)
  PROVE  EditsInv'
<1>1. PICK r \in TAsked :
        working' = [working EXCEPT ![a] = Extended(r,
          [todo |-> TPlan(r), result |-> "none", sheet |-> AclOf(r.dn), acl |-> <<>>, next |-> <<>>,
           given |-> 0, added |-> FALSE])]
  BY DEF TBegin
<1>2. r \in TRequest
  BY TreeConstants
<1>3. /\ DOMAIN r = {"do", "dn", "to", "value", "protect", "recursive", "confirm", "remove", "add"}
      /\ r.value \in BOOLEAN /\ r.add \in Seq(TAce)
  BY ONLY <1>2 DEF TRequest
<1>4. PICK todo, sheet : todo = TPlan(r) /\ sheet = AclOf(r.dn)
  OBVIOUS
<1>5. PICK x : x = Extended(r, [todo |-> todo, result |-> "none", sheet |-> sheet, acl |-> <<>>, next |-> <<>>,
                                given |-> 0, added |-> FALSE])
  OBVIOUS
<1>6. /\ OpFields \subseteq DOMAIN x /\ x.do = r.do /\ x.value = r.value /\ x.remove = r.remove /\ x.add = r.add
      /\ x.todo = todo /\ x.result = "none" /\ x.sheet = sheet /\ x.acl = <<>> /\ x.next = <<>> /\ x.given = 0
  BY ONLY <1>3, <1>5 DEF Extended, OpFields
<1>7. Sound(<<>>)
  BY DEF Sound, InOrder, SaysOnce
<1>8. Sound(sheet)
  BY <1>4, <1>7 DEF AclOf, EntriesInv
<1>9. Stage(r.do, todo, 0, r.remove, r.add, sheet, <<>>, <<>>)
  <2>1. ASSUME r.do = "change acl" PROVE Changing(todo, r.remove, r.add, sheet, <<>>, <<>>)
    BY <1>2, <1>4, <2>1, Plans DEF Changing
  <2>2. ASSUME r.do = "delegate" PROVE Paired(todo, 0, Len(r.add))
    <3>1. todo = [i \in 1..2 * Len(r.add) |-> IF i % 2 = 1 THEN "acl" ELSE "write"]
      BY <1>2, <1>4, <2>2, Plans
    <3>2. Len(r.add) \in Nat
      BY ONLY <1>3
    <3> QED
      BY ONLY <3>1, <3>2, PairedFirst
  <2>3. ASSUME r.do = "delete ou" PROVE Deleting(todo, <<>>)
    <3>1. todo = <<"unprotected">> \o (IF r.recursive THEN <<>> ELSE <<"empty">>) \o <<"entry", "delete">>
      BY <1>2, <1>4, <2>3, Plans
    <3>2. todo \in Seq({"unprotected", "empty", "entry", "delete"})
      <4>1. PICK m : m = IF r.recursive THEN <<>> ELSE <<"empty">>
        OBVIOUS
      <4>3. m = <<>> \/ m = <<"empty">>
        BY ONLY <4>1
      <4>4. m \in Seq({"unprotected", "empty", "entry", "delete"})
        BY ONLY <4>3, FewIn
      <4>2. todo = <<"unprotected">> \o m \o <<"entry", "delete">>
        BY ONLY <3>1, <4>1
      <4> QED
        BY ONLY <4>2, <4>4
    <3>3. "protect" \notin ToSet(<<>>)
      BY DEF ToSet
    <3> QED
      BY ONLY <3>2, <3>3 DEF Deleting
  <2> QED
    BY ONLY <2>1, <2>2, <2>3 DEF Stage
<1>10. Edits(x, x.todo)
  BY ONLY <1>3, <1>6, <1>7, <1>8, <1>9 DEF Edits
<1>11. DOMAIN working' = TAdmin /\ working'[a] = x /\ \A b \in TAdmin \ {a} : working'[b] = working[b]
  <2>1. working' = [working EXCEPT ![a] = x] /\ DOMAIN working = TAdmin
    BY <1>1, <1>4, <1>5 DEF EditsInv
  <2> QED
    BY ONLY <2>1, a \in TAdmin
<1>12. ASSUME NEW b \in TAdmin
       PROVE  /\ working'[b].result \in {"none", "ok", "refused", "failed", "unprotected"}
              /\ working'[b].todo # <<>> => Edits(working'[b], working'[b].todo)
  <2>1. CASE b = a
    BY ONLY <1>6, <1>10, <1>11, <2>1
  <2>2. CASE b # a
    <3>1. working'[b] = working[b]
      BY ONLY <1>11, <2>2, b \in TAdmin
    <3>2. /\ working[b].result \in {"none", "ok", "refused", "failed", "unprotected"}
          /\ working[b].todo # <<>> => Edits(working[b], working[b].todo)
      BY DEF EditsInv, Working
    <3> QED
      BY ONLY <3>1, <3>2
  <2> QED
    BY <2>1, <2>2
<1> QED
  BY <1>11, <1>12 DEF EditsInv, Working

(***************************************************************************)
(* What the requests make of the entries                                   *)
(***************************************************************************)
LEMMA BelowLike ==
  ASSUME NEW new \in Path, NEW old \in Path, NEW d \in Path, IsPrefix(old, d)
  PROVE  \A i \in 1..Len(new) : Below(new, old, d)[i] = new[i]
  BY BelowIs

LEMMA BelowRest ==
  ASSUME NEW new \in Path, NEW old \in Path, NEW d \in Path, IsPrefix(old, d)
  PROVE  \A i \in 1..Len(d) - Len(old) : Below(new, old, d)[Len(new) + i] = d[Len(old) + i]
  BY BelowIs

(* Calling a name what it was called gives it back.                        *)
LEMMA BelowBack ==
  ASSUME NEW old \in Path, NEW new \in Path, NEW d \in Path, IsPrefix(old, d), NEW dn, dn = Below(new, old, d)
  PROVE  IsPrefix(new, dn) /\ Below(old, new, dn) = d
<1>10. dn \in Path /\ IsPrefix(new, dn)
  BY BelowIs
<1>11. Len(dn) = Len(new) + (Len(d) - Len(old))
  BY BelowIs
<1>12. \A i \in 1..Len(d) - Len(old) : dn[Len(new) + i] = d[Len(old) + i]
  <2>1. \A i \in 1..Len(d) - Len(old) : Below(new, old, d)[Len(new) + i] = d[Len(old) + i]
    BY BelowRest
  <2> QED
    BY <2>1
<1>2. PICK back : back = Below(old, new, dn)
  OBVIOUS
<1>13. back \in Path
  BY <1>10, <1>2, BelowIs
<1>14. Len(back) = Len(old) + (Len(dn) - Len(new))
  BY <1>10, <1>2, BelowIs
<1>16. \A i \in 1..Len(old) : back[i] = old[i]
  <2>1. \A i \in 1..Len(old) : Below(old, new, dn)[i] = old[i]
    BY <1>10, BelowLike
  <2> QED
    BY <1>2, <2>1
<1>15. \A i \in 1..Len(dn) - Len(new) : back[Len(old) + i] = dn[Len(new) + i]
  <2>1. \A i \in 1..Len(dn) - Len(new) : Below(old, new, dn)[Len(old) + i] = dn[Len(new) + i]
    BY <1>10, BelowRest
  <2> QED
    BY <1>2, <2>1
<1>4. old \in Seq(STRING) /\ d \in Seq(STRING) /\ back \in Seq(STRING) /\ new \in Seq(STRING)
  BY <1>13 DEF Path
<1>5. Len(old) \in Nat /\ Len(new) \in Nat /\ Len(d) \in Nat
  BY ONLY <1>4
<1>6. Len(old) <= Len(d) /\ \A i \in 1..Len(old) : old[i] = d[i]
  BY <1>4, PrefixIs
<1>7. Len(back) = Len(d)
  BY ONLY <1>11, <1>14, <1>5
<1>8. ASSUME NEW i \in 1..Len(back) PROVE back[i] = d[i]
  <2>1. CASE i <= Len(old)
    <3>1. i \in 1..Len(old)
      BY ONLY <1>5, <1>7, <2>1, i \in 1..Len(back)
    <3> QED
      BY ONLY <1>16, <1>6, <3>1
  <2>2. CASE ~(i <= Len(old))
    <3>1. PICK j : j = i - Len(old)
      OBVIOUS
    <3>2. j \in 1..Len(d) - Len(old) /\ j \in 1..Len(dn) - Len(new) /\ i = Len(old) + j
      BY ONLY <1>11, <1>5, <1>6, <1>7, <2>2, <3>1, i \in 1..Len(back)
    <3>3. back[Len(old) + j] = dn[Len(new) + j] /\ dn[Len(new) + j] = d[Len(old) + j]
      BY ONLY <1>12, <1>15, <3>2
    <3> QED
      BY ONLY <3>2, <3>3
  <2> QED
    BY <2>1, <2>2
<1>9. back = d
  BY <1>4, <1>7, <1>8, SeqEqual
<1> QED
  BY <1>10, <1>2, <1>9

(* The entries a rename leaves are the ones there were.                    *)
LEMMA RenamedThere ==
  ASSUME Rooted(Dns), NEW old \in Dns, NEW new \in Path, new \notin Dns,
         NEW dn, dn \in Dns \/ \E d \in Carried(old) : dn = Below(new, old, d)
  PROVE  Renamed(dn, old, new) \in Dns
<1>1. old \in Path /\ \A d \in Dns : d \in Path
  BY DEF Rooted
<1>2. CASE dn \in Dns
  <2>1. ~IsPrefix(new, dn)
    BY <1>2, RootedUp
  <2> QED
    BY <1>2, <2>1 DEF Renamed
<1>3. CASE dn \notin Dns
  <2>1. PICK d \in Carried(old) : dn = Below(new, old, d)
    BY <1>3
  <2>2. d \in Dns /\ d \in Path /\ IsPrefix(old, d)
    BY <1>1 DEF Carried, Under
  <2>3. IsPrefix(new, dn) /\ Below(old, new, dn) = d
    BY <1>1, <2>1, <2>2, BelowBack
  <2> QED
    BY <2>2, <2>3 DEF Renamed
<1> QED
  BY <1>2, <1>3

LEMMA NewListSound ==
  Sound(<<"allow x", "inherited allow">>)
<1>1. PICK s : s = <<"allow x", "inherited allow">>
  OBVIOUS
<1>2. DOMAIN s = 1..2 /\ s[1] = "allow x" /\ s[2] = "inherited allow"
  BY ONLY <1>1, TwoLong
<1>3. "allow x" \in TAce /\ "inherited allow" \in TAce
  BY DEF TAce, Allow
<1>4. s \in Seq(TAce)
  BY ONLY <1>1, <1>3, FewIn
<1>10. DOMAIN s = 1..2
  BY <1>2
<1>9. \A i \in DOMAIN s : i = 1 \/ i = 2
  BY ONLY <1>10
<1>5. \A i \in DOMAIN s : s[i] \notin Deny
  BY ONLY <1>2, <1>9 DEF Deny
<1>6. InOrder(s)
  BY ONLY <1>5 DEF InOrder
<1>7. \A i, j \in DOMAIN s : s[i] = s[j] => i = j
  BY ONLY <1>2, <1>9
<1>8. SaysOnce(s)
  BY ONLY <1>7 DEF SaysOnce
<1> QED
  BY ONLY <1>1, <1>4, <1>6, <1>8 DEF Sound

LEMMA EntriesKeep ==
  ASSUME TInv, EntriesInv, EditsInv, NEW a \in TAdmin, TreeStep(a)
  PROVE  EntriesInv'
<1>1. PICK op : op = working[a]
  OBVIOUS
<1>2. CASE tree' = tree
  BY <1>2 DEF EntriesInv, Dns
<1>3. CASE tree' # tree
  <2>1. TAdd(a) \/ Text(a) \/ TDelete(a) \/ Rename(a) \/ AclWrite(a)
    BY <1>3 DEF TreeStep, TBegin, Parent, Free, Unprotected, Empty, EntryRead, AclRead, TLost
  <2>2. Working(a)
    BY <2>1 DEF TAdd, Text, TDelete, Rename, AclWrite, AtStep
  <2>3. op.value \in BOOLEAN /\ Sound(op.next)
    BY <1>1, <2>2, AtStepIs, EditsAre
  <2>4. op.dn \in Path /\ op.to \in Path
    BY <1>1, <2>2 DEF TInv, OpsInv, IsOperation
  <2>5. \A d \in DOMAIN tree : tree[d] \in Entry /\ Sound(tree[d].acl)
    BY DEF EntriesInv, Dns
  <2>6. ASSUME \A d \in DOMAIN tree' : tree'[d] \in Entry /\ Sound(tree'[d].acl) PROVE EntriesInv'
    BY <2>6 DEF EntriesInv, Dns
  <2>7. CASE TAdd(a)
    <3>1. tree' = Extended([dn \in {op.dn} |-> New(op)], tree)
      BY <1>1, <1>3, <2>7 DEF TAdd
    <3>2. New(op) \in Entry /\ Sound(New(op).acl)
      <4>1. <<"allow x", "inherited allow">> \in Seq(TAce)
        BY NewListSound DEF Sound
      <4>2. New(op).acl = <<"allow x", "inherited allow">>
        BY DEF New
      <4>3. New(op) \in Entry
        BY <4>1 DEF New, Entry, Kind
      <4> QED
        BY <4>2, <4>3, NewListSound
    <3>3. \A d \in DOMAIN tree' : tree'[d] = New(op) \/ (d \in DOMAIN tree /\ tree'[d] = tree[d])
      BY ONLY <3>1 DEF Extended
    <3> QED
      BY <2>5, <2>6, <3>2, <3>3
  <2>8. CASE Text(a)
    <3>1. tree' = [tree EXCEPT ![op.dn].text = op.value] /\ op.dn \in DOMAIN tree
      BY <1>1, <1>3, <2>8 DEF Text, Dns
    <3>2. PICK e : e = [tree[op.dn] EXCEPT !.text = op.value]
      OBVIOUS
    <3>3. e \in Entry /\ e.acl = tree[op.dn].acl
      <4>1. tree[op.dn] \in Entry
        BY ONLY <2>5, <3>1
      <4> QED
        BY ONLY <2>3, <3>2, <4>1 DEF Entry
    <3>4. \A d \in DOMAIN tree' : d \in DOMAIN tree /\ (tree'[d] = tree[d] \/ (d = op.dn /\ tree'[d] = e))
      BY ONLY <3>1, <3>2
    <3> QED
      BY <2>5, <2>6, <3>3, <3>4
  <2>9. CASE TDelete(a)
    <3>1. tree' = Restrict(tree, Dns \ Under(op.dn))
      BY <1>1, <1>3, <2>9 DEF TDelete
    <3>2. \A d \in DOMAIN tree' : d \in DOMAIN tree /\ tree'[d] = tree[d]
      BY ONLY <3>1 DEF Restrict, Dns
    <3> QED
      BY <2>5, <2>6, <3>2
  <2>10. CASE Rename(a)
    <3>1. PICK old, new : old = op.dn /\ new = NewName(op)
      OBVIOUS
    <3>2. /\ old \in Dns /\ new \notin Dns
          /\ tree' = [dn \in (Dns \ Carried(old)) \cup {Below(new, old, d) : d \in Carried(old)}
                        |-> tree[Renamed(dn, old, new)]]
      BY <1>1, <1>3, <2>10, <3>1 DEF Rename
    <3>3. new \in Path
      <4>1. old \in Seq(STRING) /\ op.to \in Seq(STRING) /\ Len(old) \in 1..Len(old)
        BY <2>4, <3>1, EmptySeq DEF Path
      <4>2. Last(old) \in STRING
        BY <4>1 DEF Last
      <4>3. Append(op.to, Last(old)) \in Path
        BY <4>1, <4>2, AppendProperties DEF Path
      <4> QED
        BY <2>4, <3>1, <4>3 DEF NewName
    <3>4. ASSUME NEW d \in DOMAIN tree'
          PROVE  Renamed(d, old, new) \in DOMAIN tree /\ tree'[d] = tree[Renamed(d, old, new)]
      <4>1. d \in (Dns \ Carried(old)) \cup {Below(new, old, e) : e \in Carried(old)}
        BY ONLY <3>2, d \in DOMAIN tree'
      <4>2. tree'[d] = tree[Renamed(d, old, new)]
        BY ONLY <3>2, <4>1
      <4>4. d \in Dns \/ \E e \in Carried(old) : d = Below(new, old, e)
        BY ONLY <4>1
      <4>3. Renamed(d, old, new) \in Dns
        BY <3>2, <3>3, <4>4, RenamedThere DEF TInv
      <4> QED
        BY <4>2, <4>3 DEF Dns
    <3> QED
      BY <2>5, <2>6, <3>4
  <2>11. CASE AclWrite(a)
    <3>1. tree' = [tree EXCEPT ![op.dn].acl = op.next] /\ op.dn \in DOMAIN tree
      BY <1>1, <1>3, <2>11 DEF AclWrite, Dns
    <3>2. PICK e : e = [tree[op.dn] EXCEPT !.acl = op.next]
      OBVIOUS
    <3>3. e \in Entry /\ e.acl = op.next
      <4>1. tree[op.dn] \in Entry /\ op.next \in Seq(TAce)
        BY <2>3, <2>5, <3>1 DEF Sound
      <4> QED
        BY ONLY <3>2, <4>1 DEF Entry
    <3>4. \A d \in DOMAIN tree' : d \in DOMAIN tree /\ (tree'[d] = tree[d] \/ (d = op.dn /\ tree'[d] = e))
      BY ONLY <3>1, <3>2
    <3> QED
      BY <2>3, <2>5, <2>6, <3>3, <3>4
  <2> QED
    BY <2>1, <2>7, <2>8, <2>9, <2>10, <2>11
<1> QED
  BY <1>2, <1>3

(***************************************************************************)
(* The lists and what is done with them                                    *)
(***************************************************************************)
LEMMA OthersStay ==
  ASSUME DOMAIN working = TAdmin, NEW a \in TAdmin, NEW b \in TAdmin \ {a}, TreeStep(a)
  PROVE  working'[b] = working[b]
<1>1. \E x : working' = [working EXCEPT ![a] = x]
  BY DEF TreeStep, TBegin, Parent, Free, TAdd, Text, Unprotected, Empty, EntryRead, TDelete, Rename, AclRead,
         AclWrite, TLost, IfElse, Ready, Stop
<1> QED
  BY <1>1

LEMMA ListsNext ==
  ASSUME ListsInv, [TreeNext]_treeVars
  PROVE  ListsInv'
<1>1. TInv'
  BY TreeNextKeeps DEF ListsInv
<1>2. CASE UNCHANGED treeVars
  BY <1>1, <1>2 DEF ListsInv, EntriesInv, EditsInv, Working, Dns, treeVars
<1>3. ASSUME NEW a \in TAdmin, TreeStep(a)
      PROVE  ListsInv'
  <2>1. EntriesInv'
    BY <1>3, EntriesKeep DEF ListsInv
  <2>2. EditsInv'
    <3>1. EditsInv /\ EntriesInv
      BY DEF ListsInv
    <3>2. CASE TBegin(a)
      BY <3>1, <3>2, BeginEdits
    <3>3. CASE AclRead(a)
      BY <3>1, <3>3, AclReadEdits
    <3>4. CASE AclWrite(a)
      BY <3>1, <3>4, AclWriteEdits
    <3>5. CASE ~(TBegin(a) \/ AclRead(a) \/ AclWrite(a))
      BY <1>3, <3>1, <3>5, OthersEdits DEF TreeStep
    <3> QED
      BY <3>2, <3>3, <3>4, <3>5
  <2>3. treeOps' \in 0..MaxTreeOps
    <3>1. treeOps \in 0..MaxTreeOps /\ MaxTreeOps \in Nat
      BY TreeConstants DEF ListsInv
    <3>2. treeOps' = treeOps \/ (treeOps < MaxTreeOps /\ treeOps' = treeOps + 1)
      BY <1>3 DEF TreeStep, TBegin, Parent, Free, TAdd, Text, Unprotected, Empty, EntryRead, TDelete, Rename, AclRead,
         AclWrite, TLost
    <3> QED
      BY ONLY <3>1, <3>2
  <2> QED
    BY <1>1, <2>1, <2>2, <2>3 DEF ListsInv
<1> QED
  BY <1>2, <1>3 DEF TreeNext

LEMMA ListsInit == TreeInit => ListsInv
<1> SUFFICES ASSUME TreeInit PROVE ListsInv
  OBVIOUS
<1>1. TInv
  BY TreeConstants DEF TreeInit, TInv, OpsInv, Working, Idle, Dns
<1>2. EntriesInv
  <2>1. ASSUME NEW dn \in DOMAIN Planted
        PROVE  Planted[dn] \in Entry /\ Sound(Planted[dn].acl)
    <3>1. Planted[dn] \in Entry
      BY TreeConstants
    <3>2. Planted[dn].acl \in Seq(TAce)
      BY ONLY <3>1 DEF Entry
    <3> QED
      BY <3>1, <3>2, PlantedLists DEF Sound
  <2> QED
    BY <2>1 DEF TreeInit, EntriesInv, Dns
<1>3. EditsInv
  BY DEF TreeInit, EditsInv, Working, Idle
<1>4. treeOps \in 0..MaxTreeOps
  BY TreeConstants DEF TreeInit
<1> QED
  BY <1>1, <1>2, <1>3, <1>4 DEF ListsInv

(* Whatever the sessions ask for, every entry stays one and its list in    *)
(* order and without repetition, and every operation that edits a list     *)
(* knows what it read.                                                     *)
THEOREM ListsKept == TreeSpec => []ListsInv
<1>1. TreeInit => ListsInv
  BY ListsInit
<1>2. ListsInv /\ [TreeNext]_treeVars => ListsInv'
  BY ListsNext
<1> QED
  BY <1>1, <1>2, PTL DEF TreeSpec

(* Every access list has its explicit denies ahead of its allows and no    *)
(* explicit entry twice, whichever edits of any number of sessions cross   *)
(* (add_ace, change_acl, set_delete_protection, delegate).                 *)
THEOREM AclSoundHolds == TreeSpec => []AclSound
<1>1. ListsInv => AclSound
  BY DEF ListsInv, EntriesInv, Sound, AclSound, DenyAhead, NoEntryTwice
<1> QED
  BY <1>1, ListsKept, PTL

(* The names make a tree, the entries are entries and every operation ends *)
(* in one of its results.                                                  *)
THEOREM TreeTyped == TreeSpec => []TreeTypeOK
<1>1. ListsInv => TreeTypeOK
  BY DEF ListsInv, TInv, EntriesInv, EditsInv, TreeTypeOK
<1> QED
  BY <1>1, ListsKept, PTL

LEMMA WrittenStep ==
  ASSUME ListsInv, TreeNext
  PROVE  WrittenAsShown
<1> SUFFICES ASSUME NEW a \in TAdmin, Does(a, "write"), working[a].do = "change acl", tree' # tree
             PROVE  WrittenFrom(tree'[working[a].dn].acl, working[a].sheet, working[a].remove, working[a].add)
  BY DEF WrittenAsShown, WrittenFrom
<1>1. PICK op : op = working[a]
  OBVIOUS
<1>2. EditsInv /\ EntriesInv /\ DOMAIN working = TAdmin
  BY DEF ListsInv, EditsInv
<1>3. TreeStep(a)
  <2>1. PICK b \in TAdmin : TreeStep(b)
    BY DEF TreeNext
  <2>2. working'[a] # working[a]
    BY DEF Does
  <2>3. b = a
    BY <1>2, <2>1, <2>2, OthersStay
  <2> QED
    BY <2>1, <2>3
<1>4. Working(a) /\ Head(op.todo) = "write"
  BY <1>1 DEF Does, AtStep
<1>5. AclWrite(a)
  BY <1>1, <1>3, <1>4 DEF TreeStep, TBegin, Parent, Free, TAdd, Text, Unprotected, Empty, EntryRead, TDelete, Rename,
                          AclRead, TLost, AtStep
<1>6. tree' = [tree EXCEPT ![op.dn].acl = op.next] /\ op.dn \in DOMAIN tree
  BY <1>1, <1>5 DEF AclWrite, Dns
<1>7. tree'[op.dn].acl = op.next
  <2>1. tree[op.dn] \in Entry
    BY <1>2, <1>6 DEF EntriesInv, Dns
  <2> QED
    BY ONLY <1>6, <2>1 DEF Entry
<1>8. /\ op.add \in Seq(TAce) /\ Sound(op.sheet)
      /\ Stage("change acl", op.todo, op.given, op.remove, op.add, op.sheet, op.acl, op.next)
  BY <1>1, <1>2, <1>4, AtStepIs, EditsAre
<1>9. Changing(op.todo, op.remove, op.add, op.sheet, op.acl, op.next)
  BY ONLY <1>8 DEF Stage
<1>10. op.next = ChangeAcl(op.sheet, op.remove, op.add) /\ ~RefusesAcl(op.sheet, op.remove, op.add)
  <2>1. CASE op.todo = <<"acl", "write">>
    <3>1. Head(op.todo) = "acl"
      BY ONLY <2>1, TwoSteps
    <3> QED
      BY ONLY <1>4, <3>1
  <2> QED
    BY ONLY <1>9, <2>1 DEF Changing
<1>11. WrittenFrom(ChangeAcl(op.sheet, op.remove, op.add), op.sheet, op.remove, op.add)
  BY ONLY <1>8, <1>10, ChangeWritten
<1> QED
  BY ONLY <1>1, <1>7, <1>10, <1>11

LEMMA TakenStep ==
  ASSUME ListsInv, TreeNext
  PROVE  UnitTaken
<1> SUFFICES ASSUME NEW a \in TAdmin, Does(a, "delete"), working[a].do = "delete ou",
                    working[a].dn \in Dns, working[a].dn \notin Dns'
             PROVE  /\ ~working[a].recursive => Dns' = Dns \ {working[a].dn}
                    /\ "protect" \notin ToSet(working[a].acl)
  BY DEF UnitTaken
<1>1. PICK op : op = working[a]
  OBVIOUS
<1>2. EditsInv /\ DOMAIN working = TAdmin /\ Rooted(Dns)
  BY DEF ListsInv, EditsInv, TInv
<1>3. TreeStep(a)
  <2>1. PICK b \in TAdmin : TreeStep(b)
    BY DEF TreeNext
  <2>2. working'[a] # working[a]
    BY DEF Does
  <2>3. b = a
    BY <1>2, <2>1, <2>2, OthersStay
  <2> QED
    BY <2>1, <2>3
<1>4. Working(a) /\ Head(op.todo) = "delete"
  BY <1>1 DEF Does, AtStep
<1>5. TDelete(a) \/ tree' = tree
  BY <1>1, <1>3, <1>4 DEF TreeStep, TBegin, Parent, Free, TAdd, Text, Unprotected, Empty, EntryRead, AclWrite, Rename,
                          AclRead, TLost, AtStep
<1>6. tree' # tree
  BY DEF Dns
<1>7. tree' = Restrict(tree, Dns \ Under(op.dn)) /\ (op.recursive \/ Children(op.dn) = {})
  BY <1>1, <1>5, <1>6 DEF TDelete
<1>8. Dns' = Dns \ Under(op.dn)
  BY ONLY <1>7 DEF Restrict, Dns
<1>9. ASSUME ~op.recursive PROVE Dns' = Dns \ {op.dn}
  <2>1. Under(op.dn) \subseteq {op.dn}
    BY <1>1, <1>2, <1>7, <1>9, ChildBetween
  <2> QED
    BY <1>1, <1>8, <2>1
<1>10. Stage("delete ou", op.todo, op.given, op.remove, op.add, op.sheet, op.acl, op.next)
  BY <1>1, <1>2, <1>4, AtStepIs, EditsAre
<1>11. "protect" \notin ToSet(op.acl)
  BY ONLY <1>10 DEF Stage, Deleting
<1> QED
  BY <1>1, <1>9, <1>11

(* A change of several entries writes the list its sheet was shown with    *)
(* the change made, and "delete OU" takes no unit whose protection it read *)
(* and, without recursion, nothing else (change_acl, delete_ou).           *)
THEOREM DoneAsShownHolds == TreeSpec => DoneAsShown
<1>1. ListsInv /\ [TreeNext]_treeVars => [WrittenAsShown /\ UnitTaken]_treeVars
  BY WrittenStep, TakenStep
<1> QED
  BY <1>1, ListsKept, PTL DEF TreeSpec, DoneAsShown

---------------------------------------------------------------------------
(* Sites                                                                   *)
(***************************************************************************)
(* The invariant                                                           *)
(***************************************************************************)
SiteIdsOf(t) == {t.sites[n].id : n \in DOMAIN t.sites}
(* The partition t, with m sites made so far: every site has an id of its  *)
(* own, every server is in a site's container, every reference leads to a  *)
(* site that is there.                                                     *)
Fields(t) ==
  /\ {"sites", "servers", "subnets", "links", "suffixes"} \subseteq DOMAIN t
  /\ \A n \in DOMAIN t.sites : {"id", "settings", "servers"} \subseteq DOMAIN t.sites[n]
  /\ \A k \in DOMAIN t.links : "sites" \in DOMAIN t.links[k]
Numbered(t, m) ==
  /\ \A n \in DOMAIN t.sites : t.sites[n].id \in 1..m
  /\ \A n, o \in DOMAIN t.sites : t.sites[n].id = t.sites[o].id => n = o
Contained(t) ==
  \A p \in t.servers : /\ p \in Server \X Int
                       /\ \E n \in DOMAIN t.sites : t.sites[n].id = p[2] /\ t.sites[n].servers
Referred(t) ==
  /\ \A n \in DOMAIN t.subnets : t.subnets[n] \in {NoSite} \cup SiteIdsOf(t)
  /\ \A k \in DOMAIN t.links : t.links[k].sites \subseteq SiteIdsOf(t)
TopoSound(t, m) == Fields(t) /\ Numbered(t, m) /\ Contained(t) /\ Referred(t)

(* The servers and the subnets of the site a name leads to in t.           *)
ServersIn(t, dn) ==
  {s \in Server : /\ SiteName[dn] \in DOMAIN t.sites /\ t.sites[SiteName[dn]].servers
                  /\ <<s, t.sites[SiteName[dn]].id>> \in t.servers}
SubnetsIn(t, dn) ==
  {n \in DOMAIN t.subnets : SiteName[dn] \in DOMAIN t.sites /\ t.subnets[n] = t.sites[SiteName[dn]].id}

Step == {"site free", "site add", "settings add", "servers add", "site rename", "site there", "no servers",
         "no subnets", "site delete", "server there", "container there", "server free", "server move",
         "subnet free", "subnet there", "subnet write", "subnet delete", "link free", "link there",
         "link write", "link delete", "suffixes write"}
Decisive == {"site delete", "link write"}
(* What is left of a plan: the site is deleted by a deletion, a link       *)
(* written by a request about a link.                                      *)
Fit(x, do) ==
  /\ x \in Step \X SiteDn
  /\ x[1] = "site delete" => do = "delete site"
  /\ x[1] = "link write" => do \in {"create link", "update link"}
Bound(s, do) == s \in Seq(Step \X SiteDn) /\ \A i \in 1..Len(s) : Fit(s[i], do)
IsOrder(op) ==
  /\ {"do", "site", "to", "server", "subnet", "link", "assign", "clear", "members", "cost", "interval",
      "todo", "result", "nth", "alone"} \subseteq DOMAIN op
  /\ op.site \in SiteDn /\ op.to \in SiteDn /\ op.server \in Server /\ op.members \in Seq(SiteDn)
  /\ op.nth \in Nat
  /\ Bound(op.todo, op.do)
  /\ op.do \in {"create link", "update link"} => Cardinality(Members(op.members)) >= 2

(* The request of a deletion that is due when n are left.                  *)
DueOf(n) == IF n = 4 THEN "site there" ELSE IF n = 3 THEN "no servers" ELSE IF n = 2 THEN "no subnets" ELSE "site delete"
(* What is left of a deletion that no other session crosses: what it has   *)
(* learnt so far still holds.                                              *)
Emptied(t, todo, dn) ==
  /\ Len(todo) \in 1..4
  /\ \A i \in 1..Len(todo) : todo[i][1] = DueOf(Len(todo) + 1 - i) /\ todo[i][2] = dn
  /\ Len(todo) <= 2 => ServersIn(t, dn) = {}
  /\ Len(todo) <= 1 => SubnetsIn(t, dn) = {}

OrdersSound ==
  /\ DOMAIN order = SAdmin
  /\ \A a \in SAdmin : Ordered(a) => IsOrder(order[a]) /\ order[a].nth <= siteOps
Crossed ==
  \A a \in SAdmin : Ordered(a) /\ SUndisturbed(a) =>
    /\ \A b \in SAdmin \ {a} : ~Ordered(b)
    /\ order[a].do = "delete site" => Emptied(topo, order[a].todo, order[a].site)
SInv ==
  /\ made \in Nat /\ siteOps \in Nat
  /\ TopoSound(topo, made) /\ OrdersSound /\ Crossed

(***************************************************************************)
(* What the changes make of the partition                                  *)
(***************************************************************************)
(* A partition with other sites and the rest as it was.                    *)
LEMMA SitesAre ==
  ASSUME NEW t, NEW m, TopoSound(t, m), NEW f, NEW u, u = [t EXCEPT !.sites = f]
  PROVE  /\ u.sites = f /\ u.servers = t.servers /\ u.subnets = t.subnets /\ u.links = t.links
         /\ {"sites", "servers", "subnets", "links", "suffixes"} \subseteq DOMAIN u
  BY DEF TopoSound, Fields

(* A new site, with the next number.                                       *)
LEMMA AddSound ==
  ASSUME NEW t, NEW m \in Nat, TopoSound(t, m), NEW n, n \notin DOMAIN t.sites, NEW u,
         u = [t EXCEPT !.sites = Set(@, n, [id |-> m + 1, settings |-> FALSE, servers |-> FALSE])]
  PROVE  TopoSound(u, m + 1)
<1> DEFINE new == [id |-> m + 1, settings |-> FALSE, servers |-> FALSE]
<1>1. PICK f : f = Set(t.sites, n, new)
  OBVIOUS
<1>2. u = [t EXCEPT !.sites = f]
  BY <1>1 DEF TopoSound, Fields
<1>3. /\ u.sites = f /\ u.servers = t.servers /\ u.subnets = t.subnets /\ u.links = t.links
      /\ {"sites", "servers", "subnets", "links", "suffixes"} \subseteq DOMAIN u
  BY <1>2, SitesAre
<1>4. DOMAIN f = DOMAIN t.sites \cup {n} /\ f[n] = new /\ \A y \in DOMAIN t.sites : f[y] = t.sites[y]
  BY <1>1 DEF Set
<1>5. /\ Fields(t)
      /\ \A k \in DOMAIN t.sites : t.sites[k].id \in 1..m
      /\ \A k, o \in DOMAIN t.sites : t.sites[k].id = t.sites[o].id => k = o
      /\ Contained(t) /\ Referred(t)
  BY DEF TopoSound, Numbered
<1>6. \A k \in DOMAIN f : {"id", "settings", "servers"} \subseteq DOMAIN f[k]
  BY <1>4, <1>5 DEF Fields
<1>7. \A k \in DOMAIN f : f[k].id \in 1..(m + 1)
  BY <1>4, <1>5
<1>8. \A k, o \in DOMAIN f : f[k].id = f[o].id => k = o
  BY <1>4, <1>5
<1>9. Contained(u)
  BY <1>3, <1>4, <1>5 DEF Contained
<1>10. SiteIdsOf(t) \subseteq SiteIdsOf(u)
  BY <1>3, <1>4 DEF SiteIdsOf
<1>11. Referred(u)
  BY <1>3, <1>5, <1>10 DEF Referred
<1>12. Fields(u)
  BY <1>3, <1>5, <1>6 DEF Fields
<1>13. Numbered(u, m + 1)
  BY <1>3, <1>7, <1>8 DEF Numbered
<1> QED
  BY <1>9, <1>11, <1>12, <1>13 DEF TopoSound

(* A site gets its settings or its container.                              *)
LEMMA FlagSound ==
  ASSUME NEW t, NEW m \in Nat, TopoSound(t, m), NEW n \in DOMAIN t.sites, NEW u,
         \/ u = [t EXCEPT !.sites[n].settings = TRUE]
         \/ u = [t EXCEPT !.sites[n].servers = TRUE]
  PROVE  TopoSound(u, m)
<1>1. Fields(t) /\ Numbered(t, m) /\ Contained(t) /\ Referred(t)
  BY DEF TopoSound
<1>2. PICK f : f = u.sites
  OBVIOUS
<1>3. u = [t EXCEPT !.sites = f]
  BY <1>1, <1>2 DEF Fields
<1>4. /\ u.sites = f /\ u.servers = t.servers /\ u.subnets = t.subnets /\ u.links = t.links
      /\ {"sites", "servers", "subnets", "links", "suffixes"} \subseteq DOMAIN u
  BY <1>3, SitesAre
<1>5. /\ DOMAIN f = DOMAIN t.sites
      /\ \A k \in DOMAIN f : f[k].id = t.sites[k].id /\ (t.sites[k].servers => f[k].servers)
      /\ \A k \in DOMAIN f : {"id", "settings", "servers"} \subseteq DOMAIN f[k]
  BY <1>1, <1>4 DEF Fields
<1>6. SiteIdsOf(t) = SiteIdsOf(u)
  BY <1>4, <1>5 DEF SiteIdsOf
<1>7. Fields(u) /\ Referred(u)
  BY <1>1, <1>4, <1>5, <1>6 DEF Fields, Referred
<1>8. Numbered(u, m)
  BY <1>1, <1>4, <1>5 DEF Numbered
<1>9. Contained(u)
  BY <1>1, <1>4, <1>5 DEF Contained
<1> QED
  BY <1>7, <1>8, <1>9 DEF TopoSound

(* A site under another name.                                              *)
LEMMA RenameSound ==
  ASSUME NEW t, NEW m \in Nat, TopoSound(t, m), NEW from \in DOMAIN t.sites, NEW to, to \notin DOMAIN t.sites, NEW u,
         u = [t EXCEPT !.sites = Cut(Set(@, to, @[from]), from)]
  PROVE  TopoSound(u, m)
<1>1. Fields(t) /\ Numbered(t, m) /\ Contained(t) /\ Referred(t)
  BY DEF TopoSound
<1>2. PICK g : g = Set(t.sites, to, t.sites[from])
  OBVIOUS
<1>3. PICK f : f = Cut(g, from)
  OBVIOUS
<1>4. u = [t EXCEPT !.sites = f]
  BY <1>1, <1>2, <1>3 DEF Fields
<1>5. /\ u.sites = f /\ u.servers = t.servers /\ u.subnets = t.subnets /\ u.links = t.links
      /\ {"sites", "servers", "subnets", "links", "suffixes"} \subseteq DOMAIN u
  BY <1>4, SitesAre
<1>6. DOMAIN g = DOMAIN t.sites \cup {to} /\ g[to] = t.sites[from] /\ \A y \in DOMAIN t.sites : g[y] = t.sites[y]
  BY <1>2 DEF Set
<1>7. DOMAIN f = (DOMAIN t.sites \cup {to}) \ {from} /\ f[to] = t.sites[from]
  BY <1>3, <1>6 DEF Cut
<1>8. \A y \in DOMAIN t.sites \ {from} : f[y] = t.sites[y]
  BY <1>3, <1>6 DEF Cut
<1>9. Fields(u)
  BY <1>1, <1>5, <1>7, <1>8 DEF Fields
<1>10. Numbered(u, m)
  BY <1>1, <1>5, <1>7, <1>8 DEF Numbered
<1>11. \A n \in DOMAIN t.sites : \E k \in DOMAIN f : f[k] = t.sites[n]
  BY <1>7, <1>8
<1>12. Contained(u)
  <2> SUFFICES ASSUME NEW p \in t.servers
               PROVE  p \in Server \X Int /\ \E k \in DOMAIN f : f[k].id = p[2] /\ f[k].servers
    BY <1>5 DEF Contained
  <2>1. PICK n \in DOMAIN t.sites : t.sites[n].id = p[2] /\ t.sites[n].servers
    BY <1>1 DEF Contained
  <2>2. PICK k \in DOMAIN f : f[k] = t.sites[n]
    BY <1>11
  <2> QED
    BY <1>1, <2>1, <2>2 DEF Contained
<1>13. SiteIdsOf(t) \subseteq SiteIdsOf(u)
  <2> SUFFICES ASSUME NEW n \in DOMAIN t.sites
               PROVE  t.sites[n].id \in SiteIdsOf(u)
    BY DEF SiteIdsOf
  <2>1. PICK k \in DOMAIN f : f[k] = t.sites[n]
    BY <1>11
  <2> QED
    BY <1>5, <2>1 DEF SiteIdsOf
<1>14. Referred(u)
  BY <1>1, <1>5, <1>13 DEF Referred
<1> QED
  BY <1>9, <1>10, <1>12, <1>14 DEF TopoSound

(* A site gone, with its servers and the references to it.                 *)
Gone(t, n, id) ==
  [t EXCEPT !.sites = Cut(@, n),
            !.servers = {p \in @ : p[2] # id},
            !.subnets = Unassigned(@, id),
            !.links = Unlinked(@, id)]
(* Of t, u only misses what was the site's with that id.                   *)
Cleared(t, id, u) ==
  /\ \A p : p \in u.servers <=> p \in t.servers /\ p[2] # id
  /\ \A x \in DOMAIN t.subnets : t.subnets[x] # id => u.subnets[x] = t.subnets[x]
LEMMA DeleteSound ==
  ASSUME NEW t, NEW m \in Nat, TopoSound(t, m), NEW n \in DOMAIN t.sites, NEW id, id = t.sites[n].id, NEW u,
         u = Gone(t, n, id)
  PROVE  TopoSound(u, m) /\ Cleared(t, id, u)
<1>1. Fields(t) /\ Numbered(t, m) /\ Contained(t) /\ Referred(t)
  BY DEF TopoSound
<1>2. {"sites", "servers", "subnets", "links", "suffixes"} \subseteq DOMAIN t
  BY <1>1 DEF Fields
<1>3. PICK f : f = Cut(t.sites, n)
  OBVIOUS
<1>4. PICK g : g = Unlinked(t.links, id)
  OBVIOUS
<1>5. /\ u.sites = f /\ u.servers = {p \in t.servers : p[2] # id}
      /\ u.subnets = Unassigned(t.subnets, id)
      /\ u.links = g /\ DOMAIN u = DOMAIN t
  BY <1>2, <1>3, <1>4 DEF Gone
<1>6. DOMAIN f = DOMAIN t.sites \ {n} /\ \A y \in DOMAIN f : f[y] = t.sites[y]
  BY <1>3 DEF Cut
<1>7. DOMAIN g = DOMAIN t.links
  BY <1>4 DEF Unlinked
<1>8. \A k \in DOMAIN g : "sites" \in DOMAIN g[k] /\ g[k].sites = t.links[k].sites \ {id}
  BY <1>1, <1>4 DEF Fields, Unlinked
<1>9. Fields(u)
  BY <1>1, <1>5, <1>6, <1>8 DEF Fields
<1>10. Numbered(u, m)
  BY <1>1, <1>5, <1>6 DEF Numbered
<1>11. Contained(u)
  <2> SUFFICES ASSUME NEW p \in t.servers, p[2] # id
               PROVE  p \in Server \X Int /\ \E k \in DOMAIN f : f[k].id = p[2] /\ f[k].servers
    BY <1>5 DEF Contained
  <2>1. PICK k \in DOMAIN t.sites : t.sites[k].id = p[2] /\ t.sites[k].servers
    BY <1>1 DEF Contained
  <2>2. k \in DOMAIN f /\ f[k] = t.sites[k]
    BY <1>6, <2>1
  <2> QED
    BY <1>1, <2>1, <2>2 DEF Contained
<1>12. SiteIdsOf(t) \subseteq SiteIdsOf(u) \cup {id}
  BY <1>5, <1>6 DEF SiteIdsOf
<1>13. Referred(u)
  <2>1. ASSUME NEW x \in DOMAIN u.subnets
        PROVE  u.subnets[x] \in {NoSite} \cup SiteIdsOf(u)
    <3>1. x \in DOMAIN t.subnets /\ u.subnets[x] = IF t.subnets[x] = id THEN NoSite ELSE t.subnets[x]
      BY <1>5, <2>1 DEF Unassigned
    <3>2. t.subnets[x] \in {NoSite} \cup SiteIdsOf(t)
      BY <1>1, <3>1 DEF Referred
    <3> QED
      BY <1>12, <3>1, <3>2
  <2>2. ASSUME NEW k \in DOMAIN u.links
        PROVE  u.links[k].sites \subseteq SiteIdsOf(u)
    <3>1. k \in DOMAIN t.links /\ u.links[k].sites = t.links[k].sites \ {id}
      BY <1>5, <1>7, <1>8, <2>2
    <3>2. t.links[k].sites \subseteq SiteIdsOf(t)
      BY <1>1, <3>1 DEF Referred
    <3> QED
      BY <1>12, <3>1, <3>2
  <2> QED
    BY <2>1, <2>2 DEF Referred
<1>14. \A x \in DOMAIN t.subnets : t.subnets[x] # id => u.subnets[x] = t.subnets[x]
  BY <1>5 DEF Unassigned
<1>15. \A p : p \in u.servers <=> p \in t.servers /\ p[2] # id
  BY <1>5
<1> QED
  BY <1>9, <1>10, <1>11, <1>13, <1>14, <1>15 DEF TopoSound, Cleared

(* A server in another site's container.                                   *)
LEMMA MoveSound ==
  ASSUME NEW t, NEW m \in Nat, TopoSound(t, m), NEW n \in DOMAIN t.sites, t.sites[n].servers, NEW s \in Server,
         NEW from, NEW u, u = [t EXCEPT !.servers = (@ \ {from}) \cup {<<s, t.sites[n].id>>}]
  PROVE  TopoSound(u, m)
<1>1. Fields(t) /\ Numbered(t, m) /\ Contained(t) /\ Referred(t)
  BY DEF TopoSound
<1>2. /\ u.sites = t.sites /\ u.servers = (t.servers \ {from}) \cup {<<s, t.sites[n].id>>}
      /\ u.subnets = t.subnets /\ u.links = t.links /\ DOMAIN u = DOMAIN t
  BY <1>1 DEF Fields
<1>3. Fields(u) /\ Numbered(u, m) /\ SiteIdsOf(u) = SiteIdsOf(t)
  BY <1>1, <1>2 DEF Fields, Numbered, SiteIdsOf
<1>4. Referred(u)
  BY <1>1, <1>2, <1>3 DEF Referred
<1>5. Contained(u)
  <2> SUFFICES ASSUME NEW p \in u.servers
               PROVE  p \in Server \X Int /\ \E k \in DOMAIN t.sites : t.sites[k].id = p[2] /\ t.sites[k].servers
    BY <1>2 DEF Contained
  <2>1. CASE p = <<s, t.sites[n].id>>
    <3>1. t.sites[n].id \in Int
      BY <1>1 DEF Numbered
    <3> QED
      BY <2>1, <3>1
  <2>2. CASE p \in t.servers
    BY <1>1, <2>2 DEF Contained
  <2> QED
    BY <1>2, <2>1, <2>2
<1> QED
  BY <1>3, <1>4, <1>5 DEF TopoSound

(* Subnets, links and suffixes written, to what is there.                  *)
LEMMA ReferSound ==
  ASSUME NEW t, NEW m \in Nat, TopoSound(t, m), NEW f, NEW u,
         \/ u = [t EXCEPT !.subnets = f] /\ \A x \in DOMAIN f : f[x] \in {NoSite} \cup SiteIdsOf(t)
         \/ u = [t EXCEPT !.links = f] /\ \A k \in DOMAIN f : "sites" \in DOMAIN f[k] /\ f[k].sites \subseteq SiteIdsOf(t)
         \/ u = [t EXCEPT !.suffixes = f]
  PROVE  TopoSound(u, m)
<1>1. Fields(t) /\ Numbered(t, m) /\ Contained(t) /\ Referred(t)
  BY DEF TopoSound
<1>2. {"sites", "servers", "subnets", "links", "suffixes"} \subseteq DOMAIN t
  BY <1>1 DEF Fields
<1>3. /\ u.sites = t.sites /\ u.servers = t.servers /\ DOMAIN u = DOMAIN t
      /\ \/ u.subnets = t.subnets
         \/ u.subnets = f /\ \A x \in DOMAIN f : f[x] \in {NoSite} \cup SiteIdsOf(t)
      /\ \/ u.links = t.links
         \/ u.links = f /\ \A k \in DOMAIN f : "sites" \in DOMAIN f[k] /\ f[k].sites \subseteq SiteIdsOf(t)
  BY <1>2
<1>4. Numbered(u, m) /\ SiteIdsOf(u) = SiteIdsOf(t) /\ Contained(u)
  BY <1>1, <1>3 DEF Numbered, SiteIdsOf, Contained
<1>5. Fields(u)
  BY <1>1, <1>3 DEF Fields
<1>6. Referred(u)
  BY <1>1, <1>3, <1>4 DEF Referred
<1> QED
  BY <1>4, <1>5, <1>6 DEF TopoSound

(***************************************************************************)
(* Plans                                                                   *)
(***************************************************************************)
LEMMA BoundConcat ==
  ASSUME NEW s, NEW t, NEW do, Bound(s, do), Bound(t, do)
  PROVE  Bound(s \o t, do)
<1>1. s \in Seq(Step \X SiteDn) /\ t \in Seq(Step \X SiteDn)
  BY DEF Bound
<1>2. /\ s \o t \in Seq(Step \X SiteDn) /\ Len(s \o t) = Len(s) + Len(t)
      /\ \A i \in 1..Len(s) + Len(t) : (s \o t)[i] = IF i <= Len(s) THEN s[i] ELSE t[i - Len(s)]
  BY <1>1, ConcatProperties
<1>3. ASSUME NEW i \in 1..Len(s \o t)
      PROVE  Fit((s \o t)[i], do)
  <2>0. Len(s) \in Nat /\ Len(t) \in Nat
    BY <1>1
  <2>1. CASE i <= Len(s)
    <3>1. i \in 1..Len(s) /\ (s \o t)[i] = s[i]
      BY <1>2, <2>0, <2>1
    <3> QED
      BY <3>1 DEF Bound
  <2>2. CASE ~(i <= Len(s))
    <3>1. i - Len(s) \in 1..Len(t) /\ (s \o t)[i] = t[i - Len(s)]
      BY <1>2, <2>0, <2>2
    <3> QED
      BY <3>1 DEF Bound
  <2> QED
    BY <2>1, <2>2
<1> QED
  BY <1>2, <1>3 DEF Bound

LEMMA BoundTail ==
  ASSUME NEW s, NEW do, Bound(s, do), s # <<>>
  PROVE  /\ Bound(Tail(s), do) /\ Fit(Head(s), do)
         /\ Len(s) > 1 => Tail(s) # <<>>
<1>1. s \in Seq(Step \X SiteDn) /\ Len(s) \in Nat \ {0}
  BY EmptySeq DEF Bound
<1>2. Tail(s) \in Seq(Step \X SiteDn) /\ Len(Tail(s)) = Len(s) - 1 /\ \A i \in 1..Len(Tail(s)) : Tail(s)[i] = s[i + 1]
  BY <1>1
<1>3. \A i \in 1..Len(Tail(s)) : i + 1 \in 1..Len(s)
  BY <1>1, <1>2
<1>4. Bound(Tail(s), do)
  BY <1>2, <1>3 DEF Bound
<1>5. 1 \in 1..Len(s) /\ Head(s) = s[1]
  BY <1>1
<1>6. Fit(Head(s), do)
  BY <1>5 DEF Bound
<1>7. Len(s) > 1 => Tail(s) # <<>>
  <2>1. Len(s) > 1 => Len(Tail(s)) # 0
    BY <1>1, <1>2
  <2> QED
    BY <1>2, <2>1, EmptySeq
<1> QED
  BY <1>4, <1>6, <1>7

(* Plans of a few requests.                                                *)
LEMMA BoundFew ==
  ASSUME NEW do, NEW x, NEW y, NEW z, NEW w, Fit(x, do)
  PROVE  /\ Bound(<<>>, do) /\ Bound(<<x>>, do)
         /\ Fit(y, do) => Bound(<<x, y>>, do)
         /\ Fit(y, do) /\ Fit(z, do) => Bound(<<x, y, z>>, do)
         /\ Fit(y, do) /\ Fit(z, do) /\ Fit(w, do) => Bound(<<x, y, z, w>>, do)
<1> DEFINE S == Step \X SiteDn
<1>1. x \in S /\ \A v : Fit(v, do) => v \in S
  BY DEF Fit
<1> HIDE DEF S
<1>2. Bound(<<>>, do)
  BY DEF Bound
<1>3. <<x>> \in Seq(S) /\ \A i \in 1..Len(<<x>>) : Fit(<<x>>[i], do)
  BY <1>1
<1>4. Fit(y, do) => <<x, y>> \in Seq(S) /\ \A i \in 1..Len(<<x, y>>) : Fit(<<x, y>>[i], do)
  BY <1>1
<1>5. Fit(y, do) /\ Fit(z, do) =>
        <<x, y, z>> \in Seq(S) /\ \A i \in 1..Len(<<x, y, z>>) : Fit(<<x, y, z>>[i], do)
  BY <1>1
<1>6. Fit(y, do) /\ Fit(z, do) /\ Fit(w, do) =>
        <<x, y, z, w>> \in Seq(S) /\ \A i \in 1..Len(<<x, y, z, w>>) : Fit(<<x, y, z, w>>[i], do)
  BY <1>1
<1> QED
  BY <1>2, <1>3, <1>4, <1>5, <1>6 DEF Bound, S

LEMMA PlanBound ==
  ASSUME NEW r \in SiteRequest
  PROVE  Bound(SitePlan(r), r.do)
<1> DEFINE do == r.do
<1>1. r.site \in SiteDn /\ r.to \in SiteDn /\ r.members \in Seq(SiteDn)
  BY DEF SiteRequest
<1>2. ASSUME NEW x \in Step \ Decisive, NEW d \in SiteDn
      PROVE  Fit(<<x, d>>, do)
  BY <1>2 DEF Fit, Decisive
<1>4. \A x \in Step \ Decisive : Fit(One(x, r), do)
  BY <1>1, <1>2 DEF One
<1>5. Bound(SiteThere(r), do)
  <2>1. Fit(<<"site there", r.site>>, do)
    BY <1>1, <1>2 DEF Step, Decisive
  <2> QED
    BY <2>1, BoundFew DEF SiteThere
<1>6. Bound(MembersThere(r), do)
  <2>1. Len(r.members) \in Nat /\ \A i \in 1..Len(r.members) : r.members[i] \in SiteDn
    BY <1>1
  <2>2. \A i \in 1..Len(r.members) : <<"site there", r.members[i]>> \in Step \X SiteDn
    BY <2>1 DEF Step
  <2>3. MembersThere(r) \in Seq(Step \X SiteDn) /\ Len(MembersThere(r)) = Len(r.members)
    <3> DEFINE S == Step \X SiteDn
    <3> HIDE DEF S
    <3>1. \A i \in 1..Len(r.members) : <<"site there", r.members[i]>> \in S
      BY <2>2 DEF S
    <3>2. PICK s : s = MembersThere(r)
      OBVIOUS
    <3>3. s \in [1..Len(r.members) -> S]
      BY <3>1, <3>2 DEF MembersThere
    <3>4. s \in Seq(S) /\ Len(s) = Len(r.members)
      BY ONLY <2>1, <3>3
    <3> QED
      BY <3>2, <3>4 DEF S
  <2>4. \A i \in 1..Len(MembersThere(r)) : Fit(MembersThere(r)[i], do)
    BY <1>2, <2>1, <2>3 DEF MembersThere, Step, Decisive
  <2> QED
    BY <2>3, <2>4 DEF Bound
<1>7. /\ do = "delete site" => Fit(One("site delete", r), do)
      /\ do \in {"create link", "update link"} => Fit(One("link write", r), do)
  BY <1>1 DEF One, Fit, Step
<1>10. CASE do = "create site"
  <2>1. SitePlan(r) = <<One("site free", r), One("site add", r), One("settings add", r), One("servers add", r)>>
    BY <1>10 DEF SitePlan
  <2>2. {"site free", "site add", "settings add", "servers add"} \subseteq Step \ Decisive
    BY DEF Step, Decisive
  <2> QED
    BY <1>4, <2>1, <2>2, BoundFew
<1>11. CASE do = "rename site"
  <2>1. SitePlan(r) \in {<<>>, << <<"site free", r.to>>, One("site rename", r)>>}
    BY <1>11 DEF SitePlan
  <2>2. {"site free", "site rename"} \subseteq Step \ Decisive
    BY DEF Step, Decisive
  <2>3. Fit(<<"site free", r.to>>, do) /\ Fit(One("site rename", r), do)
    BY <1>1, <1>2, <1>4, <2>2
  <2> QED
    BY <2>1, <2>3, BoundFew
<1>12. CASE do = "delete site"
  <2>1. SitePlan(r) = <<One("site there", r), One("no servers", r), One("no subnets", r), One("site delete", r)>>
    BY <1>12 DEF SitePlan
  <2>2. {"site there", "no servers", "no subnets"} \subseteq Step \ Decisive
    BY DEF Step, Decisive
  <2> QED
    BY <1>4, <1>7, <1>12, <2>1, <2>2, BoundFew
<1>13. CASE do = "move server"
  <2> DEFINE s == <<One("server there", r), <<"site there", r.to>>, <<"container there", r.to>>>>
             t == IF SiteName[r.to] = SiteName[r.site] THEN <<>> ELSE << <<"server free", r.to>>, One("server move", r)>>
  <2>1. SitePlan(r) = s \o t
    BY <1>13 DEF SitePlan
  <2>2. {"server there", "site there", "container there", "server free", "server move"} \subseteq Step \ Decisive
    BY DEF Step, Decisive
  <2>3. /\ Fit(One("server there", r), do) /\ Fit(<<"site there", r.to>>, do)
        /\ Fit(<<"container there", r.to>>, do) /\ Fit(<<"server free", r.to>>, do)
        /\ Fit(One("server move", r), do)
    BY <1>1, <1>2, <1>4, <2>2
  <2>4. Bound(s, do)
    BY <2>3, BoundFew
  <2>5. Bound(t, do)
    BY <2>3, BoundFew
  <2> QED
    BY <2>1, <2>4, <2>5, BoundConcat
<1>14. CASE do \in {"create subnet", "update subnet"}
  <2>1. {"subnet free", "subnet there", "subnet write"} \subseteq Step \ Decisive
    BY DEF Step, Decisive
  <2>2. PICK x \in {"subnet free", "subnet there"} : SitePlan(r) = <<One(x, r)>> \o SiteThere(r) \o <<One("subnet write", r)>>
    BY <1>14 DEF SitePlan
  <2>3. Bound(<<One(x, r)>>, do) /\ Bound(<<One("subnet write", r)>>, do)
    BY <1>4, <2>1, BoundFew
  <2> QED
    BY <1>5, <2>2, <2>3, BoundConcat
<1>15. CASE do \in {"delete subnet", "delete link"}
  <2>1. {"subnet there", "subnet delete", "link there", "link delete"} \subseteq Step \ Decisive
    BY DEF Step, Decisive
  <2>2. PICK x \in {"subnet there", "link there"}, y \in {"subnet delete", "link delete"} :
          SitePlan(r) = <<One(x, r), One(y, r)>>
    BY <1>15 DEF SitePlan
  <2> QED
    BY <1>4, <2>1, <2>2, BoundFew
<1>16. CASE do = "create link"
  <2>1. SitePlan(r) = MembersThere(r) \o <<One("link free", r), One("link write", r)>>
    BY <1>16 DEF SitePlan
  <2>2. "link free" \in Step \ Decisive
    BY DEF Step, Decisive
  <2>3. Bound(<<One("link free", r), One("link write", r)>>, do)
    BY <1>4, <1>7, <1>16, <2>2, BoundFew
  <2> QED
    BY <1>6, <2>1, <2>3, BoundConcat
<1>17. CASE do = "update link"
  <2>1. SitePlan(r) = <<One("link there", r)>> \o MembersThere(r) \o <<One("link write", r)>>
    BY <1>17 DEF SitePlan
  <2>2. "link there" \in Step \ Decisive
    BY DEF Step, Decisive
  <2>3. Bound(<<One("link there", r)>>, do) /\ Bound(<<One("link write", r)>>, do)
    BY <1>4, <1>7, <1>17, <2>2, BoundFew
  <2> QED
    BY <1>6, <2>1, <2>3, BoundConcat
<1>18. CASE do = "set suffixes"
  <2>1. SitePlan(r) = <<One("suffixes write", r)>>
    BY <1>18 DEF SitePlan
  <2>2. "suffixes write" \in Step \ Decisive
    BY DEF Step, Decisive
  <2> QED
    BY <1>4, <2>1, <2>2, BoundFew
<1>19. do \in {"create site", "rename site", "delete site", "move server", "create subnet", "update subnet",
               "delete subnet", "create link", "update link", "delete link", "set suffixes"}
  BY DEF SiteRequest
<1> QED
  BY <1>10, <1>11, <1>12, <1>13, <1>14, <1>15, <1>16, <1>17, <1>18, <1>19

(***************************************************************************)
(* Going on                                                                *)
(***************************************************************************)
(* Session a has done a request: the next one is due, or it is idle.       *)
Stepped(a) ==
  /\ DOMAIN order' = SAdmin /\ \A b \in SAdmin \ {a} : order'[b] = order[b]
  /\ siteOps' = siteOps
  /\ Ordered(a)' => Len(order[a].todo) > 1 /\ order'[a] = [order[a] EXCEPT !.todo = Tail(order[a].todo)]

LEMMA GoesIs ==
  ASSUME OrdersSound, NEW a \in SAdmin, siteOps' = siteOps, SGoes(a) \/ order' = [order EXCEPT ![a] = SIdle("refused")]
  PROVE  Stepped(a)
<1>1. DOMAIN order = SAdmin
  BY DEF OrdersSound
<1>2. \A why : SIdle(why).todo = <<>>
  BY DEF SIdle
<1>3. CASE SGoes(a)
  <2>1. DOMAIN order' = SAdmin /\ \A b \in SAdmin \ {a} : order'[b] = order[b]
    BY <1>1, <1>3 DEF SGoes
  <2>2. order'[a] = IF Len(order[a].todo) > 1 THEN [order[a] EXCEPT !.todo = Tail(order[a].todo)] ELSE SIdle("ok")
    BY <1>1, <1>3 DEF SGoes
  <2> QED
    BY <1>2, <2>1, <2>2 DEF Stepped, Ordered
<1>4. CASE order' = [order EXCEPT ![a] = SIdle("refused")]
  BY <1>1, <1>2, <1>4 DEF Stepped, Ordered
<1> QED
  BY <1>3, <1>4

LEMMA SteppedSound ==
  ASSUME OrdersSound, NEW a \in SAdmin, Ordered(a), Stepped(a)
  PROVE  OrdersSound'
<1>1. SUFFICES ASSUME NEW b \in SAdmin, Ordered(b)'
               PROVE  IsOrder(order'[b]) /\ order'[b].nth <= siteOps'
  BY DEF OrdersSound, Stepped
<1>2. CASE b # a
  <2>1. order'[b] = order[b] /\ siteOps' = siteOps
    BY <1>2 DEF Stepped
  <2> QED
    BY <1>1, <2>1 DEF OrdersSound, Ordered
<1>3. CASE b = a
  <2>1. PICK op : op = order[a]
    OBVIOUS
  <2>2. IsOrder(op) /\ op.todo # <<>> /\ op.nth <= siteOps
    BY <2>1 DEF OrdersSound, Ordered
  <2>3. PICK new : new = [op EXCEPT !.todo = Tail(op.todo)]
    OBVIOUS
  <2>4. Bound(Tail(op.todo), op.do)
    BY <2>2, BoundTail DEF IsOrder
  <2>5. IsOrder(new) /\ new.nth = op.nth
    BY <2>2, <2>3, <2>4 DEF IsOrder
  <2>6. order'[b] = new /\ siteOps' = siteOps
    BY <1>1, <1>3, <2>1, <2>3 DEF Stepped
  <2> QED
    BY <2>2, <2>5, <2>6
<1> QED
  BY <1>2, <1>3

(* Which request of a deletion is due.                                     *)
LEMMA EmptiedAt ==
  ASSUME NEW t, NEW s \in Seq(Step \X SiteDn), NEW dn, Emptied(t, s, dn)
  PROVE  /\ Head(s)[1] = DueOf(Len(s)) /\ Head(s)[2] = dn
         /\ Len(s) \in 1..4
<1>1. PICK n : n = Len(s)
  OBVIOUS
<1>3. n \in 1..4
  BY <1>1 DEF Emptied
<1>4. Head(s) = s[1]
  BY <1>1, <1>3
<1>5. \A i \in 1..n : s[i][1] = DueOf(n + 1 - i) /\ s[i][2] = dn
  BY <1>1 DEF Emptied
<1>6. 1 \in 1..n /\ n + 1 - 1 = n
  BY <1>3
<1>7. s[1][1] = DueOf(n) /\ s[1][2] = dn
  BY <1>5, <1>6
<1> QED
  BY <1>1, <1>3, <1>4, <1>7

LEMMA DueIs ==
  ASSUME NEW n \in 1..4
  PROVE  /\ DueOf(n) \in {"site there", "no servers", "no subnets", "site delete"}
         /\ DueOf(n) = "site there" <=> n = 4
         /\ DueOf(n) = "no servers" <=> n = 3
         /\ DueOf(n) = "no subnets" <=> n = 2
         /\ DueOf(n) = "site delete" <=> n = 1
  BY DEF DueOf

(* A deletion that has asked its next question.                            *)
LEMMA EmptiedNext ==
  ASSUME NEW t, NEW s \in Seq(Step \X SiteDn), NEW dn, Emptied(t, s, dn), Len(s) > 1,
         Len(s) = 3 => ServersIn(t, dn) = {},
         Len(s) = 2 => SubnetsIn(t, dn) = {}
  PROVE  Emptied(t, Tail(s), dn)
<1>2. PICK n : n = Len(s)
  OBVIOUS
<1>3. n \in 2..4
  BY <1>2 DEF Emptied
<1>5. PICK z : z = Tail(s)
  OBVIOUS
<1>6. Len(z) = n - 1 /\ \A i \in 1..(n - 1) : z[i] = s[i + 1]
  BY <1>2, <1>3, <1>5
<1>7. \A i \in 1..n : s[i][1] = DueOf(n + 1 - i) /\ s[i][2] = dn
  BY <1>2 DEF Emptied
<1>8. ASSUME NEW i \in 1..(n - 1)
      PROVE  z[i][1] = DueOf((n - 1) + 1 - i) /\ z[i][2] = dn
  <2>1. i + 1 \in 1..n /\ n + 1 - (i + 1) = (n - 1) + 1 - i
    BY <1>3
  <2>2. s[i + 1][1] = DueOf(n + 1 - (i + 1)) /\ s[i + 1][2] = dn
    BY <1>7, <2>1
  <2> QED
    BY <1>6, <2>1, <2>2
<1>10. n - 1 <= 2 => ServersIn(t, dn) = {}
  <2>1. CASE n = 3
    BY <1>2, <2>1
  <2>2. CASE n = 2
    BY <1>2, <2>2 DEF Emptied
  <2> QED
    BY <1>3, <2>1, <2>2
<1>11. n - 1 <= 1 => SubnetsIn(t, dn) = {}
  BY <1>2, <1>3
<1>12. n - 1 \in 1..4
  BY <1>3
<1> QED
  BY <1>5, <1>6, <1>8, <1>10, <1>11, <1>12 DEF Emptied

LEMMA SteppedCrossed ==
  ASSUME OrdersSound, Crossed, NEW a \in SAdmin, Ordered(a), Stepped(a),
         SAt(a, "site there") \/ SAt(a, "no servers") \/ SAt(a, "no subnets") => topo' = topo,
         SAt(a, "no servers") /\ Ordered(a)' => ServersIn(topo, Asks(a)) = {},
         SAt(a, "no subnets") /\ Ordered(a)' => SubnetsIn(topo, Asks(a)) = {}
  PROVE  Crossed'
<1>1. SUFFICES ASSUME NEW b \in SAdmin, Ordered(b)', SUndisturbed(b)'
               PROVE  /\ \A c \in SAdmin \ {b} : ~Ordered(c)'
                      /\ order'[b].do = "delete site" => Emptied(topo', order'[b].todo, order'[b].site)
  BY DEF Crossed
<1>2. b = a
  <2>1. SUFFICES ASSUME b # a PROVE FALSE
    OBVIOUS
  <2>2. order'[b] = order[b] /\ siteOps' = siteOps
    BY <2>1 DEF Stepped
  <2>3. Ordered(b) /\ SUndisturbed(b)
    BY <1>1, <2>2 DEF Ordered, SUndisturbed
  <2> QED
    BY <2>1, <2>3 DEF Crossed
<1>3. PICK op : op = order[a]
  OBVIOUS
<1>4. PICK new : new = order'[a]
  OBVIOUS
<1>5. new = [op EXCEPT !.todo = Tail(op.todo)] /\ Len(op.todo) > 1 /\ siteOps' = siteOps
  BY <1>1, <1>2, <1>3, <1>4 DEF Stepped
<1>6. IsOrder(op)
  BY <1>3 DEF OrdersSound
<1>7. new.nth = op.nth /\ new.alone = op.alone /\ new.do = op.do /\ new.site = op.site /\ {"todo", "site"} \subseteq DOMAIN op
  BY <1>5, <1>6 DEF IsOrder
<1>71. new.todo = Tail(op.todo)
  BY <1>5, <1>7
<1>8. SUndisturbed(a)
  BY <1>1, <1>2, <1>3, <1>4, <1>5, <1>7 DEF SUndisturbed
<1>9. \A c \in SAdmin \ {b} : ~Ordered(c)'
  BY <1>2, <1>8 DEF Crossed, Stepped, Ordered
<1>10. ASSUME new.do = "delete site"
       PROVE  Emptied(topo', new.todo, new.site)
  <2>0. order[a].do = "delete site"
    BY <1>3, <1>7, <1>10
  <2>1. PICK t : t = topo
    OBVIOUS
  <2>2. PICK s : s = op.todo
    OBVIOUS
  <2>3. PICK dn : dn = op.site
    OBVIOUS
  <2>4. Emptied(t, s, dn)
    BY <1>3, <1>8, <2>0, <2>1, <2>2, <2>3 DEF Crossed
  <2>5. s \in Seq(Step \X SiteDn)
    BY <1>6, <2>2 DEF IsOrder, Bound
  <2>6. Head(s)[1] = DueOf(Len(s)) /\ Head(s)[2] = dn /\ Len(s) \in 1..4
    BY <2>4, <2>5, EmptiedAt
  <2>7. Len(s) > 1
    BY <1>5, <2>2
  <2>8. Len(s) \in {2, 3, 4}
    <3>1. PICK n : n = Len(s)
      OBVIOUS
    <3>2. n \in 1..4 /\ n > 1
      BY <2>6, <2>7, <3>1
    <3>3. n \in {2, 3, 4}
      BY ONLY <3>2
    <3> QED
      BY <3>1, <3>3
  <2>9. /\ Len(s) = 4 => SAt(a, "site there")
        /\ Len(s) = 3 => SAt(a, "no servers")
        /\ Len(s) = 2 => SAt(a, "no subnets")
        /\ Asks(a) = dn
    BY <1>3, <2>2, <2>6, DueIs DEF SAt, Asks
  <2>10. Ordered(a)'
    BY <1>1, <1>2
  <2>11. topo' = t
    BY <2>1, <2>8, <2>9
  <2>12. /\ Len(s) = 3 => ServersIn(t, dn) = {}
         /\ Len(s) = 2 => SubnetsIn(t, dn) = {}
    BY <2>1, <2>9, <2>10
  <2>13. Emptied(t, Tail(s), dn)
    BY <2>4, <2>5, <2>7, <2>12, EmptiedNext
  <2> QED
    BY <1>7, <1>71, <2>2, <2>3, <2>11, <2>13
<1> QED
  BY <1>1, <1>2, <1>4, <1>9, <1>10

LEMMA StepKeeps ==
  ASSUME SInv, NEW a \in SAdmin, Ordered(a), Stepped(a), made' \in Nat, TopoSound(topo', made'),
         SAt(a, "site there") \/ SAt(a, "no servers") \/ SAt(a, "no subnets") => topo' = topo,
         SAt(a, "no servers") /\ Ordered(a)' => ServersIn(topo, Asks(a)) = {},
         SAt(a, "no subnets") /\ Ordered(a)' => SubnetsIn(topo, Asks(a)) = {}
  PROVE  SInv'
<1>1. OrdersSound /\ Crossed /\ siteOps \in Nat
  BY DEF SInv
<1>2. OrdersSound'
  BY <1>1, SteppedSound
<1>3. Crossed'
  BY <1>1, SteppedCrossed
<1>4. siteOps' \in Nat
  BY <1>1 DEF Stepped
<1> QED
  BY <1>2, <1>3, <1>4 DEF SInv

LEMMA StopsIs ==
  ASSUME OrdersSound, NEW a \in SAdmin, SStops(a)
  PROVE  Stepped(a) /\ ~Ordered(a)' /\ topo' = topo /\ made' = made
<1>1. Stepped(a) /\ topo' = topo /\ made' = made
  BY GoesIs DEF SStops
<1>2. order'[a] = SIdle("refused")
  BY DEF SStops, OrdersSound
<1> QED
  BY <1>1, <1>2 DEF Ordered, SIdle

LEMMA StopKeeps ==
  ASSUME SInv, NEW a \in SAdmin, Ordered(a), SStops(a)
  PROVE  SInv'
<1>1. OrdersSound /\ made \in Nat /\ TopoSound(topo, made)
  BY DEF SInv
<1>2. Stepped(a) /\ ~Ordered(a)' /\ topo' = topo /\ made' = made
  BY <1>1, StopsIs
<1> QED
  BY <1>1, <1>2, StepKeeps

(* Questions change nothing, and what is learnt holds.                     *)
LEMMA AskKeeps ==
  ASSUME SInv, NEW a \in SAdmin, Ask(a)
  PROVE  SInv'
<1>1. OrdersSound /\ made \in Nat /\ TopoSound(topo, made)
  BY DEF SInv
<1>2. Ordered(a)
  BY DEF Ask, SAt
<1>3. SStops(a) \/ (SGoes(a) /\ UNCHANGED <<topo, siteOps, made>>)
  BY DEF Ask, SReads
<1>4. SAt(a, "no servers") => SStops(a) \/ ~Has(Asks(a)) \/ ListServers(Asks(a)) = {}
  BY DEF Ask, SReads, SAt
<1>5. SAt(a, "no subnets") => SStops(a) \/ ~Has(Asks(a)) \/ ListSubnets(Asks(a)) = {}
  BY DEF Ask, SReads, SAt
<1>6. CASE SStops(a)
  BY <1>2, <1>6, StopKeeps
<1>7. CASE ~SStops(a)
  <2>1. SGoes(a) /\ topo' = topo /\ made' = made /\ siteOps' = siteOps
    BY <1>3, <1>7
  <2>2. Stepped(a)
    BY <1>1, <2>1, GoesIs
  <2>3. SAt(a, "no servers") => ServersIn(topo, Asks(a)) = {}
    BY <1>4, <1>7 DEF Has, ListServers, At1, ServersIn
  <2>4. SAt(a, "no subnets") => SubnetsIn(topo, Asks(a)) = {}
    BY <1>5, <1>7 DEF Has, ListSubnets, At1, SubnetsIn
  <2> QED
    BY <1>1, <1>2, <2>1, <2>2, <2>3, <2>4, StepKeeps
<1> QED
  BY <1>6, <1>7

(* A write that is accepted and keeps the partition sound.                 *)
LEMMA AcceptedKeeps ==
  ASSUME SInv, NEW a \in SAdmin, NEW x, SAt(a, x), x \notin {"site there", "no servers", "no subnets"},
         NEW new, topo' = new, SGoes(a), made' = made, siteOps' = siteOps, TopoSound(new, made)
  PROVE  SInv'
<1>1. OrdersSound /\ made \in Nat
  BY DEF SInv
<1>2. Ordered(a) /\ ~SAt(a, "site there") /\ ~SAt(a, "no servers") /\ ~SAt(a, "no subnets")
  BY DEF SAt
<1>3. Stepped(a)
  BY <1>1, GoesIs
<1>4. made' \in Nat /\ TopoSound(topo', made')
  BY <1>1
<1> QED
  BY <1>2, <1>3, <1>4, StepKeeps

(* A write that keeps the partition sound.                                 *)
LEMMA WriteKeeps ==
  ASSUME SInv, NEW a \in SAdmin, NEW x, SAt(a, x), x \notin {"site there", "no servers", "no subnets"},
         NEW ok \in BOOLEAN, NEW new, SWrites(a, ok, new), ok => TopoSound(new, made)
  PROVE  SInv'
<1>1. CASE ~ok
  <2>1. SStops(a) /\ Ordered(a)
    BY <1>1 DEF SWrites, SAt
  <2> QED
    BY <2>1, StopKeeps
<1>2. CASE ok
  <2>1. SGoes(a) /\ topo' = new /\ made' = made /\ siteOps' = siteOps
    BY <1>2 DEF SWrites
  <2> QED
    BY <1>2, <2>1, AcceptedKeeps
<1> QED
  BY <1>1, <1>2

LEMMA ChangeKeeps ==
  ASSUME SInv, NEW a \in SAdmin,
         \/ SiteAdd(a) \/ SettingsAdd(a) \/ ServersAdd(a) \/ SiteRename(a) \/ SiteDelete(a)
         \/ ServerMove(a) \/ SubnetWrite(a) \/ SubnetDelete(a) \/ LinkWrite(a) \/ LinkDelete(a)
         \/ SuffixesWrite(a)
  PROVE  SInv'
<1>1. OrdersSound /\ made \in Nat /\ TopoSound(topo, made) /\ Fields(topo)
  BY DEF SInv, TopoSound
<1>2. CASE SiteAdd(a)
  <2>1. Ordered(a) /\ ~SAt(a, "site there") /\ ~SAt(a, "no servers") /\ ~SAt(a, "no subnets")
    BY <1>2 DEF SiteAdd, SAt
  <2>2. CASE SStops(a)
    BY <2>1, <2>2, StopKeeps
  <2>3. CASE ~SStops(a)
    <3>1. /\ SiteName[Asks(a)] \notin DOMAIN topo.sites
          /\ topo' = [topo EXCEPT !.sites = Set(@, SiteName[Asks(a)], [id |-> made + 1, settings |-> FALSE, servers |-> FALSE])]
          /\ made' = made + 1 /\ SGoes(a) /\ siteOps' = siteOps
      BY <1>2, <2>3 DEF SiteAdd, Has
    <3>2. Stepped(a)
      BY <1>1, <3>1, GoesIs
    <3>3. PICK t : t = topo
      OBVIOUS
    <3>4. PICK m \in Nat : m = made
      BY <1>1
    <3>5. PICK n : n = SiteName[Asks(a)]
      OBVIOUS
    <3>6. PICK u : u = topo'
      OBVIOUS
    <3>7. TopoSound(u, m + 1)
      <4>1. TopoSound(t, m) /\ n \notin DOMAIN t.sites
        BY <1>1, <3>1, <3>3, <3>4, <3>5
      <4>2. u = [t EXCEPT !.sites = Set(@, n, [id |-> m + 1, settings |-> FALSE, servers |-> FALSE])]
        BY <3>1, <3>3, <3>4, <3>5, <3>6
      <4> QED
        BY <4>1, <4>2, AddSound
    <3>8. made' \in Nat /\ TopoSound(topo', made')
      BY <1>1, <3>1, <3>4, <3>6, <3>7
    <3> QED
      BY <2>1, <3>2, <3>8, StepKeeps
  <2> QED
    BY <2>2, <2>3
<1>3. PICK t : t = topo
  OBVIOUS
<1>4. PICK m \in Nat : m = made
  BY <1>1
<1>5. TopoSound(t, m) /\ Fields(t)
  BY <1>1, <1>3, <1>4
<1>6. CASE SettingsAdd(a)
  <2>1. PICK n : n = SiteName[Asks(a)]
    OBVIOUS
  <2>2. PICK u : u = [t EXCEPT !.sites[n].settings = TRUE]
    OBVIOUS
  <2>3. PICK ok \in BOOLEAN : ok = (Has(Asks(a)) /\ ~At1(Asks(a)).settings)
    BY DEF Has
  <2>4. SWrites(a, ok, u) /\ SAt(a, "settings add")
    BY <1>3, <1>6, <2>1, <2>2, <2>3 DEF SettingsAdd, SWrites
  <2>5. ok => TopoSound(u, made)
    <3>1. ok => n \in DOMAIN t.sites
      BY <1>3, <2>1, <2>3 DEF Has
    <3> QED
      BY <1>4, <1>5, <2>2, <3>1, FlagSound
  <2> QED
    BY <2>4, <2>5, WriteKeeps
<1>7. CASE ServersAdd(a)
  <2>1. PICK n : n = SiteName[Asks(a)]
    OBVIOUS
  <2>2. PICK u : u = [t EXCEPT !.sites[n].servers = TRUE]
    OBVIOUS
  <2>3. PICK ok \in BOOLEAN : ok = (Has(Asks(a)) /\ ~At1(Asks(a)).servers)
    BY DEF Has
  <2>4. SWrites(a, ok, u) /\ SAt(a, "servers add")
    BY <1>3, <1>7, <2>1, <2>2, <2>3 DEF ServersAdd, SWrites
  <2>5. ok => TopoSound(u, made)
    <3>1. ok => n \in DOMAIN t.sites
      BY <1>3, <2>1, <2>3 DEF Has
    <3> QED
      BY <1>4, <1>5, <2>2, <3>1, FlagSound
  <2> QED
    BY <2>4, <2>5, WriteKeeps
<1>8. CASE SiteRename(a)
  <2>1. PICK from : from = SiteName[order[a].site]
    OBVIOUS
  <2>2. PICK to : to = SiteName[order[a].to]
    OBVIOUS
  <2>3. PICK u : u = [t EXCEPT !.sites = Cut(Set(@, to, @[from]), from)]
    OBVIOUS
  <2>4. PICK ok \in BOOLEAN : ok = (from \in DOMAIN t.sites /\ to \notin DOMAIN t.sites)
    OBVIOUS
  <2>5. SWrites(a, ok, u) /\ SAt(a, "site rename")
    BY <1>3, <1>8, <2>1, <2>2, <2>3, <2>4 DEF SiteRename, SWrites
  <2>6. ok => TopoSound(u, made)
    BY <1>4, <1>5, <2>3, <2>4, RenameSound
  <2> QED
    BY <2>5, <2>6, WriteKeeps
<1>9. CASE SiteDelete(a)
  <2>1. PICK n : n = SiteName[Asks(a)]
    OBVIOUS
  <2>2. PICK id : id = t.sites[n].id
    OBVIOUS
  <2>3. PICK u : u = Gone(t, n, id)
    OBVIOUS
  <2>5. SAt(a, "site delete") /\ Ordered(a)
    BY <1>9 DEF SiteDelete, SAt
  <2>6. CASE SStops(a)
    BY <2>5, <2>6, StopKeeps
  <2>7. CASE ~SStops(a)
    <3>1. SGoes(a) /\ topo' = Gone(t, n, id) /\ made' = made /\ siteOps' = siteOps /\ n \in DOMAIN t.sites
      BY <1>3, <1>9, <2>1, <2>2, <2>7 DEF SiteDelete, SWrites, At1, Has, Gone
    <3>2. TopoSound(u, m)
      BY <1>5, <2>2, <2>3, <3>1, DeleteSound
    <3>3. topo' = u
      BY <2>3, <3>1
    <3> QED
      BY <1>4, <2>5, <3>1, <3>2, <3>3, AcceptedKeeps
  <2> QED
    BY <2>6, <2>7
<1>10. CASE ServerMove(a)
  <2>1. PICK r : r = order[a]
    OBVIOUS
  <2>2. PICK n : n = SiteName[r.to]
    OBVIOUS
  <2>3. PICK from : from = <<r.server, At1(r.site).id>>
    OBVIOUS
  <2>4. PICK u : u = [t EXCEPT !.servers = (@ \ {from}) \cup {<<r.server, t.sites[n].id>>}]
    OBVIOUS
  <2>5. SAt(a, "server move") /\ Ordered(a)
    BY <1>10 DEF ServerMove, SAt
  <2>6. CASE SStops(a)
    BY <2>5, <2>6, StopKeeps
  <2>7. CASE ~SStops(a)
    <3>1. /\ SGoes(a) /\ topo' = u /\ made' = made /\ siteOps' = siteOps
          /\ n \in DOMAIN t.sites /\ t.sites[n].servers
      BY <1>3, <1>10, <2>1, <2>2, <2>3, <2>4, <2>7 DEF ServerMove, SWrites, At1, Has
    <3>2. r.server \in Server
      BY <1>1, <2>1, <2>5 DEF OrdersSound, IsOrder
    <3>3. TopoSound(u, made)
      BY <1>4, <1>5, <2>4, <3>1, <3>2, MoveSound
    <3> QED
      BY <2>5, <3>1, <3>3, AcceptedKeeps
  <2> QED
    BY <2>6, <2>7
<1>11. CASE SubnetWrite(a)
  <2>1. PICK r : r = order[a]
    OBVIOUS
  <2>2. PICK v : v = SubnetSite(r)
    OBVIOUS
  <2>3. PICK f : f = Set(t.subnets, r.subnet, v)
    OBVIOUS
  <2>4. PICK u : u = [t EXCEPT !.subnets = f]
    OBVIOUS
  <2>5. SAt(a, "subnet write") /\ Ordered(a)
    BY <1>11 DEF SubnetWrite, SAt
  <2>6. CASE SStops(a)
    BY <2>5, <2>6, StopKeeps
  <2>7. CASE ~SStops(a)
    <3>1. u = [topo EXCEPT !.subnets = Set(@, r.subnet, SubnetSite(r))]
      BY <1>3, <1>5, <2>2, <2>3, <2>4 DEF Fields
    <3>2. /\ SGoes(a) /\ topo' = u /\ made' = made /\ siteOps' = siteOps
          /\ r.clear \/ ~r.assign \/ Has(r.site)
      BY <1>11, <2>1, <2>7, <3>1 DEF SubnetWrite, SWrites
    <3>3. v \in {NoSite} \cup SiteIdsOf(t)
      BY <1>3, <1>5, <2>2, <3>2 DEF SubnetSite, Has, At1, SiteIdsOf, TopoSound, Referred
    <3>4. \A x \in DOMAIN f : f[x] \in {NoSite} \cup SiteIdsOf(t)
      BY <1>5, <2>3, <3>3 DEF Set, TopoSound, Referred
    <3>5. TopoSound(u, made)
      BY <1>4, <1>5, <2>4, <3>4, ReferSound
    <3> QED
      BY <2>5, <3>2, <3>5, AcceptedKeeps
  <2> QED
    BY <2>6, <2>7
<1>12. CASE SubnetDelete(a)
  <2>1. PICK f : f = Cut(t.subnets, order[a].subnet)
    OBVIOUS
  <2>2. PICK u : u = [t EXCEPT !.subnets = f]
    OBVIOUS
  <2>3. SAt(a, "subnet delete") /\ Ordered(a)
    BY <1>12 DEF SubnetDelete, SAt
  <2>4. CASE SStops(a)
    BY <2>3, <2>4, StopKeeps
  <2>5. CASE ~SStops(a)
    <3>1. u = [topo EXCEPT !.subnets = Cut(@, order[a].subnet)]
      BY <1>3, <1>5, <2>1, <2>2 DEF Fields
    <3>2. SGoes(a) /\ topo' = u /\ made' = made /\ siteOps' = siteOps
      BY <1>12, <2>5, <3>1 DEF SubnetDelete, SWrites
    <3>3. \A x \in DOMAIN f : f[x] \in {NoSite} \cup SiteIdsOf(t)
      BY <1>5, <2>1 DEF Cut, TopoSound, Referred
    <3>4. TopoSound(u, made)
      BY <1>4, <1>5, <2>2, <3>3, ReferSound
    <3> QED
      BY <2>3, <3>2, <3>4, AcceptedKeeps
  <2> QED
    BY <2>4, <2>5
<1>13. CASE LinkWrite(a)
  <2>1. PICK r : r = order[a]
    OBVIOUS
  <2>2. PICK v : v = [sites |-> {At1(d).id : d \in ToSet(r.members)}, cost |-> r.cost, interval |-> r.interval]
    OBVIOUS
  <2>3. PICK f : f = Set(t.links, r.link, v)
    OBVIOUS
  <2>4. PICK u : u = [t EXCEPT !.links = f]
    OBVIOUS
  <2>5. SAt(a, "link write") /\ Ordered(a)
    BY <1>13 DEF LinkWrite, SAt
  <2>6. CASE SStops(a)
    BY <2>5, <2>6, StopKeeps
  <2>7. CASE ~SStops(a)
    <3>1. u = [topo EXCEPT !.links = Set(@, r.link, [sites |-> {At1(d).id : d \in ToSet(r.members)}, cost |-> r.cost, interval |-> r.interval])]
      BY <1>3, <1>5, <2>2, <2>3, <2>4 DEF Fields
    <3>2. /\ SGoes(a) /\ topo' = u /\ made' = made /\ siteOps' = siteOps
          /\ \A d \in ToSet(r.members) : Has(d)
      BY <1>13, <2>1, <2>7, <3>1 DEF LinkWrite, SWrites
    <3>3. v.sites \subseteq SiteIdsOf(t)
      BY <1>3, <2>2, <3>2 DEF Has, At1, SiteIdsOf
    <3>4. \A k \in DOMAIN f : "sites" \in DOMAIN f[k] /\ f[k].sites \subseteq SiteIdsOf(t)
      BY <1>5, <2>2, <2>3, <3>3 DEF Set, TopoSound, Referred, Fields
    <3>5. TopoSound(u, made)
      BY <1>4, <1>5, <2>4, <3>4, ReferSound
    <3> QED
      BY <2>5, <3>2, <3>5, AcceptedKeeps
  <2> QED
    BY <2>6, <2>7
<1>14. CASE LinkDelete(a)
  <2>1. PICK f : f = Cut(t.links, order[a].link)
    OBVIOUS
  <2>2. PICK u : u = [t EXCEPT !.links = f]
    OBVIOUS
  <2>3. SAt(a, "link delete") /\ Ordered(a)
    BY <1>14 DEF LinkDelete, SAt
  <2>4. CASE SStops(a)
    BY <2>3, <2>4, StopKeeps
  <2>5. CASE ~SStops(a)
    <3>1. u = [topo EXCEPT !.links = Cut(@, order[a].link)]
      BY <1>3, <1>5, <2>1, <2>2 DEF Fields
    <3>2. SGoes(a) /\ topo' = u /\ made' = made /\ siteOps' = siteOps
      BY <1>14, <2>5, <3>1 DEF LinkDelete, SWrites
    <3>3. \A k \in DOMAIN f : "sites" \in DOMAIN f[k] /\ f[k].sites \subseteq SiteIdsOf(t)
      BY <1>5, <2>1 DEF Cut, TopoSound, Referred, Fields
    <3>4. TopoSound(u, made)
      BY <1>4, <1>5, <2>2, <3>3, ReferSound
    <3> QED
      BY <2>3, <3>2, <3>4, AcceptedKeeps
  <2> QED
    BY <2>4, <2>5
<1>15. CASE SuffixesWrite(a)
  <2>1. PICK u : u = [t EXCEPT !.suffixes = Normalise(order[a].suffixes)]
    OBVIOUS
  <2>2. SWrites(a, TRUE, u) /\ SAt(a, "suffixes write")
    BY <1>3, <1>15, <2>1 DEF SuffixesWrite, SWrites
  <2>3. TopoSound(u, made)
    BY <1>4, <1>5, <2>1, ReferSound
  <2> QED
    BY <2>2, <2>3, WriteKeeps
<1> QED
  BY <1>2, <1>6, <1>7, <1>8, <1>9, <1>10, <1>11, <1>12, <1>13, <1>14, <1>15

(* The members of a link are finitely many.                                *)
LEMMA MembersFinite ==
  ASSUME NEW dns \in Seq(SiteDn)
  PROVE  IsFiniteSet(ToSet(dns)) /\ IsFiniteSet(Members(dns))
<1>1. IsFiniteSet(1..Len(dns))
  BY FS_Interval
<1>2. PICK g : g = [i \in 1..Len(dns) |-> dns[i]]
  OBVIOUS
<1>3. g \in Surjection(1..Len(dns), ToSet(dns))
  BY <1>2 DEF Surjection, ToSet
<1>4. IsFiniteSet(ToSet(dns))
  BY <1>1, <1>3, FS_Surjection
<1>5. PICK h : h = [d \in ToSet(dns) |-> SiteName[d]]
  OBVIOUS
<1>6. h \in Surjection(ToSet(dns), Members(dns))
  BY <1>5 DEF Surjection, Members
<1> QED
  BY <1>4, <1>6, FS_Surjection

LEMMA DueAre ==
  DueOf(4) = "site there" /\ DueOf(3) = "no servers" /\ DueOf(2) = "no subnets" /\ DueOf(1) = "site delete"
  BY DEF DueOf

LEMMA FourLong ==
  ASSUME NEW x, NEW y, NEW z, NEW w, NEW s, s = <<x, y, z, w>>
  PROVE  Len(s) = 4 /\ s[1] = x /\ s[2] = y /\ s[3] = z /\ s[4] = w
  OBVIOUS

LEMMA DeletionPlan ==
  ASSUME NEW s, NEW dn, NEW x, NEW y, NEW z, NEW w,
         s[1] = x, s[2] = y, s[3] = z, s[4] = w,
         x = <<"site there", dn>>, y = <<"no servers", dn>>, z = <<"no subnets", dn>>, w = <<"site delete", dn>>
  PROVE  \A i \in 1..4 : s[i][1] = DueOf(4 + 1 - i) /\ s[i][2] = dn
<1>1. /\ x[1] = "site there" /\ x[2] = dn /\ y[1] = "no servers" /\ y[2] = dn
      /\ z[1] = "no subnets" /\ z[2] = dn /\ w[1] = "site delete" /\ w[2] = dn
  BY ONLY x = <<"site there", dn>>, y = <<"no servers", dn>>, z = <<"no subnets", dn>>, w = <<"site delete", dn>>
<1>4. /\ s[1][1] = DueOf(4) /\ s[2][1] = DueOf(3) /\ s[3][1] = DueOf(2) /\ s[4][1] = DueOf(1)
      /\ s[1][2] = dn /\ s[2][2] = dn /\ s[3][2] = dn /\ s[4][2] = dn
  BY <1>1, DueAre
<1>5. ASSUME NEW i \in 1..4
      PROVE  s[i][1] = DueOf(4 + 1 - i) /\ s[i][2] = dn
  <2>1. \/ i = 1 /\ 4 + 1 - i = 4
        \/ i = 2 /\ 4 + 1 - i = 3
        \/ i = 3 /\ 4 + 1 - i = 2
        \/ i = 4 /\ 4 + 1 - i = 1
    BY ONLY <1>5
  <2> QED
    BY ONLY <1>4, <2>1
<1> QED
  BY <1>5

(* An operation begins, with no other under way when it says so.           *)
LEMMA BeginKeeps ==
  ASSUME SInv, NEW a \in SAdmin, SBegin(a)
  PROVE  SInv'
<1>1. /\ DOMAIN order = SAdmin /\ \A b \in SAdmin : Ordered(b) => IsOrder(order[b]) /\ order[b].nth <= siteOps
      /\ siteOps \in Nat /\ made \in Nat /\ TopoSound(topo, made)
  BY DEF SInv, OrdersSound
<1>2. PICK r \in SAsked :
        /\ ~Refused(r) /\ SitePlan(r) # <<>>
        /\ order' = [order EXCEPT ![a] = Extended(r,
             [todo |-> SitePlan(r), result |-> "none",
              nth |-> siteOps + 1, alone |-> \A b \in SAdmin \ {a} : ~Ordered(b)])]
  BY DEF SBegin
<1>3. PICK f : f = [todo |-> SitePlan(r), result |-> "none",
                    nth |-> siteOps + 1, alone |-> \A b \in SAdmin \ {a} : ~Ordered(b)]
  OBVIOUS
<1>4. PICK op : op = Extended(r, f)
  OBVIOUS
<1>5. /\ order' = [order EXCEPT ![a] = op] /\ siteOps' = siteOps + 1 /\ topo' = topo /\ made' = made
      /\ order'[a] = op /\ DOMAIN order' = SAdmin
      /\ \A b \in SAdmin \ {a} : order'[b] = order[b]
  BY <1>1, <1>2, <1>3, <1>4 DEF SBegin
<1>6. r \in SiteRequest
  BY SiteConstants
<1>7. DOMAIN r = {"do", "site", "to", "server", "subnet", "link", "assign", "clear", "members", "cost",
                  "interval", "suffixes"}
  BY <1>6 DEF SiteRequest
<1>8. DOMAIN f = {"todo", "result", "nth", "alone"}
  BY <1>3
<1>9. /\ DOMAIN op = DOMAIN r \cup DOMAIN f
      /\ \A x \in DOMAIN r : op[x] = r[x]
      /\ \A x \in DOMAIN f \ DOMAIN r : op[x] = f[x]
  BY <1>4 DEF Extended
<1>10. /\ op.do = r.do /\ op.site = r.site /\ op.to = r.to /\ op.server = r.server /\ op.members = r.members
  BY <1>7, <1>9
<1>11. op.todo = SitePlan(r) /\ op.nth = siteOps + 1
  BY <1>3, <1>7, <1>8, <1>9
<1>12. op.alone => \A b \in SAdmin \ {a} : ~Ordered(b)
  BY <1>3, <1>7, <1>8, <1>9
<1>13. r.do \in {"create link", "update link"} => Cardinality(Members(r.members)) >= 2
  <2>1. SUFFICES ASSUME r.do \in {"create link", "update link"}
                 PROVE  Cardinality(Members(r.members)) >= 2
    OBVIOUS
  <2>2. ~(Cardinality(Members(r.members)) < 2)
    BY <1>2, <2>1 DEF Refused
  <2>3. Cardinality(Members(r.members)) \in Nat
    BY <1>6, MembersFinite, FS_CardinalityType DEF SiteRequest
  <2> QED
    BY <2>2, <2>3
<1>14. IsOrder(op)
  <2>1. Bound(op.todo, op.do)
    BY <1>6, <1>10, <1>11, PlanBound
  <2>2. op.nth \in Nat
    BY <1>1, <1>11
  <2>3. op.site \in SiteDn /\ op.to \in SiteDn /\ op.server \in Server /\ op.members \in Seq(SiteDn)
    BY <1>6, <1>10 DEF SiteRequest
  <2>4. {"do", "site", "to", "server", "subnet", "link", "assign", "clear", "members", "cost", "interval",
         "todo", "result", "nth", "alone"} \subseteq DOMAIN op
    BY <1>7, <1>8, <1>9
  <2> QED
    BY <1>10, <1>13, <2>1, <2>2, <2>3, <2>4 DEF IsOrder
<1>15. \A b \in SAdmin : Ordered(b)' => IsOrder(order'[b]) /\ order'[b].nth <= siteOps'
  <2> SUFFICES ASSUME NEW b \in SAdmin, Ordered(b)'
               PROVE  IsOrder(order'[b]) /\ order'[b].nth <= siteOps'
    OBVIOUS
  <2>1. CASE b = a
    BY <1>1, <1>5, <1>11, <1>14, <2>1
  <2>2. CASE b # a
    <3>1. order'[b] = order[b]
      BY <1>5, <2>2
    <3>2. IsOrder(order[b]) /\ order[b].nth <= siteOps
      BY <1>1, <3>1 DEF Ordered
    <3>3. order[b].nth \in Nat
      BY <3>2 DEF IsOrder
    <3> QED
      BY <1>1, <1>5, <3>1, <3>2, <3>3
  <2> QED
    BY <2>1, <2>2
<1>16. OrdersSound'
  BY <1>5, <1>15 DEF OrdersSound
<1>17. Crossed'
  <2> SUFFICES ASSUME NEW b \in SAdmin, Ordered(b)', SUndisturbed(b)'
               PROVE  /\ \A c \in SAdmin \ {b} : ~Ordered(c)'
                      /\ order'[b].do = "delete site" => Emptied(topo', order'[b].todo, order'[b].site)
    BY DEF Crossed
  <2>1. b = a
    <3>1. SUFFICES ASSUME b # a PROVE FALSE
      OBVIOUS
    <3>2. order'[b] = order[b]
      BY <1>5, <3>1
    <3>3. IsOrder(order[b]) /\ order[b].nth <= siteOps
      BY <1>1, <3>2 DEF Ordered
    <3>4. order[b].nth \in Nat
      BY <3>3 DEF IsOrder
    <3>5. siteOps' = order[b].nth
      BY <3>2 DEF SUndisturbed
    <3> QED
      BY <1>1, <1>5, <3>3, <3>4, <3>5
  <2>2. \A c \in SAdmin \ {b} : ~Ordered(c)'
    BY <1>5, <1>12, <2>1 DEF SUndisturbed, Ordered
  <2>3. ASSUME op.do = "delete site"
        PROVE  Emptied(topo, op.todo, op.site)
    <3>1. PICK s : s = op.todo
      OBVIOUS
    <3>2. PICK dn : dn = op.site
      OBVIOUS
    <3>3. s = <<One("site there", r), One("no servers", r), One("no subnets", r), One("site delete", r)>>
      BY <1>10, <1>11, <2>3, <3>1 DEF SitePlan
    <3>4. /\ Len(s) = 4
          /\ s[1] = One("site there", r) /\ s[2] = One("no servers", r) /\ s[3] = One("no subnets", r)
          /\ s[4] = One("site delete", r)
      BY <3>3, FourLong
    <3>5. Len(s) = 4 /\ \A i \in 1..4 : s[i][1] = DueOf(4 + 1 - i) /\ s[i][2] = dn
      <4>1. /\ s[1] = <<"site there", dn>> /\ s[2] = <<"no servers", dn>> /\ s[3] = <<"no subnets", dn>>
            /\ s[4] = <<"site delete", dn>>
        BY <1>10, <3>2, <3>4 DEF One
      <4> QED
        BY <3>4, <4>1, DeletionPlan
    <3>7. Emptied(topo, s, dn)
      BY <3>5 DEF Emptied
    <3> QED
      BY <3>1, <3>2, <3>7
  <2> QED
    BY <1>5, <2>1, <2>2, <2>3
<1> QED
  BY <1>1, <1>5, <1>16, <1>17 DEF SInv

(***************************************************************************)
(* The theorems                                                            *)
(***************************************************************************)
LEMMA LaidIsSound == SitesInit => SInv
<1> SUFFICES ASSUME SitesInit PROVE SInv
  OBVIOUS
<1>1. topo = Laid /\ siteOps = 0 /\ made = Cardinality(DOMAIN Laid.sites) /\ order = [a \in SAdmin |-> SIdle("ok")]
  BY DEF SitesInit
<1>2. PICK m : m = Cardinality(DOMAIN Laid.sites)
  OBVIOUS
<1>3. m \in Nat
  BY <1>2, LaidSound, FS_CardinalityType
<1>4. \A a \in SAdmin : ~Ordered(a)
  BY <1>1 DEF Ordered, SIdle
<1>5. DOMAIN order = SAdmin
  BY <1>1
<1>6. PICK t : t = Laid
  OBVIOUS
<1>7. Fields(t)
  BY <1>6, LaidSound DEF Fields, SiteEntry, LinkEntry
<1>8. Numbered(t, m)
  BY <1>2, <1>3, <1>6, LaidSound DEF Numbered, SiteEntry, Ids
<1>9. Contained(t)
  BY <1>6, LaidSound, SiteConstants DEF Contained, Ids
<1>10. Referred(t)
  BY <1>6, LaidSound DEF Referred, SiteIdsOf
<1>11. TopoSound(topo, made)
  BY <1>1, <1>2, <1>6, <1>7, <1>8, <1>9, <1>10 DEF TopoSound
<1> QED
  BY <1>1, <1>2, <1>3, <1>4, <1>5, <1>11 DEF SInv, OrdersSound, Crossed

LEMMA NextKeeps == SInv /\ [SitesNext]_siteVars => SInv'
<1> SUFFICES ASSUME SInv, [SitesNext]_siteVars PROVE SInv'
  OBVIOUS
<1>1. CASE UNCHANGED siteVars
  BY <1>1 DEF siteVars, SInv, OrdersSound, Crossed, Ordered, SUndisturbed
<1>2. CASE SitesNext
  <2>1. PICK a \in SAdmin :
          \/ SBegin(a) \/ Ask(a)
          \/ SiteAdd(a) \/ SettingsAdd(a) \/ ServersAdd(a) \/ SiteRename(a) \/ SiteDelete(a)
          \/ ServerMove(a) \/ SubnetWrite(a) \/ SubnetDelete(a) \/ LinkWrite(a) \/ LinkDelete(a)
          \/ SuffixesWrite(a) \/ SFails(a)
    BY <1>2 DEF SitesNext
  <2>2. CASE SBegin(a)
    BY <2>2, BeginKeeps
  <2>3. CASE Ask(a)
    BY <2>3, AskKeeps
  <2>4. CASE SFails(a)
    BY <2>4, StopKeeps DEF SFails
  <2>5. CASE \/ SiteAdd(a) \/ SettingsAdd(a) \/ ServersAdd(a) \/ SiteRename(a) \/ SiteDelete(a)
             \/ ServerMove(a) \/ SubnetWrite(a) \/ SubnetDelete(a) \/ LinkWrite(a) \/ LinkDelete(a)
             \/ SuffixesWrite(a)
    BY <2>5, ChangeKeeps
  <2> QED
    BY <2>1, <2>2, <2>3, <2>4, <2>5
<1> QED
  BY <1>1, <1>2

(* Whoever changes the partition, and whatever is answered in between: each *)
(* site has an id of its own, each server is in a site's container, each    *)
(* subnet and each link leads to sites that are there; and a deletion no    *)
(* other session crossed still finds what it learnt.                        *)
THEOREM TopologySound == SitesSpec => []SInv
<1>1. SitesInit => SInv
  BY LaidIsSound
<1>2. SInv /\ [SitesNext]_siteVars => SInv'
  BY NextKeeps
<1> QED
  BY <1>1, <1>2, PTL DEF SitesSpec

(* Only the session whose request is due can do it.                        *)
LEMMA OwnStep ==
  ASSUME SInv, NEW a \in SAdmin, Ordered(a), order'[a] # order[a], SitesNext
  PROVE  \/ Ask(a) \/ SiteAdd(a) \/ SettingsAdd(a) \/ ServersAdd(a) \/ SiteRename(a) \/ SiteDelete(a)
         \/ ServerMove(a) \/ SubnetWrite(a) \/ SubnetDelete(a) \/ LinkWrite(a) \/ LinkDelete(a)
         \/ SuffixesWrite(a) \/ SStops(a)
<1>1. DOMAIN order = SAdmin
  BY DEF SInv, OrdersSound
<1>2. PICK b \in SAdmin :
          \/ SBegin(b) \/ Ask(b)
          \/ SiteAdd(b) \/ SettingsAdd(b) \/ ServersAdd(b) \/ SiteRename(b) \/ SiteDelete(b)
          \/ ServerMove(b) \/ SubnetWrite(b) \/ SubnetDelete(b) \/ LinkWrite(b) \/ LinkDelete(b)
          \/ SuffixesWrite(b) \/ SFails(b)
  BY DEF SitesNext
<1>3. \E e : order' = [order EXCEPT ![b] = e]
  <2>1. SGoes(b) => \E e : order' = [order EXCEPT ![b] = e]
    BY DEF SGoes
  <2>2. SStops(b) => \E e : order' = [order EXCEPT ![b] = e]
    BY DEF SStops
  <2>3. SBegin(b) => \E e : order' = [order EXCEPT ![b] = e]
    BY DEF SBegin
  <2>4. \/ SGoes(b) \/ SStops(b) \/ SBegin(b)
    BY <1>2 DEF Ask, SReads, SWrites, SiteAdd, SettingsAdd, ServersAdd, SiteRename, SiteDelete, ServerMove,
                SubnetWrite, SubnetDelete, LinkWrite, LinkDelete, SuffixesWrite, SFails
  <2> QED
    BY <2>1, <2>2, <2>3, <2>4
<1>4. b = a
  BY <1>1, <1>3
<1>5. ~SBegin(a)
  BY DEF SBegin
<1> QED
  BY <1>2, <1>4, <1>5 DEF SFails

LEMMA DeletedEmptyStep ==
  ASSUME SInv, SitesNext
  PROVE  DeletedEmpty
<1> SUFFICES ASSUME NEW a \in SAdmin, SAt(a, "site delete"), order'[a] # order[a], SUndisturbed(a)
             PROVE  /\ topo'.servers = topo.servers
                    /\ \A n \in DOMAIN topo.subnets : topo'.subnets[n] = topo.subnets[n]
  BY DEF DeletedEmpty
<1>1. Ordered(a) /\ Head(order[a].todo)[1] = "site delete"
  BY DEF SAt
<1>2. SiteDelete(a) \/ SStops(a)
  BY <1>1, OwnStep DEF SAt, Ask, SiteAdd, SettingsAdd, ServersAdd, SiteRename, ServerMove,
     SubnetWrite, SubnetDelete, LinkWrite, LinkDelete, SuffixesWrite
<1>3. CASE SStops(a)
  BY <1>3 DEF SStops
<1>4. CASE SiteDelete(a) /\ ~SStops(a)
  <2>1. PICK t : t = topo
    OBVIOUS
  <2>2. PICK m \in Nat : m = made
    BY DEF SInv
  <2>3. PICK s : s = order[a].todo
    OBVIOUS
  <2>4. PICK dn : dn = order[a].site
    OBVIOUS
  <2>5. IsOrder(order[a]) /\ s \in Seq(Step \X SiteDn) /\ Bound(s, order[a].do) /\ s # <<>>
    BY <1>1, <2>3 DEF SInv, OrdersSound, IsOrder, Bound, Ordered
  <2>6. order[a].do = "delete site"
    BY <1>1, <2>3, <2>5, BoundTail DEF Fit
  <2>7. Emptied(t, s, dn)
    BY <1>1, <2>1, <2>3, <2>4, <2>6 DEF SInv, Crossed
  <2>8. Head(s)[1] = DueOf(Len(s)) /\ Head(s)[2] = dn /\ Len(s) \in 1..4
    BY <2>5, <2>7, EmptiedAt
  <2>9. Len(s) = 1
    BY <1>1, <2>3, <2>8, DueIs
  <2>10. ServersIn(t, dn) = {} /\ SubnetsIn(t, dn) = {}
    <3>1. PICK k : k = Len(s)
      OBVIOUS
    <3>2. k <= 2 /\ k <= 1
      BY ONLY <2>9, <3>1
    <3>3. Len(s) <= 2 /\ Len(s) <= 1
      BY <3>1, <3>2
    <3> QED
      BY <2>7, <3>3 DEF Emptied
  <2>11. PICK n : n = SiteName[dn]
    OBVIOUS
  <2>12. Asks(a) = dn
    BY <2>3, <2>8 DEF Asks
  <2>13. PICK id : id = t.sites[n].id
    OBVIOUS
  <2>14. PICK u : u = topo'
    OBVIOUS
  <2>15. n \in DOMAIN t.sites /\ TopoSound(t, m)
    BY <1>4, <2>1, <2>2, <2>11, <2>12 DEF SiteDelete, SWrites, Has, SInv
  <2>16. u = Gone(t, n, id)
    <3>1. Has(Asks(a)) /\ At1(Asks(a)).id = id /\ SiteName[Asks(a)] = n
      BY <2>1, <2>11, <2>12, <2>13, <2>15 DEF Has, At1
    <3>2. topo' = [topo EXCEPT !.sites = Cut(topo.sites, n),
                               !.servers = {p \in topo.servers : p[2] # id},
                               !.subnets = Unassigned(topo.subnets, id),
                               !.links = Unlinked(topo.links, id)]
      BY <1>4, <3>1 DEF SiteDelete, SWrites
    <3> QED
      BY <2>1, <2>14, <3>2 DEF Gone
  <2>17. /\ \A p : p \in u.servers <=> p \in t.servers /\ p[2] # id
         /\ \A x \in DOMAIN t.subnets : t.subnets[x] # id => u.subnets[x] = t.subnets[x]
    <3>1. Cleared(t, id, u)
      BY <2>13, <2>15, <2>16, DeleteSound
    <3> QED
      BY <3>1 DEF Cleared
  <2>18. ASSUME NEW p \in t.servers
         PROVE  p[2] # id
    <3>1. SUFFICES ASSUME p[2] = id PROVE FALSE
      OBVIOUS
    <3>2. Contained(t) /\ Numbered(t, m)
      BY <2>15 DEF TopoSound
    <3>3. PICK k \in DOMAIN t.sites : t.sites[k].id = p[2] /\ t.sites[k].servers
      BY <3>2 DEF Contained
    <3>4. k = n
      BY <2>13, <2>15, <3>1, <3>2, <3>3 DEF Numbered
    <3>50. p \in Server \X Int
      BY <3>2 DEF Contained
    <3>5. PICK z \in Server, i \in Int : p = <<z, i>>
      BY ONLY <3>50
    <3>6. p = <<z, id>>
      BY <3>1, <3>5
    <3>7. z \in ServersIn(t, dn)
      BY <2>11, <2>13, <2>15, <3>3, <3>4, <3>6 DEF ServersIn
    <3> QED
      BY <2>10, <3>7
  <2>19. u.servers = t.servers
    BY <2>17, <2>18
  <2>20. ASSUME NEW x \in DOMAIN t.subnets
         PROVE  u.subnets[x] = t.subnets[x]
    <3>1. t.subnets[x] # id
      BY <2>10, <2>11, <2>13, <2>15 DEF SubnetsIn
    <3> QED
      BY <2>17, <3>1
  <2> QED
    BY <2>1, <2>14, <2>19, <2>20
<1> QED
  BY <1>2, <1>3, <1>4

(* Of two names or more, an image that tells them apart has two or more.   *)
LEMMA TwoApart ==
  ASSUME NEW S, IsFiniteSet(S), Cardinality(S) >= 2
  PROVE  \E x, y \in S : x # y
<1>1. SUFFICES ASSUME \A x, y \in S : x = y PROVE FALSE
  OBVIOUS
<1>2. S # {}
  <2>1. SUFFICES ASSUME S = {} PROVE FALSE
    OBVIOUS
  <2>2. Cardinality(S) = 0
    BY <2>1, FS_EmptySet
  <2> QED
    BY <2>2
<1>3. PICK x \in S : TRUE
  BY <1>2
<1>4. S = {x}
  BY <1>1, <1>3
<1>5. Cardinality(S) = 1
  BY <1>4, FS_Singleton
<1> QED
  BY <1>5

LEMMA TwoAtLeast ==
  ASSUME NEW S, IsFiniteSet(S), NEW x \in S, NEW y \in S, x # y
  PROVE  Cardinality(S) >= 2
<1>1. IsFiniteSet({x}) /\ Cardinality({x}) = 1
  BY FS_Singleton
<1>2. IsFiniteSet({x} \cup {y}) /\ Cardinality({x} \cup {y}) = 2
  <2>1. IsFiniteSet({x} \cup {y}) /\ Cardinality({x} \cup {y}) = Cardinality({x}) + 1
    BY <1>1, FS_AddElement
  <2> QED
    BY <1>1, <2>1
<1>3. ({x} \cup {y}) \subseteq S
  OBVIOUS
<1>4. Cardinality({x} \cup {y}) <= Cardinality(S)
  BY <1>3, FS_Subset
<1>5. Cardinality(S) \in Nat
  BY FS_CardinalityType
<1> QED
  BY <1>2, <1>4, <1>5

LEMMA LinksJoinStep ==
  ASSUME SInv, SitesNext
  PROVE  LinksJoin
<1> SUFFICES ASSUME NEW a \in SAdmin, SAt(a, "link write"), order'[a] # order[a], topo' # topo
             PROVE  Cardinality(topo'.links[order[a].link].sites) >= 2
  BY DEF LinksJoin
<1>1. Ordered(a) /\ Head(order[a].todo)[1] = "link write"
  BY DEF SAt
<1>2. LinkWrite(a) \/ SStops(a)
  BY <1>1, OwnStep DEF SAt, Ask, SiteAdd, SettingsAdd, ServersAdd, SiteRename, SiteDelete, ServerMove,
     SubnetWrite, SubnetDelete, LinkDelete, SuffixesWrite
<1>3. ~SStops(a)
  BY DEF SStops
<1>4. PICK t : t = topo
  OBVIOUS
<1>5. PICK m \in Nat : m = made
  BY DEF SInv
<1>6. TopoSound(t, m)
  BY <1>4, <1>5 DEF SInv
<1>7. PICK r : r = order[a]
  OBVIOUS
<1>8. IsOrder(r) /\ r.todo # <<>> /\ Bound(r.todo, r.do)
  BY <1>1, <1>7 DEF SInv, OrdersSound, IsOrder, Ordered
<1>9. r.do \in {"create link", "update link"}
  BY <1>1, <1>7, <1>8, BoundTail DEF Fit
<1>10. r.members \in Seq(SiteDn) /\ Cardinality(Members(r.members)) >= 2
  BY <1>8, <1>9 DEF IsOrder
<1>11. PICK D : D = ToSet(r.members)
  OBVIOUS
<1>12. IsFiniteSet(D) /\ IsFiniteSet(Members(r.members))
  BY <1>10, <1>11, MembersFinite
<1>13. \A d \in D : SiteName[d] \in DOMAIN t.sites
  BY <1>2, <1>3, <1>4, <1>7, <1>11 DEF LinkWrite, SWrites, Has
<1>14. PICK I : I = {t.sites[SiteName[d]].id : d \in D}
  OBVIOUS
<1>15. topo'.links[r.link].sites = I
  <2>1. PICK v : v = [sites |-> {At1(d).id : d \in D}, cost |-> r.cost, interval |-> r.interval]
    OBVIOUS
  <2>2. topo' = [topo EXCEPT !.links = Set(@, r.link, v)]
    BY <1>2, <1>3, <1>7, <1>11, <2>1 DEF LinkWrite, SWrites
  <2>3. v.sites = I
    BY <1>4, <1>14, <2>1 DEF At1
  <2>4. PICK f : f = Set(t.links, r.link, v)
    OBVIOUS
  <2>5. f[r.link] = v
    BY <2>4 DEF Set
  <2>6. topo'.links = f
    BY <1>4, <1>6, <2>2, <2>4 DEF TopoSound, Fields
  <2> QED
    BY <2>3, <2>5, <2>6
<1>16. PICK x \in Members(r.members), y \in Members(r.members) : x # y
  BY <1>10, <1>12, TwoApart
<1>17. PICK d \in D, e \in D : SiteName[d] # SiteName[e]
  BY <1>11, <1>16 DEF Members
<1>18. t.sites[SiteName[d]].id # t.sites[SiteName[e]].id
  BY <1>6, <1>13, <1>17 DEF TopoSound, Numbered
<1>19. IsFiniteSet(I)
  <2>1. PICK h : h = [z \in D |-> t.sites[SiteName[z]].id]
    OBVIOUS
  <2>2. h \in Surjection(D, I)
    BY <1>14, <2>1 DEF Surjection
  <2> QED
    BY <1>12, <2>2, FS_Surjection
<1>20. t.sites[SiteName[d]].id \in I /\ t.sites[SiteName[e]].id \in I
  BY <1>14, <1>17
<1>21. Cardinality(I) >= 2
  BY <1>18, <1>19, <1>20, TwoAtLeast
<1> QED
  BY <1>7, <1>15, <1>21

(* A site is not deleted out from under a domain controller and no subnet  *)
(* loses its site with it, unless another session crossed the deletion; a  *)
(* link is written only between two sites or more that are there.          *)
THEOREM ReferencesHoldHolds == SitesSpec => ReferencesHold
<1>1. SInv /\ [SitesNext]_siteVars => [DeletedEmpty /\ LinksJoin]_siteVars
  <2>1. SInv /\ SitesNext => DeletedEmpty /\ LinksJoin
    BY DeletedEmptyStep, LinksJoinStep
  <2> QED
    BY <2>1
<1> QED
  BY <1>1, TopologySound, PTL DEF SitesSpec, ReferencesHold

---------------------------------------------------------------------------
(***************************************************************************)
(* Records: where the first SOA and the first match are, and what is left  *)
(* of them by a change                                                     *)
(***************************************************************************)
(* i is the first of the places I, or 0 if there is none.                  *)
FirstOf(i, I) == IF I = {} THEN i = 0 ELSE i \in I /\ \A j \in I : i <= j
Soas(rs) == {i \in 1..Len(rs) : rs[i].type = "SOA"}
Matching(rs, old) == {i \in 1..Len(rs) : rs[i].type = "A" /\ rs[i].data = Normal(old)}

LEMMA MinIsFirst ==
  ASSUME NEW I, I \subseteq Nat
  PROVE  FirstOf(IF I # {} THEN Min(I) ELSE 0, I)
<1>1. CASE I = {}
  BY <1>1 DEF FirstOf
<1>2. CASE I # {}
  <2>1. \E d \in I : \A e \in I : d <= e
    BY <1>2, Least
  <2>2. Min(I) \in I /\ \A e \in I : Min(I) <= e
    BY <2>1 DEF Min
  <2> QED
    BY <1>2, <2>2 DEF FirstOf
<1> QED
  BY <1>1, <1>2

LEMMA FirstIsOne ==
  ASSUME NEW I, I \subseteq Nat, NEW i, NEW j, FirstOf(i, I), FirstOf(j, I)
  PROVE  i = j
<1>1. CASE I = {}
  BY <1>1 DEF FirstOf
<1>2. CASE I # {}
  <2>1. i \in Nat /\ j \in Nat /\ i <= j /\ j <= i
    BY <1>2 DEF FirstOf
  <2> QED
    BY ONLY <2>1
<1> QED
  BY <1>1, <1>2

LEMMA SoaIs ==
  ASSUME NEW rs \in Seq(Record)
  PROVE  FirstOf(FirstSoa(rs), Soas(rs)) /\ Soas(rs) \subseteq Nat
<1>1. Len(rs) \in Nat
  OBVIOUS
<1>2. Soas(rs) \subseteq Nat
  BY <1>1 DEF Soas
<1>3. FirstSoa(rs) = IF Soas(rs) # {} THEN Min(Soas(rs)) ELSE 0
  BY DEF FirstSoa, SelectInSeq, Soas
<1> QED
  BY <1>2, <1>3, MinIsFirst

LEMMA MatchIs ==
  ASSUME NEW rs \in Seq(Record), NEW old
  PROVE  FirstOf(FirstMatch(rs, "A", old), Matching(rs, old)) /\ Matching(rs, old) \subseteq Nat
<1>1. Len(rs) \in Nat
  OBVIOUS
<1>2. Matching(rs, old) \subseteq Nat
  BY <1>1 DEF Matching
<1>3. FirstMatch(rs, "A", old) = IF Matching(rs, old) # {} THEN Min(Matching(rs, old)) ELSE 0
  BY DEF FirstMatch, Matches, SelectInSeq, Matching
<1> QED
  BY <1>2, <1>3, MinIsFirst

(* The serial the records of a zone's own name say.                        *)
SerialOf(rs) == IF FirstSoa(rs) = 0 THEN 0 ELSE rs[FirstSoa(rs)].serial

LEMMA RecordIs ==
  ASSUME NEW r \in Record
  PROVE  /\ r = [type |-> r.type, data |-> r.data, serial |-> r.serial]
         /\ r.serial \in 0..MaxSerial
         /\ r.type = "SOA" => r.data = "soa"
         /\ \A n \in 0..MaxSerial : [r EXCEPT !.serial = n] = [type |-> r.type, data |-> r.data, serial |-> n]
<1>1. 0 \in 0..MaxSerial
  BY ZoneConstants
<1> QED
  BY <1>1 DEF Record

LEMMA SoaAt ==
  ASSUME NEW rs \in Seq(Record), FirstSoa(rs) # 0
  PROVE  /\ FirstSoa(rs) \in 1..Len(rs) /\ rs[FirstSoa(rs)] \in Record /\ rs[FirstSoa(rs)].type = "SOA"
         /\ SerialOf(rs) = rs[FirstSoa(rs)].serial /\ SerialOf(rs) \in 0..MaxSerial
<1>1. FirstSoa(rs) \in Soas(rs)
  BY SoaIs DEF FirstOf
<1>2. FirstSoa(rs) \in 1..Len(rs) /\ rs[FirstSoa(rs)].type = "SOA"
  BY <1>1 DEF Soas
<1>3. rs[FirstSoa(rs)] \in Record
  BY <1>2
<1> QED
  BY <1>2, <1>3, RecordIs DEF SerialOf

(* What a serial advanced in the records of the zone's own name leaves.    *)
Bumped(rs, new) ==
  /\ new \in Seq(Record) /\ Len(new) = Len(rs)
  /\ FirstSoa(new) = FirstSoa(rs) /\ \A old : FirstMatch(new, "A", old) = FirstMatch(rs, "A", old)
  /\ SerialOf(new) = SerialOf(rs) + 1 /\ new # rs
LEMMA BumpedIs ==
  ASSUME NEW rs \in Seq(Record), FirstSoa(rs) # 0, SerialOf(rs) # MaxSerial
  PROVE  Bumped(rs, BumpedSoa(rs)) /\ Stamp(rs) \in 0..MaxSerial
<1>1. PICK i : i = FirstSoa(rs)
  OBVIOUS
<1>2. i \in 1..Len(rs) /\ rs[i] \in Record /\ rs[i].type = "SOA" /\ SerialOf(rs) = rs[i].serial /\ i # 0
  BY <1>1, SoaAt
<1>3. PICK n : n = rs[i].serial
  OBVIOUS
<1>4. n \in 0..MaxSerial /\ n # MaxSerial /\ n + 1 \in 0..MaxSerial /\ n + 1 # n
  <2>1. n \in 0..MaxSerial /\ n # MaxSerial
    BY <1>2, <1>3, RecordIs
  <2>2. MaxSerial \in Nat
    BY ZoneConstants
  <2> QED
    BY ONLY <2>1, <2>2
<1>5. PICK r : r = [rs[i] EXCEPT !.serial = n + 1]
  OBVIOUS
<1>6. rs[i] = [type |-> "SOA", data |-> "soa", serial |-> n]
  BY <1>2, <1>3, RecordIs
<1>7. r = [type |-> "SOA", data |-> "soa", serial |-> n + 1]
  BY <1>5, <1>6
<1>8. r \in Record
  BY <1>4, <1>7 DEF Record
<1>9. PICK new : new = [rs EXCEPT ![i] = r]
  OBVIOUS
<1>10. BumpedSoa(rs) = new
  <2>1. BumpedSoa(rs) = [rs EXCEPT ![i].serial = @ + 1]
    BY <1>1, <1>2, <1>3, <1>4 DEF BumpedSoa
  <2>2. r = [rs[i] EXCEPT !.serial = rs[i].serial + 1]
    BY <1>3, <1>5
  <2> QED
    BY <1>9, <2>1, <2>2
<1>11. /\ new \in Seq(Record) /\ Len(new) = Len(rs) /\ new[i] = r
       /\ \A j \in 1..Len(rs) : j # i => new[j] = rs[j]
  BY <1>2, <1>8, <1>9
<1>12. Soas(new) = Soas(rs)
  <2>1. \A j \in 1..Len(rs) : (new[j].type = "SOA") = (rs[j].type = "SOA")
    BY <1>2, <1>7, <1>11
  <2> QED
    BY <1>11, <2>1 DEF Soas
<1>13. ASSUME NEW old PROVE Matching(new, old) = Matching(rs, old)
  <2>1. \A j \in 1..Len(rs) : (new[j].type = "A" /\ new[j].data = Normal(old)) = (rs[j].type = "A" /\ rs[j].data = Normal(old))
    BY <1>2, <1>7, <1>11
  <2> QED
    BY <1>11, <2>1 DEF Matching
<1>14. FirstSoa(new) = FirstSoa(rs)
  BY <1>11, <1>12, SoaIs, FirstIsOne
<1>15. ASSUME NEW old PROVE FirstMatch(new, "A", old) = FirstMatch(rs, "A", old)
  <2>1. /\ FirstOf(FirstMatch(new, "A", old), Matching(rs, old)) /\ Matching(rs, old) \subseteq Nat
        /\ FirstOf(FirstMatch(rs, "A", old), Matching(rs, old))
    BY <1>11, <1>13, MatchIs
  <2> QED
    BY ONLY <2>1, FirstIsOne
<1>16. SerialOf(new) = n + 1 /\ SerialOf(rs) = n
  BY <1>1, <1>2, <1>3, <1>7, <1>11, <1>14 DEF SerialOf
<1>17. new # rs
  BY <1>4, <1>16
<1>18. Stamp(rs) = n + 1
  BY <1>1, <1>2, <1>3, <1>4 DEF Stamp
<1> QED
  BY <1>4, <1>10, <1>11, <1>14, <1>15, <1>16, <1>17, <1>18 DEF Bumped

LEMMA MatchAt ==
  ASSUME NEW rs \in Seq(Record), NEW old, FirstMatch(rs, "A", old) # 0
  PROVE  /\ FirstMatch(rs, "A", old) \in 1..Len(rs) /\ rs[FirstMatch(rs, "A", old)].type = "A"
         /\ rs[FirstMatch(rs, "A", old)].data = Normal(old)
<1>1. FirstMatch(rs, "A", old) \in Matching(rs, old)
  BY MatchIs DEF FirstOf
<1> QED
  BY <1>1 DEF Matching

IsChange(op) ==
  /\ op.do \in {"create", "update", "delete"} /\ op.old \in DOMAIN Spelling /\ op.data \in DOMAIN Spelling
  /\ op.serial \in 0..MaxSerial
Finds(op, rs) == op.do # "create" => FirstMatch(rs, "A", op.old) # 0
(* What a change of one record leaves of the records it was read with.     *)
Changed(op, rs, new) ==
  /\ new \in Seq(Record)
  /\ Len(new) = Len(rs) + (IF op.do = "create" THEN 1 ELSE IF op.do = "delete" THEN -1 ELSE 0)
  /\ SerialOf(new) = SerialOf(rs)
  /\ \A j \in 1..Len(rs) : (op.do # "create" /\ j = FirstMatch(rs, "A", op.old)) \/ \E k \in 1..Len(new) : new[k] = rs[j]
  /\ op.do # "delete" => \E k \in 1..Len(new) : new[k] = NewRecord(op)

LEMMA NewIs ==
  ASSUME NEW op, IsChange(op)
  PROVE  NewRecord(op) \in Record /\ NewRecord(op).type = "A" /\ NewRecord(op).data = Spelling[op.data]
         /\ NewRecord(op).serial = op.serial
<1>1. Normal(op.data) \in Datum /\ Normal(op.data) = Spelling[op.data]
  BY ZoneConstants DEF IsChange, Normal
<1>2. PICK d \in Datum : d = Normal(op.data)
  BY <1>1
<1>3. PICK s \in 0..MaxSerial : s = op.serial
  BY DEF IsChange
<1>4. NewRecord(op) = [type |-> "A", data |-> d, serial |-> s]
  BY <1>2, <1>3 DEF NewRecord
<1> QED
  BY <1>1, <1>2, <1>3, <1>4 DEF Record

(* Two sequences whose first SOAs are the same say the same serial.        *)
LEMMA SameSerial ==
  ASSUME NEW rs \in Seq(Record), NEW new \in Seq(Record), NEW i, NEW k,
         FirstOf(i, Soas(rs)), FirstOf(k, Soas(new)), (Soas(rs) = {}) = (Soas(new) = {}),
         Soas(rs) # {} => new[k] = rs[i]
  PROVE  SerialOf(new) = SerialOf(rs)
<1>1. FirstSoa(rs) = i /\ FirstSoa(new) = k
  BY SoaIs, FirstIsOne
<1>2. CASE Soas(rs) = {}
  BY <1>1, <1>2 DEF FirstOf, SerialOf
<1>3. CASE Soas(rs) # {}
  <2>1. i # 0 /\ k # 0
    BY <1>3, SoaIs DEF FirstOf, Soas
  <2> QED
    BY <1>1, <1>3, <2>1 DEF SerialOf
<1> QED
  BY <1>2, <1>3

LEMMA AppendedChange ==
  ASSUME NEW op, IsChange(op), op.do = "create", NEW rs \in Seq(Record)
  PROVE  Changed(op, rs, Edited(op, rs))
<1>1. PICK r \in Record : r = NewRecord(op) /\ r.type = "A"
  BY NewIs
<1>2. PICK new : new = Append(rs, r)
  OBVIOUS
<1>3. Edited(op, rs) = new
  BY <1>1, <1>2 DEF Edited
<1>4. PICK n \in Nat : n = Len(rs)
  OBVIOUS
<1>5. /\ new \in Seq(Record) /\ Len(new) = n + 1 /\ new[n + 1] = r
      /\ \A j \in 1..n : new[j] = rs[j]
  BY <1>2, <1>4
<1>6. Soas(new) = Soas(rs)
  <2>1. \A j \in 1..n + 1 : j \in 1..n \/ j = n + 1
    BY ONLY n \in Nat
  <2>2. \A j : j \in 1..n => j \in 1..n + 1
    BY ONLY n \in Nat
  <2> QED
    BY <1>1, <1>4, <1>5, <2>1, <2>2 DEF Soas
<1>7. SerialOf(new) = SerialOf(rs)
  <2>1. PICK i : i = FirstSoa(rs) /\ FirstOf(i, Soas(rs)) /\ Soas(rs) \subseteq Nat
    BY SoaIs
  <2>2. Soas(rs) # {} => new[i] = rs[i]
    <3>1. Soas(rs) # {} => i \in Soas(rs)
      BY <2>1 DEF FirstOf
    <3> QED
      BY <1>4, <1>5, <3>1 DEF Soas
  <2> QED
    BY <1>5, <1>6, <2>1, <2>2, SameSerial
<1>8. \A j \in 1..n : j \in 1..n + 1
  BY ONLY n \in Nat
<1>9. n + 1 \in 1..n + 1
  BY ONLY n \in Nat
<1> QED
  BY <1>1, <1>3, <1>4, <1>5, <1>7, <1>8, <1>9 DEF Changed

LEMMA ReplacedChange ==
  ASSUME NEW op, IsChange(op), op.do = "update", NEW rs \in Seq(Record), Finds(op, rs)
  PROVE  Changed(op, rs, Edited(op, rs))
<1>1. PICK r \in Record : r = NewRecord(op) /\ r.type = "A"
  BY NewIs
<1>2. PICK m : m = FirstMatch(rs, "A", op.old)
  OBVIOUS
<1>3. m \in 1..Len(rs) /\ rs[m].type = "A"
  BY <1>2, MatchAt DEF Finds
<1>4. PICK new : new = [rs EXCEPT ![m] = r]
  OBVIOUS
<1>5. Edited(op, rs) = new
  BY <1>1, <1>2, <1>4 DEF Edited
<1>6. /\ new \in Seq(Record) /\ Len(new) = Len(rs) /\ new[m] = r
      /\ \A j \in 1..Len(rs) : j # m => new[j] = rs[j]
  BY <1>3, <1>4
<1>7. Soas(new) = Soas(rs)
  <2>1. \A j \in 1..Len(rs) : (new[j].type = "SOA") = (rs[j].type = "SOA")
    BY <1>1, <1>3, <1>6
  <2> QED
    BY <1>6, <2>1 DEF Soas
<1>8. SerialOf(new) = SerialOf(rs)
  <2>1. PICK i : i = FirstSoa(rs) /\ FirstOf(i, Soas(rs)) /\ Soas(rs) \subseteq Nat
    BY SoaIs
  <2>2. Soas(rs) # {} => new[i] = rs[i]
    <3>1. Soas(rs) # {} => i \in 1..Len(rs) /\ rs[i].type = "SOA"
      BY <2>1 DEF FirstOf, Soas
    <3> QED
      BY <1>3, <1>6, <3>1
  <2> QED
    BY <1>6, <1>7, <2>1, <2>2, SameSerial
<1>9. Len(new) = Len(rs) + 0
  BY <1>6
<1> QED
  BY <1>1, <1>2, <1>3, <1>5, <1>6, <1>8, <1>9 DEF Changed

LEMMA RemovedChange ==
  ASSUME NEW op, IsChange(op), op.do = "delete", NEW rs \in Seq(Record), Finds(op, rs)
  PROVE  Changed(op, rs, Edited(op, rs))
<1>1. PICK m : m = FirstMatch(rs, "A", op.old)
  OBVIOUS
<1>2. m \in 1..Len(rs) /\ rs[m].type = "A"
  BY <1>1, MatchAt DEF Finds
<1>3. PICK n \in Nat : n = Len(rs)
  OBVIOUS
<1>4. PICK new : new = RemoveAt(rs, m)
  OBVIOUS
<1>5. Edited(op, rs) = new
  BY <1>1, <1>4 DEF Edited
<1>6. /\ new \in Seq(Record) /\ Len(new) = n - 1
      /\ \A j \in 1..n - 1 : new[j] = IF j < m THEN rs[j] ELSE rs[j + 1]
  BY <1>2, <1>3, <1>4, RemoveAtIs
<1>7. m \in 1..n /\ m \in Nat
  BY <1>2, <1>3
\* Where an entry that stays goes to.
<1>8. ASSUME NEW j \in 1..n, j # m
      PROVE  \E k \in 1..n - 1 : new[k] = rs[j] /\ k = IF j < m THEN j ELSE j - 1
  <2>1. CASE j < m
    <3>1. j \in 1..n - 1
      BY ONLY <1>7, <2>1, n \in Nat, j \in 1..n
    <3> QED
      BY <1>6, <2>1, <3>1
  <2>2. CASE ~(j < m)
    <3>1. j - 1 \in 1..n - 1 /\ ~(j - 1 < m) /\ (j - 1) + 1 = j
      BY ONLY <1>7, <1>8, <2>2, n \in Nat, j \in 1..n
    <3> QED
      BY <1>6, <2>2, <3>1
  <2> QED
    BY <2>1, <2>2
<1>9. PICK i : i = FirstSoa(rs) /\ FirstOf(i, Soas(rs)) /\ Soas(rs) \subseteq Nat
  BY SoaIs
<1>10. SerialOf(new) = SerialOf(rs)
  <2>1. CASE Soas(rs) = {}
    <3>1. ASSUME NEW k \in Soas(new) PROVE FALSE
      <4>1. k \in 1..n - 1 /\ new[k].type = "SOA"
        BY <1>6, <3>1 DEF Soas
      <4>2. k \in 1..n /\ k + 1 \in 1..n
        BY ONLY <4>1, n \in Nat
      <4>3. rs[k].type = "SOA" \/ rs[k + 1].type = "SOA"
        BY <1>6, <4>1
      <4> QED
        BY <1>3, <2>1, <4>2, <4>3 DEF Soas
    <3>2. Soas(new) = {}
      BY <3>1
    <3>3. FirstOf(0, Soas(new))
      BY <3>2 DEF FirstOf
    <3> QED
      BY <1>6, <1>9, <2>1, <3>2, <3>3, SameSerial
  <2>2. CASE Soas(rs) # {}
    <3>1. i \in 1..n /\ rs[i].type = "SOA" /\ i # m /\ \A j \in Soas(rs) : i <= j
      BY <1>2, <1>3, <1>9, <2>2 DEF FirstOf, Soas
    <3>2. PICK k \in 1..n - 1 : new[k] = rs[i] /\ k = IF i < m THEN i ELSE i - 1
      BY <1>8, <3>1
    <3>3. k \in Soas(new)
      BY <1>6, <3>1, <3>2 DEF Soas
    <3>4. ASSUME NEW j \in Soas(new) PROVE k <= j
      <4>1. j \in 1..n - 1 /\ new[j].type = "SOA"
        BY <1>6, <3>4 DEF Soas
      <4>2. j \in 1..n /\ j + 1 \in 1..n
        BY ONLY <4>1, n \in Nat
      <4>3. CASE j < m
        <5>1. j \in Soas(rs)
          BY <1>3, <1>6, <4>1, <4>2, <4>3 DEF Soas
        <5>2. i <= j
          BY <3>1, <5>1
        <5> QED
          BY ONLY <1>7, <3>1, <3>2, <4>1, <4>3, <5>2
      <4>4. CASE ~(j < m)
        <5>1. j + 1 \in Soas(rs)
          BY <1>3, <1>6, <4>1, <4>2, <4>4 DEF Soas
        <5>2. i <= j + 1
          BY <3>1, <5>1
        <5> QED
          BY ONLY <1>7, <3>1, <3>2, <4>1, <4>4, <5>2
      <4> QED
        BY <4>3, <4>4
    <3>5. FirstOf(k, Soas(new)) /\ Soas(new) # {}
      BY <3>3, <3>4 DEF FirstOf
    <3> QED
      BY <1>6, <1>9, <2>2, <3>2, <3>5, SameSerial
  <2> QED
    BY <2>1, <2>2
<1>11. \A j \in 1..Len(rs) : j = m \/ \E k \in 1..Len(new) : new[k] = rs[j]
  BY <1>3, <1>6, <1>8
<1>12. Len(new) = Len(rs) + (-1)
  <2>1. n - 1 = n + (-1)
    BY ONLY n \in Nat
  <2> QED
    BY <1>3, <1>6, <2>1
<1> QED
  BY <1>1, <1>5, <1>6, <1>10, <1>11, <1>12 DEF Changed

LEMMA EditedIs ==
  ASSUME NEW op, IsChange(op), NEW rs \in Seq(Record), Finds(op, rs)
  PROVE  Changed(op, rs, Edited(op, rs))
  BY AppendedChange, ReplacedChange, RemovedChange DEF IsChange

---------------------------------------------------------------------------
(***************************************************************************)
(* The zones, and what a write of one node leaves of the others            *)
(***************************************************************************)
ThereIn(zs, z, n) == z \in DOMAIN zs /\ n \in DOMAIN zs[z]
RecordsIn(zs, z, n) == IF ThereIn(zs, z, n) THEN zs[z][n] ELSE <<>>
ZonesFormed(zs) ==
  \A z \in DOMAIN zs :
    /\ z \in Zone /\ DOMAIN zs[z] \subseteq Nodes
    /\ \A n \in DOMAIN zs[z] : zs[z][n] \in Seq(Record) /\ zs[z][n] # <<>>

LEMMA DnsReads ==
  /\ \A z, n : Records(z, n) = RecordsIn(zones, z, n)
  /\ \A z, n : Exists(z, n) = ThereIn(zones, z, n)
  BY DEF Records, Exists, RecordsIn, ThereIn

LEMMA NoSoa == FirstSoa(<<>>) = 0 /\ SerialOf(<<>>) = 0
<1>1. <<>> \in Seq(Record) /\ Len(<<>>) = 0
  OBVIOUS
<1>2. Soas(<<>>) = {}
  BY <1>1 DEF Soas
<1>3. FirstSoa(<<>>) = 0
  BY <1>1, <1>2, SoaIs DEF FirstOf
<1> QED
  BY <1>3 DEF SerialOf

LEMMA RecordsRead ==
  ASSUME NEW zs, ZonesFormed(zs), NEW z, NEW n
  PROVE  RecordsIn(zs, z, n) \in Seq(Record) /\ (ThereIn(zs, z, n) = (RecordsIn(zs, z, n) # <<>>))
<1>1. <<>> \in Seq(Record)
  OBVIOUS
<1> QED
  BY <1>1 DEF RecordsIn, ThereIn, ZonesFormed

LEMMA SerialIs ==
  ASSUME NEW zs, NEW z
  PROVE  SerialIn(zs, z) = SerialOf(RecordsIn(zs, z, Apex))
<1>1. CASE ThereIn(zs, z, Apex)
  BY <1>1 DEF SerialIn, SerialOf, RecordsIn, ThereIn
<1>2. CASE ~ThereIn(zs, z, Apex)
  BY <1>2, NoSoa DEF SerialIn, RecordsIn, ThereIn
<1> QED
  BY <1>1, <1>2

(* One node is written, or taken out with its last record (rs = <<>>).     *)
NodeIs(zs, z, n, rs, zs2) ==
  /\ \A y, m : RecordsIn(zs2, y, m) = IF y = z /\ m = n THEN rs ELSE RecordsIn(zs, y, m)
  /\ \A y, m : y # z \/ m # n => ThereIn(zs2, y, m) = ThereIn(zs, y, m)
  /\ ZonesFormed(zs2) /\ DOMAIN zs2 = DOMAIN zs
NodePut(zs, z, n, rs) == [zs EXCEPT ![z] = Extended([m \in {n} |-> rs], zs[z])]
LEMMA NodeWritten ==
  ASSUME NEW zs, ZonesFormed(zs), NEW z \in DOMAIN zs, NEW n \in Nodes, NEW rs \in Seq(Record), rs # <<>>,
         NEW zs2, zs2 = NodePut(zs, z, n, rs)
  PROVE  NodeIs(zs, z, n, rs, zs2) /\ n \in DOMAIN zs2[z] /\ zs2[z][n] = rs
<1>1. PICK e : e = Extended([m \in {n} |-> rs], zs[z])
  OBVIOUS
<1>2. DOMAIN e = DOMAIN zs[z] \cup {n} /\ e[n] = rs /\ \A m \in DOMAIN zs[z] : m # n => e[m] = zs[z][m]
  BY <1>1 DEF Extended
<1>3. DOMAIN zs2 = DOMAIN zs /\ zs2[z] = e /\ \A y \in DOMAIN zs : y # z => zs2[y] = zs[y]
  BY <1>1 DEF NodePut
<1>4. ASSUME NEW y, NEW m
      PROVE  /\ RecordsIn(zs2, y, m) = IF y = z /\ m = n THEN rs ELSE RecordsIn(zs, y, m)
             /\ y # z \/ m # n => ThereIn(zs2, y, m) = ThereIn(zs, y, m)
  <2>1. CASE y = z /\ m = n
    BY <1>2, <1>3, <2>1 DEF RecordsIn, ThereIn
  <2>2. CASE y = z /\ m # n
    BY <1>2, <1>3, <2>2 DEF RecordsIn, ThereIn
  <2>3. CASE y # z
    BY <1>3, <2>3 DEF RecordsIn, ThereIn
  <2> QED
    BY <2>1, <2>2, <2>3
<1>5. ZonesFormed(zs2)
  BY <1>2, <1>3 DEF ZonesFormed
<1> QED
  BY <1>2, <1>3, <1>4, <1>5 DEF NodeIs

NodeCut(zs, z, n) == [zs EXCEPT ![z] = [m \in DOMAIN zs[z] \ {n} |-> zs[z][m]]]
LEMMA NodeTaken ==
  ASSUME NEW zs, ZonesFormed(zs), NEW z \in DOMAIN zs, NEW n, NEW zs2, zs2 = NodeCut(zs, z, n)
  PROVE  NodeIs(zs, z, n, <<>>, zs2) /\ n \notin DOMAIN zs2[z]
<1>1. PICK e : e = [m \in DOMAIN zs[z] \ {n} |-> zs[z][m]]
  OBVIOUS
<1>2. DOMAIN e = DOMAIN zs[z] \ {n} /\ \A m \in DOMAIN zs[z] : m # n => e[m] = zs[z][m]
  BY <1>1
<1>3. DOMAIN zs2 = DOMAIN zs /\ zs2[z] = e /\ \A y \in DOMAIN zs : y # z => zs2[y] = zs[y]
  BY <1>1 DEF NodeCut
<1>4. ASSUME NEW y, NEW m
      PROVE  /\ RecordsIn(zs2, y, m) = IF y = z /\ m = n THEN <<>> ELSE RecordsIn(zs, y, m)
             /\ y # z \/ m # n => ThereIn(zs2, y, m) = ThereIn(zs, y, m)
  <2>1. CASE y = z /\ m = n
    BY <1>2, <1>3, <2>1 DEF RecordsIn, ThereIn
  <2>2. CASE y = z /\ m # n
    BY <1>2, <1>3, <2>2 DEF RecordsIn, ThereIn
  <2>3. CASE y # z
    BY <1>3, <2>3 DEF RecordsIn, ThereIn
  <2> QED
    BY <2>1, <2>2, <2>3
<1>5. ZonesFormed(zs2)
  BY <1>2, <1>3 DEF ZonesFormed
<1>6. n \notin DOMAIN zs2[z]
  BY <1>2, <1>3
<1>7. \A y, m : y # z \/ m # n => ThereIn(zs2, y, m) = ThereIn(zs, y, m)
  BY ONLY <1>4
<1>8. \A y, m : RecordsIn(zs2, y, m) = IF y = z /\ m = n THEN <<>> ELSE RecordsIn(zs, y, m)
  BY ONLY <1>4
<1>9. DOMAIN zs2 = DOMAIN zs
  BY <1>3
<1>10. NodeIs(zs, z, n, <<>>, zs2)
  BY ONLY <1>5, <1>7, <1>8, <1>9 DEF NodeIs
<1> QED
  BY <1>6, <1>10

---------------------------------------------------------------------------
(***************************************************************************)
(* Plans                                                                   *)
(***************************************************************************)
RecordDeeds == {"create", "update", "delete"}
ZoneDeeds == RecordDeeds \cup {"create zone", "delete zone"}
RecordWords == {"check", "bump", "advance", "reread", "write"}
FromCheck == <<"check", "bump", "advance", "reread", "write">>
FromBump == <<"bump", "advance", "reread", "write">>
FromAdvance == <<"advance", "reread", "write">>
FromReread == <<"reread", "write">>
FromWrite == <<"write">>
FromFree == <<"free", "zone", "apex">>
FromZone == <<"zone", "apex">>
FromApex == <<"apex">>
FromDrop == <<"drop">>
(* What an operation still has to do, by what it is.                       *)
DnsWay(todo, do) ==
  \/ do \in RecordDeeds /\ todo \in {FromCheck, FromBump, FromAdvance, FromReread, FromWrite}
  \/ do = "create zone" /\ todo \in {FromFree, FromZone, FromApex}
  \/ do = "delete zone" /\ todo = FromDrop

(* What comes after a request of a change of a record.                     *)
DnsAfter(at) ==
  IF at = "check" THEN "bump" ELSE IF at = "bump" THEN "advance" ELSE IF at = "advance" THEN "reread"
  ELSE IF at = "reread" THEN "write" ELSE "none"

LEMMA PlanFacts ==
  /\ Head(FromCheck) = "check" /\ Tail(FromCheck) = FromBump /\ FromCheck # <<>> /\ Len(FromCheck) > 1
  /\ Head(FromBump) = "bump" /\ Tail(FromBump) = FromAdvance /\ FromBump # <<>> /\ Len(FromBump) > 1
  /\ Head(FromAdvance) = "advance" /\ Tail(FromAdvance) = FromReread /\ FromAdvance # <<>> /\ Len(FromAdvance) > 1
  /\ Head(FromReread) = "reread" /\ Tail(FromReread) = FromWrite /\ FromReread # <<>> /\ Len(FromReread) > 1
  /\ Head(FromWrite) = "write" /\ FromWrite # <<>> /\ ~(Len(FromWrite) > 1)
  /\ Head(FromFree) = "free" /\ Tail(FromFree) = FromZone /\ FromFree # <<>> /\ Len(FromFree) > 1
  /\ Head(FromZone) = "zone" /\ Tail(FromZone) = FromApex /\ FromZone # <<>> /\ Len(FromZone) > 1
  /\ Head(FromApex) = "apex" /\ FromApex # <<>> /\ ~(Len(FromApex) > 1)
  /\ Head(FromDrop) = "drop" /\ FromDrop # <<>> /\ ~(Len(FromDrop) > 1)
<1>1. Head(FromCheck) = "check" /\ Tail(FromCheck) = FromBump /\ FromCheck # <<>> /\ Len(FromCheck) > 1
  BY DEF FromCheck, FromBump
<1>2. Head(FromBump) = "bump" /\ Tail(FromBump) = FromAdvance /\ FromBump # <<>> /\ Len(FromBump) > 1
  BY DEF FromBump, FromAdvance
<1>3. /\ Head(FromAdvance) = "advance" /\ Tail(FromAdvance) = FromReread /\ FromAdvance # <<>>
      /\ Len(FromAdvance) > 1
  BY DEF FromAdvance, FromReread
<1>4. Head(FromReread) = "reread" /\ Tail(FromReread) = FromWrite /\ FromReread # <<>> /\ Len(FromReread) > 1
  BY DEF FromReread, FromWrite
<1>5. Head(FromWrite) = "write" /\ FromWrite # <<>> /\ ~(Len(FromWrite) > 1)
  BY DEF FromWrite
<1>6. Head(FromFree) = "free" /\ Tail(FromFree) = FromZone /\ FromFree # <<>> /\ Len(FromFree) > 1
  BY DEF FromFree, FromZone
<1>7. Head(FromZone) = "zone" /\ Tail(FromZone) = FromApex /\ FromZone # <<>> /\ Len(FromZone) > 1
  BY DEF FromZone, FromApex
<1>8. Head(FromApex) = "apex" /\ FromApex # <<>> /\ ~(Len(FromApex) > 1)
  BY DEF FromApex
<1>9. Head(FromDrop) = "drop" /\ FromDrop # <<>> /\ ~(Len(FromDrop) > 1)
  BY DEF FromDrop
<1> QED
  BY ONLY <1>1, <1>2, <1>3, <1>4, <1>5, <1>6, <1>7, <1>8, <1>9

(* A plan: where it is, and what comes after its first request.            *)
LEMMA PlanIs ==
  ASSUME NEW todo, NEW do, DnsWay(todo, do)
  PROVE  /\ todo # <<>>
         /\ Head(todo) \in RecordWords <=> do \in RecordDeeds
         /\ Head(todo) \in RecordWords \cup {"free", "zone", "apex", "drop"}
         /\ Len(todo) > 1 => DnsWay(Tail(todo), do)
         /\ Head(todo) \in RecordWords => (Head(todo) = "write" <=> ~(Len(todo) > 1))
         /\ Head(todo) \in RecordWords /\ Len(todo) > 1 => Head(Tail(todo)) = DnsAfter(Head(todo))
<1>1. CASE do \in RecordDeeds
  <2>1. todo \in {FromCheck, FromBump, FromAdvance, FromReread, FromWrite}
    BY <1>1 DEF DnsWay, RecordDeeds
  <2> QED
    BY <1>1, <2>1, PlanFacts DEF DnsWay, DnsAfter, RecordWords
<1>2. CASE do \notin RecordDeeds
  <2>1. \/ do = "create zone" /\ todo \in {FromFree, FromZone, FromApex}
        \/ do = "delete zone" /\ todo = FromDrop
    BY <1>2 DEF DnsWay
  <2> QED
    BY <1>2, <2>1, PlanFacts DEF DnsWay, RecordWords
<1> QED
  BY <1>1, <1>2

LEMMA StepsAre ==
  ASSUME NEW r, r.do \in ZoneDeeds
  PROVE  DnsWay(Steps(r), r.do) /\ (r.do \in RecordDeeds => Head(Steps(r)) = "check")
<1>1. CASE r.do \in RecordDeeds
  <2>1. Steps(r) = FromCheck
    BY <1>1 DEF Steps, RecordDeeds, FromCheck
  <2> QED
    BY <1>1, <2>1, PlanFacts DEF DnsWay
<1>2. CASE r.do = "create zone"
  <2>1. Steps(r) = FromFree
    BY <1>2 DEF Steps, FromFree
  <2> QED
    BY <1>2, <2>1 DEF DnsWay, RecordDeeds
<1>3. CASE r.do = "delete zone"
  <2>1. Steps(r) = FromDrop
    BY <1>3 DEF Steps, FromDrop
  <2> QED
    BY <1>3, <2>1 DEF DnsWay, RecordDeeds
<1> QED
  BY <1>1, <1>2, <1>3 DEF ZoneDeeds

---------------------------------------------------------------------------
(***************************************************************************)
(* The invariant                                                           *)
(***************************************************************************)
(* An operation under way.  The change it is about to write finds, in the  *)
(* records it was read with, the record it is about.                       *)
ZFields == {"do", "zone", "node", "old", "data", "todo", "result", "first", "node1", "soa", "there", "records",
            "serial", "advanced", "nth", "alone", "found"}
IsDns(op) ==
  /\ ZFields \subseteq DOMAIN op
  /\ op.zone \in Zone /\ op.node \in Nodes /\ op.old \in DOMAIN Spelling /\ op.data \in DOMAIN Spelling
  /\ op.result = "none" /\ DnsWay(op.todo, op.do)
  /\ op.records \in Seq(Record) /\ op.soa \in Seq(Record)
  /\ op.serial \in 0..MaxSerial /\ op.nth \in Nat
  /\ Head(op.todo) = "write" => Finds(op, op.records)

(* What a change of a record nobody crossed knows of the zone, by the      *)
(* request it makes next: the serial is the one it found until it has      *)
(* advanced it, the SOA it read is the one there is, and the record it is  *)
(* about has not gone.                                                     *)
Advanced(found, h) == IF h \in {"reread", "write"} THEN found + 1 ELSE found
ZoneKnown(zs, op) ==
  LET h == Head(op.todo) IN
  h \in RecordWords /\ op.found \in 1..(MaxSerial - 1) =>
    /\ SerialOf(RecordsIn(zs, op.zone, Apex)) = Advanced(op.found, h)
    /\ h \in {"bump", "advance", "reread"} => Finds(op, RecordsIn(zs, op.zone, op.node))
    /\ h = "advance" => op.soa = RecordsIn(zs, op.zone, Apex) /\ op.node1 = ThereIn(zs, op.zone, Apex)
    /\ h = "write" => op.records = RecordsIn(zs, op.zone, op.node)

DnsTasks ==
  /\ dnsWork = [a \in ZAdmin |-> dnsWork[a]]
  /\ \A a \in ZAdmin : dnsWork[a].result \in {"none", "ok", "refused", "failed"}
  /\ \A a \in ZAdmin : DnsBusy(a) => IsDns(dnsWork[a]) /\ dnsWork[a].nth <= dnsOps
DnsAlone ==
  \A a \in ZAdmin : DnsBusy(a) /\ Undisturbed(a) =>
    (\A b \in ZAdmin \ {a} : ~DnsBusy(b)) /\ ZoneKnown(zones, dnsWork[a])
ZInv == ZonesFormed(zones) /\ dnsOps \in 0..MaxZoneOps /\ DnsTasks /\ DnsAlone

(* A step of a session at work changes its own operation only.             *)
LEMMA ZKeeps ==
  ASSUME ZInv, NEW a \in ZAdmin, DnsBusy(a), NEW x, dnsWork' = [dnsWork EXCEPT ![a] = x],
         dnsOps' = dnsOps, ZonesFormed(zones'),
         \/ x.todo = <<>> /\ x.result \in {"ok", "refused", "failed"}
         \/ /\ IsDns(x) /\ x.nth = dnsWork[a].nth /\ x.alone = dnsWork[a].alone
            /\ Undisturbed(a) => ZoneKnown(zones', x)
  PROVE  ZInv'
<1>1. dnsWork = [b \in ZAdmin |-> dnsWork[b]]
  BY DEF ZInv, DnsTasks
<1>2. dnsWork'[a] = x /\ \A b \in ZAdmin \ {a} : dnsWork'[b] = dnsWork[b]
  BY <1>1
<1>3. dnsWork' = [b \in ZAdmin |-> dnsWork'[b]]
  BY <1>1
<1>4. IsDns(x) => x.result = "none" /\ x.todo # <<>>
  <2> SUFFICES ASSUME IsDns(x) PROVE x.result = "none" /\ x.todo # <<>>
    OBVIOUS
  <2>1. x.result = "none" /\ DnsWay(x.todo, x.do)
    BY DEF IsDns
  <2> QED
    BY <2>1, PlanIs
<1>5. \A b \in ZAdmin : dnsWork'[b].result \in {"none", "ok", "refused", "failed"}
  <2>1. \A b \in ZAdmin \ {a} : dnsWork'[b].result \in {"none", "ok", "refused", "failed"}
    BY <1>2 DEF ZInv, DnsTasks
  <2>2. x.result \in {"none", "ok", "refused", "failed"}
    BY <1>4
  <2> QED
    BY <1>2, <2>1, <2>2
<1>6. ASSUME NEW b \in ZAdmin, DnsBusy(b)' PROVE IsDns(dnsWork'[b]) /\ dnsWork'[b].nth <= dnsOps'
  <2>1. CASE b = a
    <3>1. IsDns(x) /\ x.nth = dnsWork[a].nth
      BY <1>2, <1>6, <2>1 DEF DnsBusy
    <3>2. dnsWork[a].nth <= dnsOps
      BY DEF ZInv, DnsTasks
    <3> QED
      BY <1>2, <2>1, <3>1, <3>2
  <2>2. CASE b # a
    BY <1>2, <1>6, <2>2 DEF DnsBusy, ZInv, DnsTasks
  <2> QED
    BY <2>1, <2>2
<1>7. ASSUME NEW b \in ZAdmin, DnsBusy(b)', Undisturbed(b)'
      PROVE  (\A c \in ZAdmin \ {b} : ~DnsBusy(c)') /\ ZoneKnown(zones', dnsWork'[b])
  <2>1. CASE b = a
    <3>1. /\ IsDns(x) /\ x.nth = dnsWork[a].nth /\ x.alone = dnsWork[a].alone
          /\ Undisturbed(a) => ZoneKnown(zones', x)
      BY <1>2, <1>7, <2>1 DEF DnsBusy
    <3>2. Undisturbed(a)
      BY <1>2, <1>7, <2>1, <3>1 DEF Undisturbed
    <3>3. \A c \in ZAdmin \ {a} : ~DnsBusy(c)
      BY <3>2 DEF ZInv, DnsAlone
    <3>4. \A c \in ZAdmin \ {a} : ~DnsBusy(c)'
      BY <1>2, <3>3 DEF DnsBusy
    <3> QED
      BY <1>2, <2>1, <3>1, <3>2, <3>4
  <2>2. CASE b # a
    <3>1. DnsBusy(b) /\ Undisturbed(b)
      BY <1>2, <1>7, <2>2 DEF DnsBusy, Undisturbed
    <3>2. ~DnsBusy(a)
      BY <2>2, <3>1 DEF ZInv, DnsAlone
    <3> QED
      BY <3>2
  <2> QED
    BY <2>1, <2>2
<1>8. (ZonesFormed(zones) /\ dnsOps \in 0..MaxZoneOps)'
  BY DEF ZInv
<1>9. DnsTasks'
  BY <1>3, <1>5, <1>6 DEF DnsTasks
<1>10. DnsAlone'
  BY <1>7 DEF DnsAlone
<1> QED
  BY <1>8, <1>9, <1>10 DEF ZInv

(* What an operation with its next request taken off its plan still says.  *)
ZKept(x, op) == DOMAIN x = DOMAIN op /\ \A f \in DOMAIN op \ {"todo"} : x[f] = op[f]
LEMMA ZKeptIs ==
  ASSUME NEW op, ZFields \subseteq DOMAIN op, NEW x, ZKept(x, op)
  PROVE  /\ x.do = op.do /\ x.zone = op.zone /\ x.node = op.node /\ x.old = op.old /\ x.data = op.data
         /\ x.result = op.result /\ x.node1 = op.node1 /\ x.soa = op.soa /\ x.there = op.there
         /\ x.records = op.records /\ x.serial = op.serial /\ x.nth = op.nth /\ x.alone = op.alone
         /\ x.found = op.found /\ (\A rs : Finds(x, rs) = Finds(op, rs)) /\ ZFields \subseteq DOMAIN x
<1>1. /\ x.do = op.do /\ x.zone = op.zone /\ x.node = op.node /\ x.old = op.old /\ x.data = op.data
      /\ x.result = op.result /\ x.node1 = op.node1 /\ x.soa = op.soa /\ x.there = op.there
      /\ x.records = op.records /\ x.serial = op.serial /\ x.nth = op.nth /\ x.alone = op.alone
      /\ x.found = op.found
  BY DEF ZKept, ZFields
<1>2. \A rs : Finds(x, rs) = Finds(op, rs)
  BY <1>1 DEF Finds
<1> QED
  BY <1>1, <1>2 DEF ZKept

(* A step that goes on to the next request of its plan, or ends with the   *)
(* last one.                                                               *)
LEMMA ZMoves ==
  ASSUME ZInv, NEW a \in ZAdmin, DnsBusy(a), NEW op, IsDns(op), op.todo = dnsWork[a].todo,
         op.nth = dnsWork[a].nth, op.alone = dnsWork[a].alone, DnsGoes(a, op), dnsOps' = dnsOps, ZonesFormed(zones'),
         Head(op.todo) = "reread" => Finds(op, op.records),
         \A x : /\ ZKept(x, op) /\ Head(op.todo) \in RecordWords /\ Head(x.todo) = DnsAfter(Head(op.todo))
                /\ Undisturbed(a)
                => ZoneKnown(zones', x)
  PROVE  ZInv'
<1>1. CASE ~(Len(op.todo) > 1)
  <2>1. dnsWork' = [dnsWork EXCEPT ![a] = DnsIdle("ok")]
    BY <1>1 DEF DnsGoes
  <2>2. DnsIdle("ok").todo = <<>> /\ DnsIdle("ok").result = "ok"
    BY DEF DnsIdle
  <2> QED
    BY <2>1, <2>2, ZKeeps
<1>2. CASE Len(op.todo) > 1
  <2>1. PICK x : x = [op EXCEPT !.todo = Tail(@)]
    OBVIOUS
  <2>2. dnsWork' = [dnsWork EXCEPT ![a] = x]
    BY <1>2, <2>1 DEF DnsGoes
  <2>3. ZFields \subseteq DOMAIN op /\ DnsWay(op.todo, op.do)
    BY DEF IsDns
  <2>4. ZKept(x, op) /\ x.todo = Tail(op.todo)
    BY <2>1, <2>3 DEF ZKept, ZFields
  <2>5. /\ DnsWay(x.todo, op.do) /\ (Head(op.todo) \in RecordWords <=> op.do \in RecordDeeds)
        /\ Head(x.todo) \in RecordWords <=> op.do \in RecordDeeds
        /\ Head(op.todo) \in RecordWords => Head(x.todo) = DnsAfter(Head(op.todo))
    BY <1>2, <2>3, <2>4, PlanIs
  <2>6. /\ x.do = op.do /\ x.zone = op.zone /\ x.node = op.node /\ x.old = op.old /\ x.data = op.data
        /\ x.result = op.result /\ x.soa = op.soa /\ x.records = op.records /\ x.serial = op.serial
        /\ x.nth = op.nth /\ x.alone = op.alone /\ (\A rs : Finds(x, rs) = Finds(op, rs)) /\ ZFields \subseteq DOMAIN x
    BY ONLY <2>3, <2>4, ZKeptIs
  <2>7. Head(x.todo) = "write" => Finds(x, x.records)
    <3>1. Head(x.todo) = "write" => Head(op.todo) = "reread"
      BY <2>5 DEF DnsAfter, RecordWords
    <3> QED
      BY <2>6, <3>1
  <2>8. IsDns(x)
    BY <2>5, <2>6, <2>7 DEF IsDns
  <2>9. Undisturbed(a) => ZoneKnown(zones', x)
    <3>1. CASE Head(op.todo) \in RecordWords
      BY <2>4, <2>5, <3>1
    <3>2. CASE Head(op.todo) \notin RecordWords
      BY <2>5, <3>2 DEF ZoneKnown
    <3> QED
      BY <3>1, <3>2
  <2> QED
    BY <2>2, <2>6, <2>8, <2>9, ZKeeps
<1> QED
  BY <1>1, <1>2

(* A step that ends an operation without a change.                         *)
LEMMA ZStopKeeps ==
  ASSUME ZInv, NEW a \in ZAdmin, DnsBusy(a), NEW why \in {"ok", "refused", "failed"}, DnsEnds(a, why),
         zones' = zones, dnsOps' = dnsOps
  PROVE  ZInv'
<1>1. dnsWork' = [dnsWork EXCEPT ![a] = DnsIdle(why)]
  BY DEF DnsEnds
<1>2. DnsIdle(why).todo = <<>> /\ DnsIdle(why).result = why
  BY DEF DnsIdle
<1>3. ZonesFormed(zones')
  BY DEF ZInv
<1> QED
  BY <1>1, <1>2, <1>3, ZKeeps

LEMMA ZAtIs ==
  ASSUME ZInv, NEW a \in ZAdmin, NEW s, DnsAt(a, s)
  PROVE  /\ DnsBusy(a) /\ IsDns(dnsWork[a]) /\ Head(dnsWork[a].todo) = s
         /\ (Undisturbed(a) => ZoneKnown(zones, dnsWork[a])) /\ ZonesFormed(zones)
         /\ (s \in RecordWords <=> dnsWork[a].do \in RecordDeeds)
<1>1. DnsBusy(a) /\ Head(dnsWork[a].todo) = s
  BY DEF DnsAt
<1>2. IsDns(dnsWork[a]) /\ (Undisturbed(a) => ZoneKnown(zones, dnsWork[a])) /\ ZonesFormed(zones)
  BY <1>1 DEF ZInv, DnsTasks, DnsAlone
<1>3. DnsWay(dnsWork[a].todo, dnsWork[a].do)
  BY <1>2 DEF IsDns
<1> QED
  BY <1>1, <1>2, <1>3, PlanIs

---------------------------------------------------------------------------
(* Each step keeps the invariant.                                          *)
ZBegun(r, n, alone, found) == Extended(r,
  [todo |-> Steps(r), result |-> "none", first |-> <<>>, node1 |-> FALSE, soa |-> <<>>,
   there |-> FALSE, records |-> <<>>, serial |-> 1, advanced |-> FALSE,
   nth |-> n, alone |-> alone, found |-> found])
LEMMA ZBegunIs ==
  ASSUME NEW r \in ZRequest, NEW n \in Nat, NEW alone, NEW found, NEW op, op = ZBegun(r, n, alone, found)
  PROVE  /\ IsDns(op) /\ op.nth = n /\ op.alone = alone /\ op.found = found /\ op.zone = r.zone /\ op.todo # <<>>
         /\ Head(op.todo) \in RecordWords => Head(op.todo) = "check"
<1>1. PICK f : f = [todo |-> Steps(r), result |-> "none", first |-> <<>>, node1 |-> FALSE, soa |-> <<>>,
            there |-> FALSE, records |-> <<>>, serial |-> 1, advanced |-> FALSE,
            nth |-> n, alone |-> alone, found |-> found]
  OBVIOUS
<1>2. DOMAIN r = {"do", "zone", "node", "old", "data"}
  BY DEF ZRequest
<1>3. /\ r.do \in ZoneDeeds /\ r.zone \in Zone /\ r.node \in Nodes /\ r.old \in DOMAIN Spelling
      /\ r.data \in DOMAIN Spelling
  BY DEF ZRequest, ZoneDeeds, RecordDeeds
<1>4. /\ DOMAIN f = {"todo", "result", "first", "node1", "soa", "there", "records", "serial", "advanced",
                     "nth", "alone", "found"}
      /\ f.todo = Steps(r) /\ f.result = "none" /\ f.soa = <<>> /\ f.records = <<>> /\ f.serial = 1
      /\ f.nth = n /\ f.alone = alone /\ f.found = found
  BY <1>1
<1>5. op = Extended(r, f)
  BY <1>1 DEF ZBegun
<1>6. /\ DOMAIN op = DOMAIN r \cup DOMAIN f
      /\ \A x \in DOMAIN r : op[x] = r[x]
      /\ \A x \in DOMAIN f \ DOMAIN r : op[x] = f[x]
  BY ONLY <1>5 DEF Extended
<1>7. op.do = r.do /\ op.zone = r.zone /\ op.node = r.node /\ op.old = r.old /\ op.data = r.data
  <2>1. \A x \in {"do", "zone", "node", "old", "data"} : x \in DOMAIN r
    BY <1>2
  <2> QED
    BY <1>6, <2>1
<1>8. /\ op.todo = Steps(r) /\ op.result = "none" /\ op.soa = <<>> /\ op.records = <<>> /\ op.serial = 1
      /\ op.nth = n /\ op.alone = alone /\ op.found = found
  <2>1. \A x \in {"todo", "result", "soa", "records", "serial", "nth", "alone", "found"} : x \in DOMAIN f \ DOMAIN r
    BY <1>2, <1>4
  <2> QED
    BY <1>4, <1>6, <2>1
<1>9. ZFields \subseteq DOMAIN op
  BY <1>2, <1>4, <1>6 DEF ZFields
<1>10. DnsWay(op.todo, op.do) /\ (op.do \in RecordDeeds => Head(op.todo) = "check")
  BY <1>3, <1>7, <1>8, StepsAre
<1>11. op.todo # <<>> /\ (Head(op.todo) \in RecordWords => Head(op.todo) = "check")
  BY <1>10, PlanIs
<1>12. op.serial \in 0..MaxSerial
  <2>1. MaxSerial \in Nat \ {0}
    BY ZoneConstants
  <2>2. 1 \in 0..MaxSerial
    BY ONLY <2>1
  <2> QED
    BY <1>8, <2>2
<1>13. op.records \in Seq(Record) /\ op.soa \in Seq(Record)
  <2>1. <<>> \in Seq(Record)
    OBVIOUS
  <2> QED
    BY <1>8, <2>1
<1>14. Head(op.todo) # "write"
  BY <1>11 DEF RecordWords
<1>15. IsDns(op)
  BY <1>3, <1>7, <1>8, <1>9, <1>10, <1>12, <1>13, <1>14 DEF IsDns
<1> QED
  BY <1>7, <1>8, <1>11, <1>15

LEMMA ZBeginKeeps ==
  ASSUME ZInv, NEW a \in ZAdmin, DnsBegin(a)
  PROVE  ZInv'
<1>1. PICK r \in ZAsked :
        dnsWork' = [dnsWork EXCEPT ![a] = Extended(r,
          [todo |-> Steps(r), result |-> "none", first |-> <<>>, node1 |-> FALSE, soa |-> <<>>,
           there |-> FALSE, records |-> <<>>, serial |-> 1, advanced |-> FALSE,
           nth |-> dnsOps + 1, alone |-> \A b \in ZAdmin \ {a} : ~DnsBusy(b), found |-> SerialIn(zones, r.zone)])]
  BY DEF DnsBegin
<1>2. ~DnsBusy(a) /\ dnsOps < MaxZoneOps /\ dnsOps' = dnsOps + 1 /\ zones' = zones
  BY DEF DnsBegin
<1>3. dnsOps \in Nat /\ dnsOps' \in 0..MaxZoneOps /\ dnsOps + 1 \in Nat
  <2>1. dnsOps \in 0..MaxZoneOps /\ MaxZoneOps \in Nat
    BY ZoneConstants DEF ZInv
  <2> QED
    BY ONLY <1>2, <2>1
<1>4. PICK alone : alone = \A b \in ZAdmin \ {a} : ~DnsBusy(b)
  OBVIOUS
<1>5. PICK found : found = SerialIn(zones, r.zone)
  OBVIOUS
<1>6. PICK n \in Nat : n = dnsOps + 1
  BY <1>3
<1>7. PICK op : op = ZBegun(r, n, alone, found)
  OBVIOUS
<1>8. r \in ZRequest
  BY ZoneConstants
<1>9. /\ IsDns(op) /\ op.nth = n /\ op.alone = alone /\ op.found = found /\ op.zone = r.zone /\ op.todo # <<>>
      /\ Head(op.todo) \in RecordWords => Head(op.todo) = "check"
  BY ONLY <1>7, <1>8, n \in Nat, ZBegunIs
<1>10. dnsWork' = [dnsWork EXCEPT ![a] = op]
  BY <1>1, <1>4, <1>5, <1>6, <1>7 DEF ZBegun
<1>11. dnsWork = [b \in ZAdmin |-> dnsWork[b]]
  BY DEF ZInv, DnsTasks
<1>12. /\ dnsWork'[a] = op /\ (\A b \in ZAdmin \ {a} : dnsWork'[b] = dnsWork[b])
       /\ dnsWork' = [b \in ZAdmin |-> dnsWork'[b]]
  BY <1>10, <1>11
<1>13. \A b \in ZAdmin : dnsWork'[b].result \in {"none", "ok", "refused", "failed"}
  <2>1. op.result = "none"
    BY <1>9 DEF IsDns
  <2> QED
    BY <1>12, <2>1 DEF ZInv, DnsTasks
<1>14. ASSUME NEW b \in ZAdmin, DnsBusy(b)' PROVE IsDns(dnsWork'[b]) /\ dnsWork'[b].nth <= dnsOps'
  <2>1. CASE b = a
    BY <1>2, <1>3, <1>6, <1>9, <1>12, <2>1
  <2>2. CASE b # a
    <3>1. IsDns(dnsWork[b]) /\ dnsWork[b].nth <= dnsOps
      BY <1>12, <1>14, <2>2 DEF DnsBusy, ZInv, DnsTasks
    <3>2. PICK m \in Nat : m = dnsWork[b].nth
      BY <3>1 DEF IsDns
    <3>3. m <= dnsOps + 1
      <4>1. dnsOps \in Nat /\ m <= dnsOps
        BY <1>3, <3>1, <3>2
      <4> QED
        BY ONLY <4>1, m \in Nat
    <3> QED
      BY <1>2, <1>12, <2>2, <3>1, <3>2, <3>3
  <2> QED
    BY <2>1, <2>2
<1>15. ASSUME NEW b \in ZAdmin, DnsBusy(b)', Undisturbed(b)'
       PROVE  (\A c \in ZAdmin \ {b} : ~DnsBusy(c)') /\ ZoneKnown(zones', dnsWork'[b])
  <2>1. CASE b = a
    <3>1. op.alone
      BY <1>12, <1>15, <2>1 DEF Undisturbed
    <3>2. \A c \in ZAdmin \ {a} : ~DnsBusy(c)
      BY <1>4, <1>9, <3>1
    <3>3. \A c \in ZAdmin \ {a} : ~DnsBusy(c)'
      BY <1>12, <3>2 DEF DnsBusy
    <3>4. op.found = SerialOf(RecordsIn(zones, op.zone, Apex))
      BY <1>5, <1>9, SerialIs
    <3>5. ZoneKnown(zones, op)
      BY <1>9, <3>4 DEF ZoneKnown, Advanced
    <3> QED
      BY <1>2, <1>12, <2>1, <3>3, <3>5
  <2>2. CASE b # a
    <3>1. IsDns(dnsWork[b]) /\ dnsWork[b].nth <= dnsOps
      BY <1>12, <1>15, <2>2 DEF DnsBusy, ZInv, DnsTasks
    <3>2. PICK m \in Nat : m = dnsWork[b].nth
      BY <3>1 DEF IsDns
    <3>3. dnsOps + 1 = m /\ m <= dnsOps /\ dnsOps \in Nat
      BY <1>2, <1>3, <1>12, <1>15, <2>2, <3>1, <3>2 DEF Undisturbed
    <3>4. FALSE
      BY ONLY <3>3
    <3> QED
      BY <3>4
  <2> QED
    BY <2>1, <2>2
<1>16. ZonesFormed(zones)'
  BY <1>2 DEF ZInv
<1>17. DnsTasks'
  BY <1>12, <1>13, <1>14 DEF DnsTasks
<1>18. DnsAlone'
  BY <1>15 DEF DnsAlone
<1> QED
  BY <1>3, <1>16, <1>17, <1>18 DEF ZInv

(* What an operation that has learnt something still says.                 *)
ZAsAsked(x, op) ==
  /\ ZFields \subseteq DOMAIN x /\ x.do = op.do /\ x.zone = op.zone /\ x.node = op.node /\ x.old = op.old
  /\ x.data = op.data /\ x.todo = op.todo /\ x.result = op.result /\ x.nth = op.nth /\ x.alone = op.alone
  /\ x.found = op.found

LEMMA ZToldIs ==
  ASSUME NEW op, IsDns(op), NEW x, ZAsAsked(x, op), x.records \in Seq(Record), x.soa \in Seq(Record),
         x.serial \in 0..MaxSerial, Head(op.todo) # "write"
  PROVE  IsDns(x)
  BY DEF IsDns, ZAsAsked

LEMMA FindsAs ==
  ASSUME NEW x, NEW op, ZAsAsked(x, op)
  PROVE  \A rs : Finds(x, rs) = Finds(op, rs)
  BY DEF Finds, ZAsAsked

LEMMA CheckKeeps ==
  ASSUME ZInv, NEW a \in ZAdmin, Check(a)
  PROVE  ZInv'
<1>1. PICK op : op = dnsWork[a]
  OBVIOUS
<1>2. PICK records : records = RecordsIn(zones, op.zone, op.node)
  OBVIOUS
<1>3. DnsAt(a, "check") /\ zones' = zones /\ dnsOps' = dnsOps
  BY DEF Check
<1>4. /\ DnsBusy(a) /\ IsDns(op) /\ Head(op.todo) = "check" /\ ZonesFormed(zones) /\ op.do \in RecordDeeds
      /\ Undisturbed(a) => ZoneKnown(zones, op)
  <2>1. "check" \in RecordWords
    BY DEF RecordWords
  <2> QED
    BY <1>1, <1>3, <2>1, ZAtIs
<1>5. CASE RefusesRecord(op, op.node)
  <2>1. DnsEnds(a, "refused")
    BY <1>1, <1>5 DEF Check
  <2> QED
    BY <1>3, <1>4, <2>1, ZStopKeeps
<1>6. CASE ~RefusesRecord(op, op.node)
  <2>1. PICK op2 : op2 = [op EXCEPT !.records = records, !.first = records, !.there = Exists(op.zone, op.node)]
    OBVIOUS
  <2>2. DnsGoes(a, op2)
    BY <1>1, <1>2, <1>6, <2>1, DnsReads DEF Check
  <2>3. ZFields \subseteq DOMAIN op
    BY <1>4 DEF IsDns
  <2>4. ZAsAsked(op2, op) /\ op2.records = records /\ op2.soa = op.soa /\ op2.serial = op.serial
    BY <2>1, <2>3 DEF ZAsAsked, ZFields
  <2>5. records \in Seq(Record)
    BY <1>2, <1>4, RecordsRead
  <2>6. IsDns(op2)
    <3>1. op.soa \in Seq(Record) /\ op.serial \in 0..MaxSerial
      BY <1>4 DEF IsDns
    <3> QED
      BY <1>4, <2>4, <2>5, <3>1, ZToldIs
  <2>7. Finds(op, records)
    BY <1>2, <1>4, <1>6, DnsReads DEF Finds, RefusesRecord
  <2>8. ASSUME NEW x, ZKept(x, op2), Head(x.todo) = DnsAfter(Head(op2.todo)), Undisturbed(a)
        PROVE  ZoneKnown(zones', x)
    <3>1. /\ x.zone = op.zone /\ x.node = op.node /\ x.found = op.found /\ Head(x.todo) = "bump"
          /\ \A rs : Finds(x, rs) = Finds(op, rs)
      <4>1. ZFields \subseteq DOMAIN op2
        BY <2>4 DEF ZAsAsked
      <4>2. x.zone = op2.zone /\ x.node = op2.node /\ x.found = op2.found /\ \A rs : Finds(x, rs) = Finds(op2, rs)
        BY ONLY <2>8, <4>1, ZKeptIs
      <4>3. \A rs : Finds(op2, rs) = Finds(op, rs)
        BY <2>4, FindsAs
      <4> QED
        BY <1>4, <2>4, <2>8, <4>2, <4>3 DEF ZAsAsked, DnsAfter
    <3>2. op.found \in 1..(MaxSerial - 1) => SerialOf(RecordsIn(zones, op.zone, Apex)) = op.found
      BY <1>4, <2>8 DEF ZoneKnown, RecordWords, Advanced
    <3> QED
      BY <1>2, <1>3, <2>7, <3>1, <3>2 DEF ZoneKnown, Advanced
  <2>9. Head(op2.todo) # "reread" /\ op2.todo = op.todo /\ op2.nth = op.nth /\ op2.alone = op.alone
    BY <1>4, <2>4 DEF ZAsAsked
  <2>10. ZonesFormed(zones')
    BY <1>3, <1>4
  <2> QED
    BY <1>1, <1>3, <1>4, <2>2, <2>6, <2>8, <2>9, <2>10, ZMoves
<1> QED
  BY <1>5, <1>6

LEMMA BumpKeeps ==
  ASSUME ZInv, NEW a \in ZAdmin, Bump(a)
  PROVE  ZInv'
<1>1. PICK op : op = dnsWork[a]
  OBVIOUS
<1>2. PICK soa : soa = RecordsIn(zones, op.zone, Apex)
  OBVIOUS
<1>3. DnsAt(a, "bump") /\ zones' = zones /\ dnsOps' = dnsOps
  BY DEF Bump
<1>4. /\ DnsBusy(a) /\ IsDns(op) /\ Head(op.todo) = "bump" /\ ZonesFormed(zones)
      /\ Undisturbed(a) => ZoneKnown(zones, op)
  BY <1>1, <1>3, ZAtIs
<1>5. PICK op2 : op2 = [op EXCEPT !.soa = soa, !.node1 = Exists(op.zone, Apex)]
  OBVIOUS
<1>6. DnsGoes(a, op2)
  BY <1>1, <1>2, <1>5, DnsReads DEF Bump
<1>7. ZFields \subseteq DOMAIN op
  BY <1>4 DEF IsDns
<1>8. /\ ZAsAsked(op2, op) /\ op2.records = op.records /\ op2.soa = soa /\ op2.serial = op.serial
      /\ op2.node1 = Exists(op.zone, Apex)
  BY <1>5, <1>7 DEF ZAsAsked, ZFields
<1>9. soa \in Seq(Record)
  BY <1>2, <1>4, RecordsRead
<1>10. IsDns(op2)
  <2>1. op.records \in Seq(Record) /\ op.serial \in 0..MaxSerial
    BY <1>4 DEF IsDns
  <2> QED
    BY <1>4, <1>8, <1>9, <2>1, ZToldIs
<1>11. ASSUME NEW x, ZKept(x, op2), Head(x.todo) = DnsAfter(Head(op2.todo)), Undisturbed(a)
       PROVE  ZoneKnown(zones', x)
  <2>1. /\ x.zone = op.zone /\ x.node = op.node /\ x.found = op.found /\ Head(x.todo) = "advance"
        /\ x.soa = soa /\ x.node1 = ThereIn(zones, op.zone, Apex) /\ \A rs : Finds(x, rs) = Finds(op, rs)
    <3>1. ZFields \subseteq DOMAIN op2
      BY <1>8 DEF ZAsAsked
    <3>2. /\ x.zone = op2.zone /\ x.node = op2.node /\ x.found = op2.found /\ x.soa = op2.soa /\ x.node1 = op2.node1
          /\ \A rs : Finds(x, rs) = Finds(op2, rs)
      BY ONLY <1>11, <3>1, ZKeptIs
    <3>3. \A rs : Finds(op2, rs) = Finds(op, rs)
      BY <1>8, FindsAs
    <3> QED
      BY <1>4, <1>8, <1>11, <3>2, <3>3, DnsReads DEF ZAsAsked, DnsAfter
  <2>2. op.found \in 1..(MaxSerial - 1) =>
          /\ SerialOf(RecordsIn(zones, op.zone, Apex)) = op.found
          /\ Finds(op, RecordsIn(zones, op.zone, op.node))
    BY <1>4, <1>11 DEF ZoneKnown, RecordWords, Advanced
  <2> QED
    BY <1>2, <1>3, <2>1, <2>2 DEF ZoneKnown, Advanced
<1>12. Head(op2.todo) # "reread" /\ op2.todo = op.todo /\ op2.nth = op.nth /\ op2.alone = op.alone
  BY <1>4, <1>8 DEF ZAsAsked
<1>13. ZonesFormed(zones')
  BY <1>3, <1>4
<1> QED
  BY <1>1, <1>3, <1>4, <1>6, <1>10, <1>11, <1>12, <1>13, ZMoves

LEMMA RereadKeeps ==
  ASSUME ZInv, NEW a \in ZAdmin, Reread(a)
  PROVE  ZInv'
<1>1. PICK op : op = dnsWork[a]
  OBVIOUS
<1>2. PICK records : records = RecordsIn(zones, op.zone, op.node)
  OBVIOUS
<1>3. DnsAt(a, "reread") /\ zones' = zones /\ dnsOps' = dnsOps
  BY DEF Reread
<1>4. /\ DnsBusy(a) /\ IsDns(op) /\ Head(op.todo) = "reread" /\ ZonesFormed(zones)
      /\ Undisturbed(a) => ZoneKnown(zones, op)
  BY <1>1, <1>3, ZAtIs
<1>5. CASE op.do # "create" /\ FirstMatch(records, "A", op.old) = 0
  <2>1. DnsEnds(a, "refused")
    BY <1>1, <1>2, <1>5, DnsReads DEF Reread
  <2> QED
    BY <1>3, <1>4, <2>1, ZStopKeeps
<1>6. CASE ~(op.do # "create" /\ FirstMatch(records, "A", op.old) = 0)
  <2>1. PICK op2 : op2 = [op EXCEPT !.records = records, !.there = Exists(op.zone, op.node)]
    OBVIOUS
  <2>2. DnsGoes(a, op2)
    BY <1>1, <1>2, <1>6, <2>1, DnsReads DEF Reread
  <2>3. ZFields \subseteq DOMAIN op
    BY <1>4 DEF IsDns
  <2>4. ZAsAsked(op2, op) /\ op2.records = records /\ op2.soa = op.soa /\ op2.serial = op.serial
    BY <2>1, <2>3 DEF ZAsAsked, ZFields
  <2>5. records \in Seq(Record)
    BY <1>2, <1>4, RecordsRead
  <2>6. IsDns(op2)
    <3>1. op.soa \in Seq(Record) /\ op.serial \in 0..MaxSerial
      BY <1>4 DEF IsDns
    <3> QED
      BY <1>4, <2>4, <2>5, <3>1, ZToldIs
  <2>7. Finds(op2, op2.records)
    BY <1>6, <2>4, FindsAs DEF Finds
  <2>8. ASSUME NEW x, ZKept(x, op2), Head(x.todo) = DnsAfter(Head(op2.todo)), Undisturbed(a)
        PROVE  ZoneKnown(zones', x)
    <3>1. /\ x.zone = op.zone /\ x.node = op.node /\ x.found = op.found /\ Head(x.todo) = "write"
          /\ x.records = records
      <4>1. ZFields \subseteq DOMAIN op2
        BY <2>4 DEF ZAsAsked
      <4>2. x.zone = op2.zone /\ x.node = op2.node /\ x.found = op2.found /\ x.records = op2.records
        BY ONLY <2>8, <4>1, ZKeptIs
      <4> QED
        BY <1>4, <2>4, <2>8, <4>2 DEF ZAsAsked, DnsAfter
    <3>2. op.found \in 1..(MaxSerial - 1) => SerialOf(RecordsIn(zones, op.zone, Apex)) = op.found + 1
      BY <1>4, <2>8 DEF ZoneKnown, RecordWords, Advanced
    <3> QED
      BY <1>2, <1>3, <3>1, <3>2 DEF ZoneKnown, Advanced
  <2>9. op2.todo = op.todo /\ op2.nth = op.nth /\ op2.alone = op.alone
    BY <2>4 DEF ZAsAsked
  <2>10. ZonesFormed(zones')
    BY <1>3, <1>4
  <2> QED
    BY <1>1, <1>3, <1>4, <2>2, <2>6, <2>7, <2>8, <2>9, <2>10, ZMoves
<1> QED
  BY <1>5, <1>6

(* An SOA that is there and below the largest serial is advanced, and what *)
(* is written differs from what was read only if it was.                   *)
LEMMA AdvancesIs ==
  ASSUME NEW rs \in Seq(Record)
  PROVE  /\ BumpedSoa(rs) # rs => Bumped(rs, BumpedSoa(rs)) /\ Stamp(rs) \in 0..MaxSerial
         /\ SerialOf(rs) \in 1..(MaxSerial - 1) => rs # <<>> /\ BumpedSoa(rs) # rs
<1>1. BumpedSoa(rs) # rs => Bumped(rs, BumpedSoa(rs)) /\ Stamp(rs) \in 0..MaxSerial
  <2>1. ASSUME BumpedSoa(rs) # rs PROVE FirstSoa(rs) # 0 /\ SerialOf(rs) # MaxSerial
    BY <2>1 DEF BumpedSoa, SerialOf
  <2> QED
    BY <2>1, BumpedIs
<1>2. ASSUME SerialOf(rs) \in 1..(MaxSerial - 1) PROVE rs # <<>> /\ BumpedSoa(rs) # rs
  <2>1. SerialOf(rs) # 0 /\ SerialOf(rs) # MaxSerial
    <3>1. MaxSerial \in Nat
      BY ZoneConstants
    <3> QED
      BY ONLY <1>2, <3>1
  <2>2. FirstSoa(rs) # 0
    BY <2>1 DEF SerialOf
  <2>3. rs # <<>>
    BY <2>2, NoSoa
  <2> QED
    BY <2>1, <2>2, <2>3, BumpedIs DEF Bumped
<1> QED
  BY <1>1, <1>2

LEMMA AdvanceKeeps ==
  ASSUME ZInv, NEW a \in ZAdmin, Advance(a)
  PROVE  ZInv'
<1>1. PICK op : op = dnsWork[a]
  OBVIOUS
<1>2. PICK soa : soa = BumpedSoa(op.soa)
  OBVIOUS
<1>3. DnsAt(a, "advance") /\ dnsOps' = dnsOps
  BY DEF Advance
<1>4. /\ DnsBusy(a) /\ IsDns(op) /\ Head(op.todo) = "advance" /\ ZonesFormed(zones)
      /\ Undisturbed(a) => ZoneKnown(zones, op)
  BY <1>1, <1>3, ZAtIs
<1>5. PICK apex : apex = RecordsIn(zones, op.zone, Apex)
  OBVIOUS
<1>6. op.soa \in Seq(Record) /\ apex \in Seq(Record) /\ (ThereIn(zones, op.zone, Apex) = (apex # <<>>))
  BY <1>4, <1>5, RecordsRead DEF IsDns
\* What it knows of the zone if nobody crossed it.
<1>7. ASSUME Undisturbed(a), op.found \in 1..(MaxSerial - 1)
      PROVE  /\ SerialOf(apex) = op.found /\ op.soa = apex /\ op.node1 = ThereIn(zones, op.zone, Apex)
             /\ Finds(op, RecordsIn(zones, op.zone, op.node))
  BY <1>4, <1>5, <1>7 DEF ZoneKnown, RecordWords, Advanced
<1>8. ASSUME NEW op2, ZAsAsked(op2, op), NEW x, ZKept(x, op2), Head(x.todo) = DnsAfter(Head(op2.todo)), Undisturbed(a),
             \/ zones' = zones /\ (~op.node1 \/ soa = op.soa)
             \/ NodeIs(zones, op.zone, Apex, soa, zones') /\ Bumped(op.soa, soa)
      PROVE  ZoneKnown(zones', x)
  <2>1. /\ x.zone = op.zone /\ x.node = op.node /\ x.found = op.found /\ Head(x.todo) = "reread"
        /\ \A rs : Finds(x, rs) = Finds(op, rs)
    <3>1. ZFields \subseteq DOMAIN op2
      BY <1>8 DEF ZAsAsked
    <3>2. x.zone = op2.zone /\ x.node = op2.node /\ x.found = op2.found /\ \A rs : Finds(x, rs) = Finds(op2, rs)
      BY ONLY <1>8, <3>1, ZKeptIs
    <3>3. \A rs : Finds(op2, rs) = Finds(op, rs)
      BY <1>8, FindsAs
    <3> QED
      BY <1>4, <1>8, <3>2, <3>3 DEF ZAsAsked, DnsAfter
  <2>2. CASE op.found \notin 1..(MaxSerial - 1)
    BY <2>1, <2>2 DEF ZoneKnown
  <2>3. CASE op.found \in 1..(MaxSerial - 1)
    <3>1. /\ SerialOf(apex) = op.found /\ op.soa = apex /\ op.node1 = ThereIn(zones, op.zone, Apex)
          /\ Finds(op, RecordsIn(zones, op.zone, op.node))
      BY <1>7, <1>8, <2>3
    <3>2. apex # <<>> /\ BumpedSoa(apex) # apex
      BY <1>6, <2>3, <3>1, AdvancesIs
    <3>3. NodeIs(zones, op.zone, Apex, soa, zones') /\ Bumped(apex, soa)
      BY <1>2, <1>6, <1>8, <3>1, <3>2
    <3>4. RecordsIn(zones', op.zone, Apex) = soa /\ SerialOf(soa) = op.found + 1
      BY <3>1, <3>3 DEF NodeIs, Bumped
    <3>5. Finds(op, RecordsIn(zones', op.zone, op.node))
      <4>1. CASE op.node = Apex
        <5>1. FirstMatch(soa, "A", op.old) = FirstMatch(apex, "A", op.old)
          BY <3>3 DEF Bumped
        <5> QED
          BY <1>5, <3>1, <3>4, <4>1, <5>1 DEF Finds
      <4>2. CASE op.node # Apex
        <5>1. RecordsIn(zones', op.zone, op.node) = RecordsIn(zones, op.zone, op.node)
          BY <3>3, <4>2 DEF NodeIs
        <5> QED
          BY <3>1, <5>1
      <4> QED
        BY <4>1, <4>2
    <3> QED
      BY <2>1, <3>4, <3>5 DEF ZoneKnown, Advanced
  <2> QED
    BY <2>2, <2>3
<1>9. ZFields \subseteq DOMAIN op
  BY <1>4 DEF IsDns
<1>10. CASE ~op.node1 \/ soa = op.soa
  <2>1. DnsGoes(a, op) /\ zones' = zones
    BY <1>1, <1>2, <1>10 DEF Advance
  <2>2. ZAsAsked(op, op)
    BY <1>9 DEF ZAsAsked
  <2>3. \A x : ZKept(x, op) /\ Head(x.todo) = DnsAfter(Head(op.todo)) /\ Undisturbed(a) => ZoneKnown(zones', x)
    BY <1>8, <1>10, <2>1, <2>2
  <2>4. ZonesFormed(zones')
    BY <1>4, <2>1
  <2>5. Head(op.todo) # "reread"
    BY <1>4
  <2> QED
    BY <1>1, <1>3, <1>4, <2>1, <2>3, <2>4, <2>5, ZMoves
<1>11. CASE ~(~op.node1 \/ soa = op.soa) /\ ~Exists(op.zone, Apex)
  <2>1. DnsEnds(a, "failed") /\ zones' = zones
    BY <1>1, <1>2, <1>11 DEF Advance
  <2> QED
    BY <1>3, <1>4, <2>1, ZStopKeeps
<1>12. CASE ~(~op.node1 \/ soa = op.soa) /\ Exists(op.zone, Apex)
  <2>1. PICK op2 : op2 = [op EXCEPT !.serial = Stamp(op.soa), !.advanced = TRUE]
    OBVIOUS
  <2>2. DnsGoes(a, op2) /\ StaysAs(op.zone, Apex, soa)
    BY <1>1, <1>2, <1>12, <2>1 DEF Advance
  <2>3. Bumped(op.soa, soa) /\ Stamp(op.soa) \in 0..MaxSerial
    BY <1>2, <1>6, <1>12, AdvancesIs
  <2>4. NodeIs(zones, op.zone, Apex, soa, zones')
    <3>1. soa \in Seq(Record) /\ soa # <<>>
      <4>1. soa \in Seq(Record) /\ FirstSoa(soa) = FirstSoa(op.soa)
        BY <2>3 DEF Bumped
      <4>2. FirstSoa(op.soa) # 0
        BY <1>2, <1>12 DEF BumpedSoa
      <4> QED
        BY <4>1, <4>2, NoSoa
    <3>2. op.zone \in DOMAIN zones /\ Apex \in Nodes
      BY <1>12 DEF Exists, Nodes
    <3>3. zones' = NodePut(zones, op.zone, Apex, soa)
      BY <2>2 DEF StaysAs, NodePut
    <3> QED
      BY <1>4, <3>1, <3>2, <3>3, NodeWritten
  <2>5. ZAsAsked(op2, op) /\ op2.records = op.records /\ op2.soa = op.soa /\ op2.serial = Stamp(op.soa)
    BY <1>9, <2>1 DEF ZAsAsked, ZFields
  <2>6. IsDns(op2)
    <3>1. op.records \in Seq(Record)
      BY <1>4 DEF IsDns
    <3> QED
      BY <1>4, <1>6, <2>3, <2>5, <3>1, ZToldIs
  <2>7. \A x : ZKept(x, op2) /\ Head(x.todo) = DnsAfter(Head(op2.todo)) /\ Undisturbed(a) => ZoneKnown(zones', x)
    BY <1>8, <2>3, <2>4, <2>5
  <2>8. Head(op2.todo) # "reread" /\ op2.todo = op.todo /\ op2.nth = op.nth /\ op2.alone = op.alone
    BY <1>4, <2>5 DEF ZAsAsked
  <2>9. ZonesFormed(zones')
    BY <2>4 DEF NodeIs
  <2> QED
    BY <1>1, <1>3, <1>4, <2>2, <2>6, <2>7, <2>8, <2>9, ZMoves
<1> QED
  BY <1>10, <1>11, <1>12

(* A write of one record is tried only with the record it is about at      *)
(* hand, and leaves its node as Changed says.                              *)
LEMMA ZWriteIs ==
  ASSUME ZInv, NEW a \in ZAdmin, ZWrite(a), NEW op, op = dnsWork[a]
  PROVE  /\ DnsAt(a, "write") /\ DnsBusy(a) /\ IsDns(op) /\ Head(op.todo) = "write" /\ op.do \in RecordDeeds
         /\ op.records \in Seq(Record) /\ IsChange(op) /\ Finds(op, op.records) /\ dnsOps' = dnsOps
         /\ Changed(op, op.records, Edited(op, op.records))
         /\ \/ DnsEnds(a, "failed") /\ zones' = zones
            \/ /\ DnsGoes(a, op) /\ op.zone \in DOMAIN zones
               /\ NodeIs(zones, op.zone, op.node, Edited(op, op.records), zones')
<1>1. DnsAt(a, "write") /\ dnsOps' = dnsOps
  BY DEF ZWrite
<1>2. /\ DnsBusy(a) /\ IsDns(op) /\ Head(op.todo) = "write" /\ ZonesFormed(zones) /\ op.do \in RecordDeeds
  <2>1. "write" \in RecordWords
    BY DEF RecordWords
  <2> QED
    BY <1>1, <2>1, ZAtIs
<1>3. op.records \in Seq(Record) /\ IsChange(op) /\ Finds(op, op.records) /\ op.node \in Nodes
  BY <1>2 DEF IsDns, IsChange, RecordDeeds
<1>4. PICK new : new = Edited(op, op.records)
  OBVIOUS
<1>5. Changed(op, op.records, new)
  BY <1>3, <1>4, EditedIs
<1>6. PICK n \in Nat : n = Len(op.records)
  BY <1>3
<1>7. CASE op.zone \notin DOMAIN zones \/ op.there # Exists(op.zone, op.node)
  <2>1. DnsEnds(a, "failed") /\ zones' = zones
    BY <1>7 DEF ZWrite
  <2> QED
    BY <1>1, <1>2, <1>3, <1>4, <1>5, <2>1
<1>8. CASE ~(op.zone \notin DOMAIN zones \/ op.there # Exists(op.zone, op.node)) /\ NodeGoes(op)
  <2>1. DnsGoes(a, op) /\ op.zone \in DOMAIN zones
    BY <1>8 DEF ZWrite
  <2>2. zones' = NodeCut(zones, op.zone, op.node)
    BY <1>8 DEF ZWrite, NodeCut
  <2>3. op.do = "delete" /\ n = 1
    BY <1>6, <1>8 DEF NodeGoes
  <2>4. new \in Seq(Record) /\ Len(new) = n + (-1)
    BY <1>5, <1>6, <2>3 DEF Changed
  <2>5. Len(new) = 0
    BY ONLY <2>3, <2>4
  <2>6. new = <<>>
    BY <2>4, <2>5
  <2>7. NodeIs(zones, op.zone, op.node, new, zones')
    BY <1>2, <2>1, <2>2, <2>6, NodeTaken
  <2> QED
    BY <1>1, <1>2, <1>3, <1>4, <1>5, <2>1, <2>7
<1>9. CASE ~(op.zone \notin DOMAIN zones \/ op.there # Exists(op.zone, op.node)) /\ ~NodeGoes(op)
  <2>1. DnsGoes(a, op) /\ op.zone \in DOMAIN zones
    BY <1>9 DEF ZWrite
  <2>2. zones' = NodePut(zones, op.zone, op.node, new)
    BY <1>4, <1>9 DEF ZWrite, NodePut, StaysAs
  <2>3. new \in Seq(Record)
    BY <1>5 DEF Changed
  <2>4. new # <<>>
    <3>1. CASE op.do = "create"
      <4>1. Len(new) = n + 1
        BY <1>5, <1>6, <3>1 DEF Changed
      <4>2. Len(new) # 0
        BY ONLY <4>1, n \in Nat
      <4> QED
        BY <4>2
    <3>2. CASE op.do # "create"
      <4>1. FirstMatch(op.records, "A", op.old) \in 1..n
        BY <1>3, <1>6, <3>2, MatchAt DEF Finds
      <4>2. n > 0
        BY ONLY <4>1, n \in Nat
      <4>3. CASE op.do = "delete"
        <5>1. Len(new) = n + (-1) /\ n # 1
          BY <1>5, <1>6, <1>9, <4>3 DEF Changed, NodeGoes
        <5>2. Len(new) # 0
          BY ONLY <4>2, <5>1, n \in Nat
        <5> QED
          BY <5>2
      <4>4. CASE op.do # "delete"
        <5>1. Len(new) = n + 0
          BY <1>5, <1>6, <3>2, <4>4 DEF Changed
        <5>2. Len(new) # 0
          BY ONLY <4>2, <5>1, n \in Nat
        <5> QED
          BY <5>2
      <4> QED
        BY <4>3, <4>4
    <3> QED
      BY <3>1, <3>2
  <2>5. NodeIs(zones, op.zone, op.node, new, zones')
    BY <1>2, <1>3, <2>1, <2>2, <2>3, <2>4, NodeWritten
  <2> QED
    BY <1>1, <1>2, <1>3, <1>4, <1>5, <2>1, <2>5
<1> QED
  BY <1>7, <1>8, <1>9

LEMMA ZWriteKeeps ==
  ASSUME ZInv, NEW a \in ZAdmin, ZWrite(a)
  PROVE  ZInv'
<1>1. PICK op : op = dnsWork[a]
  OBVIOUS
<1>2. /\ DnsBusy(a) /\ IsDns(op) /\ Head(op.todo) = "write" /\ dnsOps' = dnsOps
      /\ \/ DnsEnds(a, "failed") /\ zones' = zones
         \/ /\ DnsGoes(a, op) /\ op.zone \in DOMAIN zones
            /\ NodeIs(zones, op.zone, op.node, Edited(op, op.records), zones')
  BY <1>1, ZWriteIs
<1>3. CASE DnsEnds(a, "failed") /\ zones' = zones
  BY <1>2, <1>3, ZStopKeeps
<1>4. CASE DnsGoes(a, op) /\ NodeIs(zones, op.zone, op.node, Edited(op, op.records), zones')
  <2>1. ZonesFormed(zones')
    BY <1>4 DEF NodeIs
  <2>2. ASSUME NEW x, Head(x.todo) = DnsAfter(Head(op.todo)) PROVE ZoneKnown(zones', x)
    <3>1. Head(x.todo) = "none"
      BY <1>2, <2>2 DEF DnsAfter
    <3> QED
      BY <3>1 DEF ZoneKnown, RecordWords
  <2>3. Head(op.todo) # "reread"
    BY <1>2
  <2> QED
    BY <1>1, <1>2, <1>4, <2>1, <2>2, <2>3, ZMoves
<1> QED
  BY <1>2, <1>3, <1>4

(* A step of the making or the deletion of a zone.                         *)
LEMMA ZoneWordKeeps ==
  ASSUME ZInv, NEW a \in ZAdmin, NEW s \in {"free", "zone", "apex", "drop"}, DnsAt(a, s), dnsOps' = dnsOps,
         NEW op, IsDns(op), op.todo = dnsWork[a].todo, op.nth = dnsWork[a].nth, op.alone = dnsWork[a].alone,
         DnsGoes(a, op), ZonesFormed(zones')
  PROVE  ZInv'
<1>1. DnsBusy(a) /\ Head(op.todo) = s
  BY DEF DnsAt
<1>2. Head(op.todo) # "reread" /\ Head(op.todo) \notin RecordWords
  BY <1>1 DEF RecordWords
<1> QED
  BY <1>1, <1>2, ZMoves

LEMMA FreeZoneKeeps ==
  ASSUME ZInv, NEW a \in ZAdmin, FreeZone(a)
  PROVE  ZInv'
<1>1. DnsAt(a, "free") /\ zones' = zones /\ dnsOps' = dnsOps
  BY DEF FreeZone
<1>2. DnsBusy(a) /\ IsDns(dnsWork[a]) /\ ZonesFormed(zones)
  BY <1>1, ZAtIs
<1>3. CASE dnsWork[a].zone \in DOMAIN zones
  BY <1>1, <1>2, <1>3, ZStopKeeps DEF FreeZone
<1>4. CASE dnsWork[a].zone \notin DOMAIN zones
  <2>1. DnsGoes(a, dnsWork[a]) /\ ZonesFormed(zones')
    BY <1>1, <1>2, <1>4 DEF FreeZone
  <2> QED
    BY <1>1, <1>2, <2>1, ZoneWordKeeps
<1> QED
  BY <1>3, <1>4

LEMMA AddZoneKeeps ==
  ASSUME ZInv, NEW a \in ZAdmin, AddZone(a)
  PROVE  ZInv'
<1>1. PICK op : op = dnsWork[a]
  OBVIOUS
<1>2. DnsAt(a, "zone") /\ dnsOps' = dnsOps
  BY DEF AddZone
<1>3. DnsBusy(a) /\ IsDns(op) /\ Head(op.todo) = "zone" /\ ZonesFormed(zones)
  BY <1>1, <1>2, ZAtIs
<1>4. CASE op.zone \in DOMAIN zones
  BY <1>1, <1>2, <1>3, <1>4, ZStopKeeps DEF AddZone
<1>5. CASE op.zone \notin DOMAIN zones
  <2>1. PICK op2 : op2 = [op EXCEPT !.advanced = TRUE]
    OBVIOUS
  <2>2. PICK bare : bare = [n \in {} |-> <<>>]
    OBVIOUS
  <2>3. DnsGoes(a, op2) /\ zones' = Extended([z \in {op.zone} |-> bare], zones)
    BY <1>1, <1>5, <2>1, <2>2 DEF AddZone
  <2>4. DOMAIN zones' = DOMAIN zones \cup {op.zone} /\ zones'[op.zone] = bare /\ \A z \in DOMAIN zones : zones'[z] = zones[z]
    BY <1>5, <2>3 DEF Extended
  <2>5. ZFields \subseteq DOMAIN op /\ op.zone \in Zone
    BY <1>3 DEF IsDns
  <2>6. DOMAIN bare = {}
    BY <2>2
  <2>7. ZonesFormed(zones')
    BY <1>3, <2>4, <2>5, <2>6 DEF ZonesFormed
  <2>8. ZAsAsked(op2, op) /\ op2.records = op.records /\ op2.soa = op.soa /\ op2.serial = op.serial
    BY <2>1, <2>5 DEF ZAsAsked, ZFields
  <2>9. IsDns(op2)
    <3>1. op.records \in Seq(Record) /\ op.soa \in Seq(Record) /\ op.serial \in 0..MaxSerial
      BY <1>3 DEF IsDns
    <3> QED
      BY <1>3, <2>8, <3>1, ZToldIs
  <2>10. op2.todo = dnsWork[a].todo /\ op2.nth = dnsWork[a].nth /\ op2.alone = dnsWork[a].alone
    BY <1>1, <2>8 DEF ZAsAsked
  <2> QED
    BY <1>2, <2>3, <2>7, <2>9, <2>10, ZoneWordKeeps
<1> QED
  BY <1>4, <1>5

LEMMA AddApexKeeps ==
  ASSUME ZInv, NEW a \in ZAdmin, AddApex(a)
  PROVE  ZInv'
<1>1. PICK op : op = dnsWork[a]
  OBVIOUS
<1>2. DnsAt(a, "apex") /\ dnsOps' = dnsOps
  BY DEF AddApex
<1>3. DnsBusy(a) /\ IsDns(op) /\ ZonesFormed(zones)
  BY <1>1, <1>2, ZAtIs
<1>4. CASE op.zone \notin DOMAIN zones \/ Exists(op.zone, Apex)
  BY <1>1, <1>2, <1>3, <1>4, ZStopKeeps DEF AddApex
<1>5. CASE ~(op.zone \notin DOMAIN zones \/ Exists(op.zone, Apex))
  <2>1. PICK rs : rs = NewApex(op)
    OBVIOUS
  <2>2. rs \in Seq(Record) /\ rs # <<>>
    <3>1. Normal(op.data) \in Datum
      BY <1>3, ZoneConstants DEF IsDns, Normal
    <3>2. 1 \in 0..MaxSerial
      <4>1. MaxSerial \in Nat \ {0}
        BY ZoneConstants
      <4> QED
        BY ONLY <4>1
    <3>3. PICK soa : soa = [type |-> "SOA", data |-> "soa", serial |-> 1]
      OBVIOUS
    <3>4. PICK ns : ns = [type |-> "NS", data |-> Normal(op.data), serial |-> 1]
      OBVIOUS
    <3>5. soa \in Record /\ ns \in Record
      BY <3>1, <3>2, <3>3, <3>4 DEF Record
    <3>6. rs = <<soa, ns>>
      BY <2>1, <3>3, <3>4 DEF NewApex
    <3> QED
      BY <3>5, <3>6
  <2>3. DnsGoes(a, op) /\ zones' = NodePut(zones, op.zone, Apex, rs)
    BY <1>1, <1>5, <2>1 DEF AddApex, StaysAs, NodePut
  <2>4. op.zone \in DOMAIN zones /\ Apex \in Nodes
    BY <1>5 DEF Nodes
  <2>5. NodeIs(zones, op.zone, Apex, rs, zones')
    BY <1>3, <2>2, <2>3, <2>4, NodeWritten
  <2>6. ZonesFormed(zones')
    BY <2>5 DEF NodeIs
  <2> QED
    BY <1>1, <1>2, <1>3, <2>3, <2>6, ZoneWordKeeps
<1> QED
  BY <1>4, <1>5

LEMMA DropZoneKeeps ==
  ASSUME ZInv, NEW a \in ZAdmin, DropZone(a)
  PROVE  ZInv'
<1>1. PICK op : op = dnsWork[a]
  OBVIOUS
<1>2. DnsAt(a, "drop") /\ dnsOps' = dnsOps
  BY DEF DropZone
<1>3. DnsBusy(a) /\ IsDns(op) /\ ZonesFormed(zones)
  BY <1>1, <1>2, ZAtIs
<1>4. CASE op.zone \in SystemZone \/ op.zone \notin DOMAIN zones
  BY <1>1, <1>2, <1>3, <1>4, ZStopKeeps DEF DropZone
<1>5. CASE ~(op.zone \in SystemZone \/ op.zone \notin DOMAIN zones)
  <2>1. DnsGoes(a, op) /\ zones' = [z \in DOMAIN zones \ {op.zone} |-> zones[z]]
    BY <1>1, <1>5 DEF DropZone
  <2>2. DOMAIN zones' \subseteq DOMAIN zones /\ \A z \in DOMAIN zones' : zones'[z] = zones[z]
    BY <2>1
  <2>3. ZonesFormed(zones')
    BY <1>3, <2>2 DEF ZonesFormed
  <2> QED
    BY <1>1, <1>2, <1>3, <2>1, <2>3, ZoneWordKeeps
<1> QED
  BY <1>4, <1>5

LEMMA ZInitHolds == ZonesInit => ZInv
<1> SUFFICES ASSUME ZonesInit PROVE ZInv
  OBVIOUS
<1>1. zones = Zoned /\ dnsWork = [a \in ZAdmin |-> DnsIdle("ok")] /\ dnsOps = 0
  BY DEF ZonesInit
<1>2. \A a \in ZAdmin : dnsWork[a].todo = <<>> /\ dnsWork[a].result = "ok"
  BY <1>1 DEF DnsIdle
<1>3. dnsWork = [a \in ZAdmin |-> dnsWork[a]]
  BY <1>1
<1>4. ZonesFormed(zones)
  BY <1>1, ZonedSound DEF ZonesFormed
<1>5. dnsOps \in 0..MaxZoneOps
  <2>1. MaxZoneOps \in Nat
    BY ZoneConstants
  <2> QED
    BY ONLY <1>1, <2>1
<1>6. DnsTasks
  BY <1>2, <1>3 DEF DnsTasks, DnsBusy
<1>7. DnsAlone
  BY <1>2 DEF DnsAlone, DnsBusy
<1> QED
  BY <1>4, <1>5, <1>6, <1>7 DEF ZInv

LEMMA ZStepKeeps == ZInv /\ [ZonesNext]_zoneVars => ZInv'
<1> SUFFICES ASSUME ZInv, [ZonesNext]_zoneVars PROVE ZInv'
  OBVIOUS
<1>1. CASE UNCHANGED zoneVars
  <2>1. zones' = zones /\ dnsWork' = dnsWork /\ dnsOps' = dnsOps
    BY <1>1 DEF zoneVars
  <2>2. (ZonesFormed(zones) /\ dnsOps \in 0..MaxZoneOps)'
    BY <2>1 DEF ZInv
  <2>3. DnsTasks'
    BY <2>1 DEF ZInv, DnsTasks, DnsBusy
  <2>4. DnsAlone'
    BY <2>1 DEF ZInv, DnsAlone, DnsBusy, Undisturbed
  <2> QED
    BY <2>2, <2>3, <2>4 DEF ZInv
<1>2. ASSUME NEW a \in ZAdmin, ZoneStep(a) PROVE ZInv'
  <2>1. CASE ZLost(a)
    BY <2>1, ZStopKeeps DEF ZLost
  <2> QED
    BY <1>2, <2>1, ZBeginKeeps, CheckKeeps, BumpKeeps, AdvanceKeeps, RereadKeeps, ZWriteKeeps, FreeZoneKeeps,
       AddZoneKeeps, AddApexKeeps, DropZoneKeeps DEF ZoneStep
<1> QED
  BY <1>1, <1>2 DEF ZonesNext

(* The zones are well formed, and what a change of a record nobody crossed *)
(* knows of its zone stays true between its requests: the serial is the    *)
(* one it found until it has advanced it, and the record it is about is    *)
(* there.                                                                  *)
THEOREM ZInvAlways == ZonesSpec => []ZInv
<1>1. ZonesInit => ZInv
  BY ZInitHolds
<1>2. ZInv /\ [ZonesNext]_zoneVars => ZInv'
  BY ZStepKeeps
<1> QED
  BY <1>1, <1>2, PTL DEF ZonesSpec

---------------------------------------------------------------------------
(***************************************************************************)
(* A change of a zone is one record and one serial                         *)
(***************************************************************************)
(* A step is of one session; an operation goes on until its last request.  *)
LEMMA ZOthers ==
  ASSUME ZInv, NEW a \in ZAdmin, ZoneStep(a), NEW b \in ZAdmin, b # a
  PROVE  dnsWork'[b] = dnsWork[b]
<1>1. dnsWork = [c \in ZAdmin |-> dnsWork[c]]
  BY DEF ZInv, DnsTasks
<1>2. PICK x : dnsWork' = [dnsWork EXCEPT ![a] = x]
  <2>1. CASE DnsBegin(a)
    BY <2>1 DEF DnsBegin
  <2>2. CASE ~DnsBegin(a)
    BY <2>2 DEF ZoneStep, Check, Bump, Advance, Reread, ZWrite, FreeZone, AddZone, AddApex, DropZone, ZLost, DnsGoes, DnsEnds
  <2> QED
    BY <2>1, <2>2
<1> QED
  BY <1>1, <1>2

LEMMA ZEndsIs ==
  ASSUME ZInv, NEW a \in ZAdmin, NEW why, DnsEnds(a, why)
  PROVE  dnsWork'[a].result = why /\ dnsWork'[a].todo = <<>>
<1>1. dnsWork = [c \in ZAdmin |-> dnsWork[c]]
  BY DEF ZInv, DnsTasks
<1> QED
  BY <1>1 DEF DnsEnds, DnsIdle

LEMMA ZGoesIs ==
  ASSUME ZInv, NEW a \in ZAdmin, DnsBusy(a), NEW op, ZFields \subseteq DOMAIN op, op.todo = dnsWork[a].todo, DnsGoes(a, op)
  PROVE  IF Len(op.todo) > 1 THEN dnsWork'[a].todo # <<>> ELSE dnsWork'[a].todo = <<>> /\ dnsWork'[a].result = "ok"
<1>1. dnsWork = [c \in ZAdmin |-> dnsWork[c]]
  BY DEF ZInv, DnsTasks
<1>2. CASE Len(op.todo) > 1
  <2>1. PICK x : x = [op EXCEPT !.todo = Tail(@)]
    OBVIOUS
  <2>2. dnsWork' = [dnsWork EXCEPT ![a] = x]
    BY <1>2, <2>1 DEF DnsGoes
  <2>3. x.todo = Tail(op.todo)
    BY <2>1 DEF ZFields
  <2>4. DnsWay(op.todo, dnsWork[a].do)
    BY DEF ZInv, DnsTasks, IsDns
  <2>5. Tail(op.todo) # <<>>
    BY <1>2, <2>4, PlanIs
  <2> QED
    BY <1>1, <1>2, <2>2, <2>3, <2>5
<1>3. CASE ~(Len(op.todo) > 1)
  <2>1. dnsWork' = [dnsWork EXCEPT ![a] = DnsIdle("ok")]
    BY <1>3 DEF DnsGoes
  <2> QED
    BY <1>1, <1>3, <2>1 DEF DnsIdle
<1> QED
  BY <1>2, <1>3

(* A change of a record ends in its write, in a refusal that has moved no  *)
(* serial, or in a failure.                                                *)
LEMMA ZLastIs ==
  ASSUME ZInv, NEW a \in ZAdmin, ZoneStep(a), DnsBusy(a), dnsWork'[a].todo = <<>>, dnsWork[a].do \in RecordDeeds
  PROVE  \/ dnsWork'[a].result = "failed"
         \/ DnsAt(a, "check") /\ dnsWork'[a].result = "refused" /\ zones' = zones
         \/ /\ DnsAt(a, "reread") /\ dnsWork'[a].result = "refused"
            /\ ~Finds(dnsWork[a], RecordsIn(zones, dnsWork[a].zone, dnsWork[a].node))
         \/ ZWrite(a) /\ dnsWork'[a].result = "ok"
<1>1. PICK op : op = dnsWork[a]
  OBVIOUS
<1>2. IsDns(op) /\ ZFields \subseteq DOMAIN op
  BY <1>1 DEF ZInv, DnsTasks, IsDns
<1>3. Head(op.todo) \in RecordWords /\ (Head(op.todo) = "write" <=> ~(Len(op.todo) > 1))
  BY <1>1, <1>2, PlanIs DEF IsDns
\* It does not end where it goes on.
<1>4. ASSUME NEW op2, ZFields \subseteq DOMAIN op2, op2.todo = op.todo, DnsGoes(a, op2)
      PROVE  Head(op.todo) = "write" /\ dnsWork'[a].result = "ok"
  BY <1>1, <1>3, <1>4, ZGoesIs
<1>5. CASE Check(a)
  <2>1. DnsAt(a, "check") /\ zones' = zones /\ Head(op.todo) = "check"
    BY <1>1, <1>5 DEF Check, DnsAt
  <2>2. CASE RefusesRecord(op, op.node)
    BY <1>1, <1>5, <2>1, <2>2, ZEndsIs DEF Check
  <2>3. CASE ~RefusesRecord(op, op.node)
    <3>1. PICK rs : rs = Records(op.zone, op.node)
      OBVIOUS
    <3>2. PICK op2 : op2 = [op EXCEPT !.records = rs, !.first = rs, !.there = Exists(op.zone, op.node)]
      OBVIOUS
    <3>3. DnsGoes(a, op2)
      BY <1>1, <1>5, <2>3, <3>1, <3>2 DEF Check
    <3>4. ZFields \subseteq DOMAIN op2 /\ op2.todo = op.todo
      BY <1>2, <3>2 DEF ZFields
    <3> QED
      BY <1>4, <2>1, <3>3, <3>4
  <2> QED
    BY <2>2, <2>3
<1>6. CASE Bump(a)
  <2>1. Head(op.todo) = "bump"
    BY <1>1, <1>6 DEF Bump, DnsAt
  <2>2. PICK rs : rs = Records(op.zone, Apex)
    OBVIOUS
  <2>3. PICK op2 : op2 = [op EXCEPT !.soa = rs, !.node1 = Exists(op.zone, Apex)]
    OBVIOUS
  <2>4. DnsGoes(a, op2)
    BY <1>1, <1>6, <2>2, <2>3 DEF Bump
  <2>5. ZFields \subseteq DOMAIN op2 /\ op2.todo = op.todo
    BY <1>2, <2>3 DEF ZFields
  <2> QED
    BY <1>4, <2>1, <2>4, <2>5
<1>7. CASE Advance(a)
  <2>1. Head(op.todo) = "advance"
    BY <1>1, <1>7 DEF Advance, DnsAt
  <2>2. ~DnsGoes(a, op)
    BY <1>2, <1>4, <2>1
  <2>3. PICK op2 : op2 = [op EXCEPT !.serial = Stamp(op.soa), !.advanced = TRUE]
    OBVIOUS
  <2>4. ZFields \subseteq DOMAIN op2 /\ op2.todo = op.todo
    BY <1>2, <2>3 DEF ZFields
  <2>5. ~DnsGoes(a, op2)
    BY <1>4, <2>1, <2>4
  <2>6. DnsEnds(a, "failed")
    BY <1>1, <1>7, <2>2, <2>3, <2>5 DEF Advance
  <2> QED
    BY <2>6, ZEndsIs
<1>8. CASE Reread(a)
  <2>1. DnsAt(a, "reread") /\ Head(op.todo) = "reread"
    BY <1>1, <1>8 DEF Reread, DnsAt
  <2>2. PICK rs : rs = RecordsIn(zones, op.zone, op.node)
    OBVIOUS
  <2>3. CASE op.do # "create" /\ FirstMatch(rs, "A", op.old) = 0
    <3>1. DnsEnds(a, "refused")
      BY <1>1, <1>8, <2>2, <2>3, DnsReads DEF Reread
    <3>2. ~Finds(op, rs)
      BY <2>3 DEF Finds
    <3> QED
      BY <1>1, <2>1, <2>2, <3>1, <3>2, ZEndsIs
  <2>4. CASE ~(op.do # "create" /\ FirstMatch(rs, "A", op.old) = 0)
    <3>1. PICK op2 : op2 = [op EXCEPT !.records = rs, !.there = Exists(op.zone, op.node)]
      OBVIOUS
    <3>2. DnsGoes(a, op2)
      BY <1>1, <1>8, <2>2, <2>4, <3>1, DnsReads DEF Reread
    <3>3. ZFields \subseteq DOMAIN op2 /\ op2.todo = op.todo
      BY <1>2, <3>1 DEF ZFields
    <3> QED
      BY <1>4, <2>1, <3>2, <3>3
  <2> QED
    BY <2>3, <2>4
<1>9. CASE ZWrite(a)
  <2>1. DnsEnds(a, "failed") \/ DnsGoes(a, op)
    BY <1>1, <1>9 DEF ZWrite
  <2> QED
    BY <1>2, <1>4, <1>9, <2>1, ZEndsIs
<1>10. CASE FreeZone(a) \/ AddZone(a) \/ AddApex(a) \/ DropZone(a)
  <2>1. Head(op.todo) \in {"free", "zone", "apex", "drop"}
    BY <1>1, <1>10 DEF FreeZone, AddZone, AddApex, DropZone, DnsAt
  <2> QED
    BY <1>3, <2>1 DEF RecordWords
<1>11. CASE ZLost(a)
  BY <1>11, ZEndsIs DEF ZLost
<1>12. ~DnsBegin(a)
  BY DEF DnsBegin
<1> QED
  BY <1>5, <1>6, <1>7, <1>8, <1>9, <1>10, <1>11, <1>12 DEF ZoneStep

LEMMA MovedStep ==
  ASSUME ZInv, NEW a \in ZAdmin, ZoneStep(a), DnsBusy(a), dnsWork'[a].todo = <<>>, dnsWork[a].do \in RecordDeeds,
         dnsWork[a].found \in 1..(MaxSerial - 1), Undisturbed(a)
  PROVE  /\ dnsWork'[a].result = "ok" => SerialIn(zones', dnsWork[a].zone) = dnsWork[a].found + 1
         /\ dnsWork'[a].result = "refused" => SerialIn(zones', dnsWork[a].zone) = dnsWork[a].found
<1>1. PICK op : op = dnsWork[a]
  OBVIOUS
<1>2. ZoneKnown(zones, op)
  BY <1>1 DEF ZInv, DnsAlone
<1>3. CASE dnsWork'[a].result = "failed"
  BY <1>3
<1>4. CASE DnsAt(a, "check") /\ dnsWork'[a].result = "refused" /\ zones' = zones
  <2>1. Head(op.todo) = "check"
    BY <1>1, <1>4 DEF DnsAt
  <2>2. SerialOf(RecordsIn(zones, op.zone, Apex)) = op.found
    BY <1>1, <1>2, <2>1 DEF ZoneKnown, RecordWords, Advanced
  <2> QED
    BY <1>1, <1>4, <2>2, SerialIs
<1>5. CASE DnsAt(a, "reread") /\ ~Finds(op, RecordsIn(zones, op.zone, op.node))
  <2>1. Head(op.todo) = "reread"
    BY <1>1, <1>5 DEF DnsAt
  <2> QED
    BY <1>1, <1>2, <1>5, <2>1 DEF ZoneKnown, RecordWords
<1>6. CASE ZWrite(a) /\ dnsWork'[a].result = "ok"
  <2>1. /\ Head(op.todo) = "write" /\ Changed(op, op.records, Edited(op, op.records))
        /\ \/ DnsEnds(a, "failed")
           \/ NodeIs(zones, op.zone, op.node, Edited(op, op.records), zones')
    BY <1>1, <1>6, ZWriteIs
  <2>2. ~DnsEnds(a, "failed")
    BY <1>6, ZEndsIs
  <2>3. PICK new : new = Edited(op, op.records)
    OBVIOUS
  <2>4. NodeIs(zones, op.zone, op.node, new, zones') /\ Changed(op, op.records, new)
    BY <2>1, <2>2, <2>3
  <2>5. /\ SerialOf(RecordsIn(zones, op.zone, Apex)) = op.found + 1
        /\ op.records = RecordsIn(zones, op.zone, op.node)
    BY <1>1, <1>2, <2>1 DEF ZoneKnown, RecordWords, Advanced
  <2>6. SerialOf(RecordsIn(zones', op.zone, Apex)) = op.found + 1
    <3>1. CASE op.node = Apex
      <4>1. RecordsIn(zones', op.zone, Apex) = new
        BY <2>4, <3>1 DEF NodeIs
      <4>2. SerialOf(new) = SerialOf(op.records)
        BY <2>4 DEF Changed
      <4> QED
        BY <2>5, <3>1, <4>1, <4>2
    <3>2. CASE op.node # Apex
      <4>1. RecordsIn(zones', op.zone, Apex) = RecordsIn(zones, op.zone, Apex)
        BY <2>4, <3>2 DEF NodeIs
      <4> QED
        BY <2>5, <4>1
    <3> QED
      BY <3>1, <3>2
  <2>7. SerialIn(zones', op.zone) = op.found + 1
    BY <2>6, SerialIs
  <2> QED
    BY <1>1, <1>6, <2>7
<1> QED
  BY <1>1, <1>3, <1>4, <1>5, <1>6, ZLastIs

(* What a write leaves, in the words of OneRecord.                         *)
NewIn(zs, op) == IF op.node \in DOMAIN zs[op.zone] THEN zs[op.zone][op.node] ELSE <<>>
GoneOf(op, new) == {i \in DOMAIN op.records : op.records[i] \notin ToSet(new)}
OneChange(op, new, gone) ==
  /\ \A i \in gone : op.do # "create" /\ op.records[i].data = Spelling[op.old]
  /\ Cardinality(gone) <= 1
  /\ Len(new) = Len(op.records) + (IF op.do = "create" THEN 1 ELSE IF op.do = "delete" THEN -1 ELSE 0)
  /\ op.do # "delete" => \E i \in DOMAIN new : new[i].data = Spelling[op.data] /\ new[i].serial = op.serial
WroteOne(op, zs) == OneChange(op, NewIn(zs, op), GoneOf(op, NewIn(zs, op)))

LEMMA OneRecordStep ==
  ASSUME ZInv, NEW a \in ZAdmin, ZWrite(a), zones' # zones
  PROVE  WroteOne(dnsWork[a], zones')
<1>0. PICK op, new, gone : op = dnsWork[a] /\ new = NewIn(zones', op) /\ gone = GoneOf(op, new)
  OBVIOUS
<1>1. PICK rs : rs = op.records
  OBVIOUS
<1>2. /\ rs \in Seq(Record) /\ IsChange(op) /\ Finds(op, rs) /\ Changed(op, rs, Edited(op, rs))
      /\ op.zone \in DOMAIN zones /\ NodeIs(zones, op.zone, op.node, Edited(op, rs), zones')
  BY <1>0, <1>1, ZWriteIs
<1>3. new = RecordsIn(zones', op.zone, op.node)
  BY <1>0, <1>2 DEF RecordsIn, ThereIn, NodeIs, NewIn
<1>4. new = Edited(op, rs)
  BY <1>2, <1>3 DEF NodeIs
<1>5. Changed(op, rs, new)
  BY <1>2, <1>4
<1>6. new \in Seq(Record) /\ DOMAIN new = 1..Len(new) /\ DOMAIN rs = 1..Len(rs)
  BY <1>2, <1>5 DEF Changed
<1>7. \A k \in 1..Len(new) : new[k] \in ToSet(new)
  BY <1>6 DEF ToSet
<1>8. PICK m : m = FirstMatch(rs, "A", op.old)
  OBVIOUS
<1>9. \A j \in 1..Len(rs) : (op.do # "create" /\ j = m) \/ \E k \in 1..Len(new) : new[k] = rs[j]
  BY <1>5, <1>8 DEF Changed
<1>10. \A i \in gone : op.do # "create" /\ i = m
  BY <1>0, <1>1, <1>6, <1>7, <1>9 DEF GoneOf
<1>11. ASSUME NEW i \in gone PROVE op.do # "create" /\ op.records[i].data = Spelling[op.old]
  <2>1. op.do # "create" /\ i = m
    BY <1>10
  <2>2. rs[m].data = Normal(op.old)
    BY <1>2, <1>8, <2>1, MatchAt DEF Finds
  <2> QED
    BY <1>1, <2>1, <2>2 DEF Normal
<1>12. Cardinality(gone) <= 1
  <2>1. gone \subseteq {m}
    BY <1>10
  <2>2. IsFiniteSet({m}) /\ Cardinality({m}) = 1
    BY FS_Singleton
  <2>3. Cardinality(gone) <= Cardinality({m})
    BY <2>1, <2>2, FS_Subset
  <2> QED
    BY <2>2, <2>3
<1>13. Len(new) = Len(op.records) + (IF op.do = "create" THEN 1 ELSE IF op.do = "delete" THEN -1 ELSE 0)
  BY <1>1, <1>5 DEF Changed
<1>14. op.do # "delete" => \E i \in DOMAIN new : new[i].data = Spelling[op.data] /\ new[i].serial = op.serial
  <2> SUFFICES ASSUME op.do # "delete"
               PROVE  \E i \in DOMAIN new : new[i].data = Spelling[op.data] /\ new[i].serial = op.serial
    OBVIOUS
  <2>1. PICK k \in 1..Len(new) : new[k] = NewRecord(op)
    BY <1>5 DEF Changed
  <2>2. NewRecord(op).data = Spelling[op.data] /\ NewRecord(op).serial = op.serial
    BY <1>2, NewIs
  <2> QED
    BY <1>6, <2>1, <2>2
<1> QED
  <2>1. OneChange(op, new, gone)
    BY <1>11, <1>12, <1>13, <1>14 DEF OneChange
  <2> QED
    BY <1>0, <2>1 DEF WroteOne

LEMMA ZChangesStep == ZInv /\ ZonesNext => OneRecord /\ Moved
<1> SUFFICES ASSUME ZInv, NEW b \in ZAdmin, ZoneStep(b) PROVE OneRecord /\ Moved
  BY DEF ZonesNext
<1>1. OneRecord
  <2> SUFFICES ASSUME NEW a \in ZAdmin, ZDoes(a, "write"), zones' # zones
               PROVE  WroteOne(dnsWork[a], zones')
    BY DEF OneRecord, WroteOne, OneChange, NewIn, GoneOf
  <2>1. DnsAt(a, "write") /\ dnsWork'[a] # dnsWork[a]
    BY DEF ZDoes
  <2>2. b = a
    BY <2>1, ZOthers
  <2>3. DnsBusy(a) /\ Head(dnsWork[a].todo) = "write"
    BY <2>1 DEF DnsAt
  <2>4. ZWrite(a)
    BY <2>2, <2>3 DEF ZoneStep, DnsBegin, Check, Bump, Advance, Reread, FreeZone, AddZone, AddApex, DropZone, ZLost, DnsAt
  <2> QED
    BY <2>4, OneRecordStep
<1>2. Moved
  <2> SUFFICES ASSUME NEW a \in ZAdmin, DnsBusy(a), dnsWork'[a].todo = <<>>, dnsWork[a].do \in RecordDeeds,
                      dnsWork[a].found \in 1..(MaxSerial - 1), Undisturbed(a)
               PROVE  /\ dnsWork'[a].result = "ok" => SerialIn(zones', dnsWork[a].zone) = dnsWork[a].found + 1
                      /\ dnsWork'[a].result = "refused" => SerialIn(zones', dnsWork[a].zone) = dnsWork[a].found
    BY DEF Moved, RecordDeeds
  <2>1. b = a
    BY ZOthers DEF DnsBusy
  <2> QED
    BY <2>1, MovedStep
<1> QED
  BY <1>1, <1>2

(* Whatever the zones and however the sessions' requests interleave: a     *)
(* write of one record changes that record, in the spelling the request    *)
(* gave or its normal form, and keeps every other value it had read,       *)
(* undecodable ones too; and a change no other session crossed leaves the  *)
(* zone's serial one above the one it found, also on the zone's own name,  *)
(* where the record shares its node with the serial, while a refused one   *)
(* leaves it alone (create_record, update_record, delete_record).          *)
THEOREM RecordsChangedHolds == ZonesSpec => RecordsChanged
<1>1. ZInv /\ [ZonesNext]_zoneVars => [OneRecord /\ Moved]_zoneVars
  BY ZChangesStep
<1> QED
  BY <1>1, ZInvAlways, PTL DEF ZonesSpec, RecordsChanged

(* The zones keep their shape in every state: every zone is known, every   *)
(* value at a name is a record, and no name is left without one.           *)
THEOREM ZonesTyped == ZonesSpec => []ZonesTypeOK
<1>1. ZInv => ZonesTypeOK
  <2> SUFFICES ASSUME ZInv PROVE ZonesTypeOK
    OBVIOUS
  <2>1. ZonesFormed(zones)
    BY DEF ZInv
  <2>2. \A z \in DOMAIN zones : z \in Zone /\ DOMAIN zones[z] \subseteq Nodes
    BY <2>1 DEF ZonesFormed
  <2>3. NoEmptyName
    BY <2>1 DEF ZonesFormed, NoEmptyName
  <2>4. ASSUME NEW z \in DOMAIN zones, NEW n \in DOMAIN zones[z], NEW i \in DOMAIN zones[z][n]
        PROVE  zones[z][n][i] \in Record
    <3>1. PICK rs \in Seq(Record) : rs = zones[z][n]
      BY <2>1 DEF ZonesFormed
    <3>2. i \in 1..Len(rs)
      BY <2>4, <3>1
    <3> QED
      BY <3>1, <3>2
  <2>5. (\A a \in ZAdmin : dnsWork[a].result \in {"none", "ok", "refused", "failed"}) /\ dnsOps \in 0..MaxZoneOps
    BY DEF ZInv, DnsTasks
  <2> QED
    BY <2>2, <2>3, <2>4, <2>5 DEF ZonesTypeOK
<1> QED
  BY <1>1, ZInvAlways, PTL
=============================================================================
