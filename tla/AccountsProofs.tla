--------------------------- MODULE AccountsProofs ---------------------------
(***************************************************************************)
(* What is proved of user accounts and of groups, for any names, groups,   *)
(* access lists and sessions.                                              *)
(*                                                                         *)
(* Accounts.                                                               *)
(* An operation's plan only ever gets shorter, so what is left of it says  *)
(* which step comes next (OnWay); Phase says what its account looks like   *)
(* before that step, and Steps what one step may make of the two.  There   *)
(* is one lemma per step; the invariant AInv is Phase for every operation  *)
(* under way, and that two of them keep to different accounts.             *)
(*                                                                         *)
(* Groups.  A request's plan is a way of the handler that made it (Way),   *)
(* its recursive walk has gone level by level through what the directory   *)
(* holds (Walk), and what it has learnt of the directory is still so as    *)
(* long as nobody else has written (Learnt).  The invariant GInv is these  *)
(* for every request under way, that a request on its own is undisturbed,  *)
(* and that what the directory holds is formed.                            *)
(***************************************************************************)
EXTENDS Accounts, Groups, CollectionsProofs, FiniteSetTheorems, FunctionTheorems

(* Ahead finds the first entry to stop at.                                 *)
LEMMA AheadIs ==
  ASSUME NEW E, NEW s \in Seq(E), NEW S
  PROVE  /\ Ahead(s, S) \in 0..Len(s)
         /\ \A i \in 1..Ahead(s, S) : s[i] \notin S
         /\ Ahead(s, S) < Len(s) => s[Ahead(s, S) + 1] \in S
<1> DEFINE Is(n) == (\A i \in 1..n : s[i] \notin S) /\ (n < Len(s) => s[n + 1] \in S)
           U == {n \in Nat : n < Len(s) /\ s[n + 1] \in S}
<1>0. Len(s) \in Nat
  OBVIOUS
<1>1. \E n \in 0..Len(s) : Is(n)
  <2>1. CASE U = {}
    <3>1. ASSUME NEW i \in 1..Len(s) PROVE s[i] \notin S
      <4>1. i - 1 \in Nat /\ i - 1 < Len(s) /\ (i - 1) + 1 = i
        BY <1>0
      <4> QED
        BY <2>1, <4>1
    <3>2. Is(Len(s)) /\ Len(s) \in 0..Len(s)
      BY <1>0, <3>1
    <3> QED
      BY <3>2
  <2>2. CASE U # {}
    <3>1. \E x \in U : \A y \in U : <<y, x>> \notin OpToRel(<, Nat)
      <4>1. U \subseteq Nat
        OBVIOUS
      <4> HIDE DEF U
      <4> QED
        BY <2>2, <4>1, NatLessThanWellFounded, WFMin
    <3>2. PICK x \in U : \A y \in U : ~(y < x)
      BY <3>1 DEF OpToRel
    <3>3. ASSUME NEW i \in 1..x PROVE s[i] \notin S
      <4>1. i - 1 \in Nat /\ i - 1 < Len(s) /\ (i - 1) + 1 = i /\ i - 1 < x
        BY <1>0, <3>2
      <4>2. s[i] \in S => i - 1 \in U
        BY <4>1
      <4> QED
        BY <3>2, <4>1, <4>2
    <3>4. x \in 0..Len(s) /\ Is(x)
      BY <1>0, <3>2, <3>3
    <3> QED
      BY <3>4
  <2> QED
    BY <2>1, <2>2
<1>2. PICK n : n = (CHOOSE k \in 0..Len(s) : Is(k))
  OBVIOUS
<1>3. n \in 0..Len(s) /\ Is(n)
  <2> HIDE DEF Is
  <2> QED
    BY <1>1, <1>2
<1>4. Ahead(s, S) = n
  BY <1>2 DEF Ahead
<1> QED
  BY <1>3, <1>4

(* What setting or clearing "cannot change" makes of a list.               *)
Rewrites(u, v, value) ==
  /\ Those(v, Ace \ Change) = Those(u, Ace \ Change)
  /\ Len(Those(v, Change)) = 2
  /\ DeniesFirst(u) /\ InheritedLast(u) =>
       /\ DeniesFirst(v)
       /\ {"allow other", "inherited deny"} \cap ToSet(u) # {"inherited deny"} => InheritedLast(v)

Wants(value) == IF value THEN <<"deny self", "deny everyone">> ELSE <<"allow self", "allow everyone">>
Stops(value) == IF value THEN {"allow other", "inherited allow"} ELSE Inherited
(* v is kept with wanted put in after the first n entries.                 *)
Inserted(v, kept, wanted, n) ==
  /\ n \in 0..Len(kept) /\ v \in Seq(Ace) /\ Len(v) = Len(kept) + 2
  /\ \A i \in 1..n : v[i] = kept[i]
  /\ v[n + 1] = wanted[1] /\ v[n + 2] = wanted[2]
  /\ \A i \in n + 1..Len(kept) : v[i + 2] = kept[i]
  /\ Those(v, Ace \ Change) = kept
  /\ Those(v, Change) = wanted

(* A list cut in two with an entry pair put between is Inserted.           *)
LEMMA InsertedIs ==
  ASSUME NEW kept \in Seq(Ace), \A i \in 1..Len(kept) : kept[i] \notin Change,
         NEW wanted \in Seq(Change), Len(wanted) = 2, NEW n \in 0..Len(kept)
  PROVE  Inserted(SubSeq(kept, 1, n) \o wanted \o SubSeq(kept, n + 1, Len(kept)), kept, wanted, n)
<1>0. Len(kept) \in Nat /\ n \in Nat /\ n <= Len(kept)
  OBVIOUS
<1>1. PICK x : x = SubSeq(kept, 1, n)
  OBVIOUS
<1>2. x \in Seq(Ace) /\ Len(x) = n /\ \A i \in 1..n : x[i] = kept[i]
  <2>1. \A i \in 1..n : kept[i] \in Ace
    BY <1>0
  <2> QED
    BY <1>0, <1>1, <2>1, SubSeqProperties
<1>3. PICK y : y = SubSeq(kept, n + 1, Len(kept))
  OBVIOUS
<1>4. y \in Seq(Ace) /\ Len(y) = Len(kept) - n /\ \A i \in 1..Len(kept) - n : y[i] = kept[n + i]
  <2>1. \A i \in n + 1..Len(kept) : kept[i] \in Ace
    BY <1>0
  <2>2. \A i \in 1..Len(kept) - n : (n + 1) + i - 1 = n + i
    BY <1>0
  <2> QED
    BY <1>0, <1>3, <2>1, <2>2, SubSeqProperties
<1>5. wanted \in Seq(Ace) /\ \A i \in 1..Len(wanted) : wanted[i] \in Change
  <2>1. Change \subseteq Ace
    BY DEF Ace
  <2>2. \A i \in 1..Len(wanted) : wanted[i] \in Change
    BY ElementOfSeq
  <2>3. Seq(Change) \subseteq Seq(Ace)
    BY <2>1
  <2> QED
    BY <2>2, <2>3
<1>6. PICK z : z = x \o wanted
  OBVIOUS
<1>7. /\ z \in Seq(Ace) /\ Len(z) = n + 2
      /\ \A i \in 1..n + 2 : z[i] = IF i <= n THEN x[i] ELSE wanted[i - n]
  <2>1. /\ z \in Seq(Ace) /\ Len(z) = Len(x) + Len(wanted)
        /\ \A i \in 1..Len(x) + Len(wanted) : z[i] = IF i <= Len(x) THEN x[i] ELSE wanted[i - Len(x)]
    <3>1. x \in Seq(Ace) /\ wanted \in Seq(Ace)
      BY <1>2, <1>5
    <3> QED
      BY ONLY <1>6, <3>1, ConcatProperties
  <2>2. Len(x) = n /\ Len(wanted) = 2
    BY <1>2
  <2> QED
    BY ONLY <2>1, <2>2
<1>8. PICK v : v = z \o y
  OBVIOUS
<1>9. /\ v \in Seq(Ace) /\ Len(v) = (n + 2) + (Len(kept) - n)
      /\ \A i \in 1..(n + 2) + (Len(kept) - n) : v[i] = IF i <= n + 2 THEN z[i] ELSE y[i - (n + 2)]
  <2>1. /\ v \in Seq(Ace) /\ Len(v) = Len(z) + Len(y)
        /\ \A i \in 1..Len(z) + Len(y) : v[i] = IF i <= Len(z) THEN z[i] ELSE y[i - Len(z)]
    BY <1>4, <1>7, <1>8, ConcatProperties
  <2>2. Len(z) = n + 2 /\ Len(y) = Len(kept) - n
    BY <1>4, <1>7
  <2> QED
    BY ONLY <2>1, <2>2
<1>10. Len(v) = Len(kept) + 2
  <2>1. (n + 2) + (Len(kept) - n) = Len(kept) + 2
    BY ONLY <1>0
  <2> QED
    BY ONLY <1>9, <2>1
<1>11. ASSUME NEW i \in 1..n PROVE v[i] = kept[i]
  <2>1. /\ i \in 1..n + 2 /\ i <= n /\ i <= n + 2
        /\ i \in 1..(n + 2) + (Len(kept) - n)
    BY ONLY <1>0, i \in 1..n
  <2>2. v[i] = z[i]
    BY ONLY <1>9, <2>1
  <2>3. z[i] = x[i]
    BY ONLY <1>7, <2>1
  <2> QED
    BY <1>2, <2>2, <2>3
<1>12. v[n + 1] = wanted[1] /\ v[n + 2] = wanted[2]
  <2>1. (n + 1) - n = 1 /\ (n + 2) - n = 2
    BY <1>0
  <2>2. z[n + 1] = wanted[1] /\ z[n + 2] = wanted[2]
    BY <1>0, <1>7, <2>1
  <2> QED
    <3>1. /\ n + 1 \in 1..(n + 2) + (Len(kept) - n) /\ n + 1 <= n + 2
          /\ n + 2 \in 1..(n + 2) + (Len(kept) - n) /\ n + 2 <= n + 2
      BY <1>0
    <3> QED
      BY ONLY <1>9, <2>2, <3>1
<1>13. ASSUME NEW i \in n + 1..Len(kept) PROVE v[i + 2] = kept[i]
  <2>1. i + 2 \in 1..(n + 2) + (Len(kept) - n) /\ ~(i + 2 <= n + 2) /\ (i + 2) - (n + 2) = i - n
        /\ i - n \in 1..Len(kept) - n /\ n + (i - n) = i
    BY <1>0
  <2> QED
    BY <1>4, <1>9, <2>1
<1>14. x \o y = kept
  <2>1. PICK w : w = x \o y
    OBVIOUS
  <2>2. /\ w \in Seq(Ace) /\ Len(w) = n + (Len(kept) - n)
        /\ \A i \in 1..n + (Len(kept) - n) : w[i] = IF i <= n THEN x[i] ELSE y[i - n]
    <3>1. /\ w \in Seq(Ace) /\ Len(w) = Len(x) + Len(y)
          /\ \A i \in 1..Len(x) + Len(y) : w[i] = IF i <= Len(x) THEN x[i] ELSE y[i - Len(x)]
      BY <1>2, <1>4, <2>1, ConcatProperties
    <3>2. Len(x) = n /\ Len(y) = Len(kept) - n
      BY <1>2, <1>4
    <3> QED
      BY ONLY <3>1, <3>2
  <2>3. Len(w) = Len(kept)
    BY <1>0, <2>2
  <2>4. ASSUME NEW i \in 1..Len(kept) PROVE w[i] = kept[i]
    <3>1. CASE i <= n
      BY <1>0, <1>2, <2>2, <3>1
    <3>2. CASE ~(i <= n)
      <4>1. i - n \in 1..Len(kept) - n /\ n + (i - n) = i /\ i \in 1..n + (Len(kept) - n)
        BY <1>0, <3>2
      <4> QED
        BY <1>4, <2>2, <3>2, <4>1
    <3> QED
      BY <3>1, <3>2
  <2>5. w = kept
    BY <2>2, <2>3, <2>4, SeqEqual
  <2> QED
    BY <2>1, <2>5
<1>15. \A i \in 1..Len(x) : x[i] \notin Change /\ x[i] \in Ace \ Change
  BY <1>0, <1>2
<1>16. ASSUME NEW i \in 1..Len(y) PROVE y[i] \notin Change /\ y[i] \in Ace \ Change
  <2>1. i \in 1..Len(kept) - n /\ n + i \in 1..Len(kept)
    BY <1>0, <1>4
  <2>2. y[i] = kept[n + i] /\ y[i] \in Ace
    BY <1>4, <2>1
  <2> QED
    BY <2>1, <2>2
<1>17. \A i \in 1..Len(wanted) : wanted[i] \in Change /\ wanted[i] \notin Ace \ Change
  BY <1>5
<1>18. /\ Those(x, Change) = <<>> /\ Those(y, Change) = <<>> /\ Those(wanted, Change) = wanted
       /\ Those(x, Ace \ Change) = x /\ Those(y, Ace \ Change) = y /\ Those(wanted, Ace \ Change) = <<>>
  <2>1. Those(x, Change) = <<>> /\ Those(x, Ace \ Change) = x
    BY <1>2, <1>15, ThoseNone, ThoseAll
  <2>2. Those(y, Change) = <<>> /\ Those(y, Ace \ Change) = y
    BY <1>4, <1>16, ThoseNone, ThoseAll
  <2>3. Those(wanted, Change) = wanted /\ Those(wanted, Ace \ Change) = <<>>
    BY ONLY <1>5, <1>17, ThoseNone, ThoseAll
  <2> QED
    BY <2>1, <2>2, <2>3
<1>19. ASSUME NEW S PROVE Those(v, S) = (Those(x, S) \o Those(wanted, S)) \o Those(y, S)
  <2>1. x \in Seq(Ace) /\ y \in Seq(Ace) /\ z \in Seq(Ace) /\ wanted \in Seq(Ace)
    BY <1>2, <1>4, <1>5, <1>7
  <2>2. FiltersEach(z, y, S)
    BY ONLY <2>1, ThoseConcat
  <2>3. FiltersEach(x, wanted, S)
    BY ONLY <2>1, ThoseConcat
  <2> QED
    BY ONLY <1>6, <1>8, <2>2, <2>3 DEF FiltersEach
<1>20. Those(v, Change) = wanted
  <2>1. <<>> \o wanted = wanted /\ wanted \o <<>> = wanted
    BY <1>5, ConcatEmptySeq
  <2> QED
    BY <1>18, <1>19, <2>1
<1>21. Those(v, Ace \ Change) = kept
  <2>1. x \o <<>> = x
    BY <1>2, ConcatEmptySeq
  <2> QED
    BY <1>14, <1>18, <1>19, <2>1
<1>22. Inserted(v, kept, wanted, n)
  BY <1>0, <1>9, <1>10, <1>11, <1>12, <1>13, <1>20, <1>21 DEF Inserted
<1> QED
  BY <1>1, <1>3, <1>6, <1>8, <1>22

(* The order the DC evaluates by survives.                                 *)
LEMMA InsertedOrder ==
  ASSUME NEW acl \in Seq(Ace), NEW kept \in Seq(Ace), Filtered(kept, acl, Ace \ Change, Len(acl)),
         NEW value \in BOOLEAN, NEW v \in Seq(Ace), NEW n \in Nat, Inserted(v, kept, Wants(value), n),
         \A i \in 1..n : kept[i] \notin Stops(value), n < Len(kept) => kept[n + 1] \in Stops(value),
         DeniesFirst(acl), InheritedLast(acl)
  PROVE  /\ DeniesFirst(v)
         /\ {"allow other", "inherited deny"} \cap ToSet(acl) # {"inherited deny"} => InheritedLast(v)
<1>0. /\ Len(kept) \in Nat /\ n \in 0..Len(kept) /\ Len(v) = Len(kept) + 2
      /\ DOMAIN v = 1..Len(v) /\ DOMAIN acl = 1..Len(acl)
  BY DEF Inserted
<1>1. ASSUME NEW j \in 1..Len(kept), NEW k \in 1..Len(kept), j < k
      PROVE  /\ kept[j] = "allow other" => kept[k] # "deny other"
             /\ kept[j] \in Inherited => kept[k] \in Inherited
  <2>1. \E p, q \in 1..Len(acl) : p < q /\ acl[p] = kept[j] /\ acl[q] = kept[k]
    BY <1>1 DEF Filtered
  <2> QED
    BY <1>0, <2>1 DEF DeniesFirst, InheritedLast
<1>2. ASSUME NEW j \in 1..Len(kept)
      PROVE  /\ kept[j] \in {"deny other", "allow other"} \cup Inherited
             /\ \E i \in 1..Len(acl) : acl[i] = kept[j]
  <2>1. kept[j] \in Ace \ Change /\ \E i \in 1..Len(acl) : acl[i] = kept[j]
    BY DEF Filtered
  <2> QED
    BY <2>1 DEF Ace
\* An entry of v is one that was put in or one that was kept.
<1> DEFINE From(i) == IF i <= n THEN i ELSE i - 2
           New(i) == i = n + 1 \/ i = n + 2
           Put == IF value THEN {"deny self", "deny everyone"} ELSE {"allow self", "allow everyone"}
<1>3. ASSUME NEW i \in 1..Len(v), ~New(i)
      PROVE  From(i) \in 1..Len(kept) /\ v[i] = kept[From(i)]
  <2>1. CASE i <= n
    BY <1>0, <2>1 DEF Inserted
  <2>2. CASE ~(i <= n)
    <3>1. i - 2 \in n + 1..Len(kept) /\ (i - 2) + 2 = i /\ i - 2 \in 1..Len(kept)
      BY <1>0, <1>3, <2>2
    <3>2. v[(i - 2) + 2] = kept[i - 2]
      BY <3>1 DEF Inserted
    <3> QED
      BY <2>2, <3>1, <3>2
  <2> QED
    BY <2>1, <2>2
<1>4. ASSUME NEW i \in 1..Len(v), New(i) PROVE v[i] \in Put
  <2>1. Wants(value)[1] \in Put /\ Wants(value)[2] \in Put
    BY DEF Wants
  <2>2. v[n + 1] = Wants(value)[1] /\ v[n + 2] = Wants(value)[2]
    BY DEF Inserted
  <2> QED
    BY <1>4, <2>1, <2>2
<1>5. ASSUME NEW i \in 1..Len(v), NEW j \in 1..Len(v), i < j
      PROVE  /\ ~New(i) /\ New(j) => From(i) \in 1..n
             /\ New(i) /\ ~New(j) => /\ From(j) = n + 1 \/ n + 1 < From(j)
                                    /\ n + 1 \in 1..Len(kept) /\ n < Len(kept)
             /\ ~New(i) /\ ~New(j) => From(i) < From(j)
  BY <1>0, <1>5
<1> HIDE DEF From, New
<1>6. DeniesFirst(v)
  <2>1. SUFFICES ASSUME NEW i \in 1..Len(v), NEW j \in 1..Len(v), i < j,
                        v[i] \in {"allow self", "allow everyone", "allow other"},
                        v[j] \in {"deny self", "deny everyone", "deny other"}
                 PROVE  FALSE
    BY <1>0 DEF DeniesFirst
  <2>2. CASE New(i) /\ New(j)
    BY <1>4, <2>1, <2>2
  <2>3. CASE New(i) /\ ~New(j)
    <3>1. ~value
      BY <1>4, <2>1, <2>3
    <3>2. From(j) \in 1..Len(kept) /\ v[j] = kept[From(j)]
      BY <1>3, <2>3
    <3>3. kept[From(j)] = "deny other"
      BY <1>2, <2>1, <3>2 DEF Inherited
    <3>4. (From(j) = n + 1 \/ n + 1 < From(j)) /\ n + 1 \in 1..Len(kept) /\ n < Len(kept)
      BY <1>5, <2>1, <2>3
    <3>5. kept[n + 1] \in Inherited
      BY <3>1, <3>4 DEF Stops
    <3>6. kept[From(j)] \in Inherited
      BY <1>1, <3>2, <3>4, <3>5
    <3> QED
      BY <3>3, <3>6 DEF Inherited
  <2>4. CASE ~New(i) /\ New(j)
    <3>1. value
      BY <1>4, <2>1, <2>4
    <3>2. From(i) \in 1..Len(kept) /\ v[i] = kept[From(i)] /\ From(i) \in 1..n
      BY <1>3, <1>5, <2>1, <2>4
    <3>3. kept[From(i)] = "allow other"
      BY <1>2, <2>1, <3>2 DEF Inherited
    <3> QED
      BY <3>1, <3>2, <3>3 DEF Stops
  <2>5. CASE ~New(i) /\ ~New(j)
    <3>1. /\ From(i) \in 1..Len(kept) /\ v[i] = kept[From(i)]
          /\ From(j) \in 1..Len(kept) /\ v[j] = kept[From(j)]
          /\ From(i) < From(j)
      BY <1>3, <1>5, <2>1, <2>5
    <3>2. kept[From(i)] = "allow other" /\ kept[From(j)] = "deny other"
      BY <1>2, <2>1, <3>1 DEF Inherited
    <3> QED
      BY <1>1, <3>1, <3>2
  <2> QED
    BY <2>2, <2>3, <2>4, <2>5
<1>7. ASSUME {"allow other", "inherited deny"} \cap ToSet(acl) # {"inherited deny"} PROVE InheritedLast(v)
  <2>1. SUFFICES ASSUME NEW i \in 1..Len(v), NEW j \in 1..Len(v), i < j,
                        v[i] \in Inherited, v[j] \notin Inherited
                 PROVE  FALSE
    BY <1>0 DEF InheritedLast
  <2>2. ~New(i)
    BY <1>4, <2>1 DEF Inherited
  <2>3. CASE New(j)
    <3>1. From(i) \in 1..Len(kept) /\ v[i] = kept[From(i)] /\ From(i) \in 1..n
      BY <1>3, <1>5, <2>1, <2>2, <2>3
    <3>2. value /\ kept[From(i)] = "inherited deny"
      BY <2>1, <3>1 DEF Stops, Inherited
    <3>3. \E p \in 1..Len(acl) : acl[p] = "inherited deny"
      BY <1>2, <3>1, <3>2
    <3>4. ToSet(acl) = {acl[p] : p \in 1..Len(acl)}
      BY <1>0 DEF ToSet
    <3>5. "inherited deny" \in ToSet(acl)
      BY <3>3, <3>4
    <3>6. "allow other" \in ToSet(acl)
      BY <1>7, <3>5
    <3>7. \E p \in 1..Len(acl) : acl[p] = "allow other"
      BY <3>4, <3>6
    <3>8. "allow other" \in Ace \ Change
      BY DEF Ace, Change
    <3>9. \E k \in 1..Len(kept) : kept[k] = "allow other"
      BY <3>7, <3>8 DEF Filtered
    <3>10. PICK k \in 1..Len(kept) : kept[k] = "allow other"
      BY <3>9
    <3>11. k \notin 1..n
      BY <3>2, <3>10 DEF Stops
    <3>12. From(i) < k
      BY <1>0, <3>1, <3>11
    <3>13. kept[k] \in Inherited
      BY <1>1, <2>1, <3>1, <3>12
    <3> QED
      BY <3>10, <3>13 DEF Inherited
  <2>4. CASE ~New(j)
    <3>1. /\ From(i) \in 1..Len(kept) /\ v[i] = kept[From(i)]
          /\ From(j) \in 1..Len(kept) /\ v[j] = kept[From(j)]
          /\ From(i) < From(j)
      BY <1>3, <1>5, <2>1, <2>2, <2>4
    <3> QED
      BY <1>1, <2>1, <3>1
  <2> QED
    BY <2>3, <2>4
<1> QED
  BY <1>6, <1>7

(* An entry asked for is in the list exactly if the filter keeps it.       *)
LEMMA ThoseHas ==
  ASSUME NEW E, NEW s \in Seq(E), NEW S, NEW e \in S
  PROVE  (\E i \in DOMAIN s : s[i] = e) <=> e \in ToSet(Those(s, S))
<1>1. PICK r : r = Those(s, S) /\ r \in Seq(E) /\ Filtered(r, s, S, Len(s))
  BY ThoseFiltered
<1>2. DOMAIN s = 1..Len(s) /\ DOMAIN r = 1..Len(r)
  BY <1>1
<1>3. ASSUME NEW i \in 1..Len(s), s[i] = e PROVE \E k \in 1..Len(r) : r[k] = e
  BY <1>1, <1>3 DEF Filtered
<1>4. ASSUME NEW k \in 1..Len(r), r[k] = e PROVE \E i \in 1..Len(s) : s[i] = e
  BY <1>1, <1>4 DEF Filtered
<1> QED
  BY <1>1, <1>2, <1>3, <1>4 DEF ToSet

(* A list says "cannot change" exactly by the entries of the right.        *)
LEMMA CannotIs ==
  ASSUME NEW acl \in Seq(Ace)
  PROVE  Cannot(acl) <=> ToSet(Those(acl, Change)) \cap {"deny self", "deny everyone"} # {}
<1>1. Cannot(acl) <=> \E e \in {"deny self", "deny everyone"} : \E i \in DOMAIN acl : acl[i] = e
  BY DEF Cannot
<1>2. {"deny self", "deny everyone"} \subseteq Change
  BY DEF Change
<1>3. \A e \in Change : (\E i \in DOMAIN acl : acl[i] = e) <=> e \in ToSet(Those(acl, Change))
  BY ThoseHas
<1> QED
  BY <1>1, <1>2, <1>3

(* A sequence of two entries.                                              *)
LEMMA PairIs ==
  ASSUME NEW S, NEW x \in S, NEW y \in S
  PROVE  <<x, y>> \in Seq(S) /\ Len(<<x, y>>) = 2 /\ ToSet(<<x, y>>) = {x, y}
<1>1. PICK w : w = <<x, y>>
  OBVIOUS
<1>2. w \in Seq(S) /\ Len(w) = 2 /\ DOMAIN w = 1..2 /\ w[1] = x /\ w[2] = y
  BY <1>1
<1>3. \A i : i \in 1..2 <=> i = 1 \/ i = 2
  OBVIOUS
<1>4. ToSet(w) = {w[i] : i \in 1..2}
  BY <1>2 DEF ToSet
<1> QED
  BY <1>1, <1>2, <1>3, <1>4

(* The two entries put in say what was asked for.                          *)
LEMMA WantsIs ==
  ASSUME NEW value \in BOOLEAN
  PROVE  /\ Wants(value) \in Seq(Change) /\ Len(Wants(value)) = 2
         /\ ToSet(Wants(value)) \cap {"deny self", "deny everyone"} # {} <=> value
<1>1. "deny self" \in Change /\ "deny everyone" \in Change
      /\ "allow self" \in Change /\ "allow everyone" \in Change
  BY DEF Change
<1>2. \A x, y \in Change : <<x, y>> \in Seq(Change) /\ Len(<<x, y>>) = 2 /\ ToSet(<<x, y>>) = {x, y}
  BY PairIs
<1>3. CASE value
  <2>1. Wants(value) = <<"deny self", "deny everyone">>
    BY <1>3 DEF Wants
  <2>2. /\ <<"deny self", "deny everyone">> \in Seq(Change) /\ Len(<<"deny self", "deny everyone">>) = 2
        /\ ToSet(<<"deny self", "deny everyone">>) = {"deny self", "deny everyone"}
    BY <1>1, <1>2, Zenon
  <2> QED
    BY <1>3, <2>1, <2>2
<1>4. CASE ~value
  <2>1. Wants(value) = <<"allow self", "allow everyone">>
    BY <1>4 DEF Wants
  <2>2. /\ <<"allow self", "allow everyone">> \in Seq(Change) /\ Len(<<"allow self", "allow everyone">>) = 2
        /\ ToSet(<<"allow self", "allow everyone">>) = {"allow self", "allow everyone"}
    BY <1>1, <1>2, Zenon
  <2> QED
    BY <1>4, <2>1, <2>2
<1> QED
  BY <1>3, <1>4

(* The list says what was asked, and nothing else about it changes.        *)
LEMMA WithCannotIs ==
  ASSUME NEW acl \in Seq(Ace), NEW value \in BOOLEAN
  PROVE  /\ WithCannot(acl, value) \in Seq(Ace)
         /\ Cannot(WithCannot(acl, value)) <=> value
         /\ WithCannot(acl, value) # acl => Rewrites(acl, WithCannot(acl, value), value)
<1> DEFINE wanted == Wants(value)
           present == Those(acl, Change)
           kept == Those(acl, Ace \ Change)
           at == Ahead(kept, Stops(value))
           v == SubSeq(kept, 1, at) \o wanted \o SubSeq(kept, at + 1, Len(kept))
           Same == Len(present) = 2 /\ ToSet(present) = ToSet(wanted)
<1>1. WithCannot(acl, value) = IF Same THEN acl ELSE v
  BY DEF WithCannot, Wants, Stops
<1>2. kept \in Seq(Ace) /\ Filtered(kept, acl, Ace \ Change, Len(acl))
  BY ThoseFiltered
<1>3. wanted \in Seq(Change) /\ Len(wanted) = 2
  BY WantsIs
<1>4. ToSet(wanted) \cap {"deny self", "deny everyone"} # {} <=> value
  BY WantsIs
<1> HIDE DEF wanted, kept, at
<1>5. CASE Same
  <2>1. Cannot(acl) <=> value
    BY <1>4, <1>5, CannotIs
  <2> QED
    BY <1>1, <1>5, <2>1
<1>6. CASE ~Same
  <2>1. at \in 0..Len(kept) /\ (\A i \in 1..at : kept[i] \notin Stops(value))
        /\ (at < Len(kept) => kept[at + 1] \in Stops(value))
    BY <1>2, AheadIs DEF at
  <2>2. \A i \in 1..Len(kept) : kept[i] \in Ace \ Change
    BY <1>2 DEF Filtered
  <2>3. Inserted(v, kept, wanted, at)
    BY <1>2, <1>3, <2>1, <2>2, InsertedIs
  <2> HIDE DEF v
  <2>4. WithCannot(acl, value) = v
    BY <1>1, <1>6
  <2>5. v \in Seq(Ace) /\ Those(v, Change) = wanted /\ Those(v, Ace \ Change) = kept
    BY <2>3 DEF Inserted
  <2>6. Cannot(v) <=> value
    BY <1>4, <2>5, CannotIs
  <2>7. Rewrites(acl, v, value)
    <3>1. Those(v, Ace \ Change) = Those(acl, Ace \ Change) /\ Len(Those(v, Change)) = 2
      BY <1>3, <2>5 DEF kept
    <3>2. ASSUME DeniesFirst(acl), InheritedLast(acl)
          PROVE  /\ DeniesFirst(v)
                 /\ {"allow other", "inherited deny"} \cap ToSet(acl) # {"inherited deny"}
                      => InheritedLast(v)
      <4>1. Inserted(v, kept, Wants(value), at)
        BY <2>3 DEF wanted
      <4>2. at \in Nat
        BY <2>1
      <4> HIDE DEF Same
      <4> QED
        BY <1>2, <2>1, <2>5, <3>2, <4>1, <4>2, InsertedOrder
    <3> QED
      BY <3>1, <3>2 DEF Rewrites
  <2> QED
    BY <2>4, <2>5, <2>6, <2>7
<1> QED
  BY <1>5, <1>6

(***************************************************************************)
(* Plans                                                                   *)
(***************************************************************************)
Creating == {"create", "copy"}
Deed == {"create", "copy", "update", "password", "must", "cannot", "primary", "join", "leave", "delete"}
Step == {"template", "refuse", "add", "force", "password", "stamp", "options", "made", "groups", "primary",
         "shown", "text", "read", "write", "acl", "join", "leave", "delete", "rollback"}
\* The steps a creation takes until its options are set.
Unmade == {"template", "refuse", "add", "force", "password", "stamp", "options"}

\* What comes after a step, and what comes last.
Then(do, s, t) ==
  IF do \in Creating
  THEN \/ <<s, t>> \in {<<"refuse", "add">>, <<"add", "force">>, <<"add", "password">>, <<"add", "options">>,
                       <<"force", "password">>, <<"password", "stamp">>, <<"stamp", "options">>, <<"options", "made">>}
       \/ /\ do = "copy"
          /\ <<s, t>> \in {<<"template", "refuse">>, <<"made", "groups">>, <<"groups", "primary">>,
                          <<"primary", "shown">>}
  ELSE <<do, s, t>> \in
         {<<"update", "refuse", "text">>, <<"update", "text", "read">>, <<"update", "read", "write">>,
          <<"password", "refuse", "password">>, <<"password", "password", "stamp">>,
          <<"must", "refuse", "stamp">>, <<"cannot", "refuse", "read">>, <<"cannot", "read", "acl">>,
          <<"primary", "refuse", "primary">>, <<"join", "refuse", "join">>,
          <<"delete", "refuse", "delete">>}
Final(do, s) ==
  <<do, s>> \in {<<"create", "made">>, <<"copy", "shown">>, <<"update", "write">>,
                <<"password", "stamp">>, <<"must", "stamp">>, <<"cannot", "acl">>,
                <<"primary", "primary">>, <<"join", "join">>, <<"leave", "leave">>,
                <<"delete", "delete">>}

(* What may be left of an operation's plan.                                *)
OnWay(do, todo) ==
  /\ todo \in Seq(Step) /\ Len(todo) >= 1
  /\ \A i \in 1..Len(todo) - 1 : Then(do, todo[i], todo[i + 1])
  /\ Final(do, todo[Len(todo)])
  /\ \A i \in 1..Len(todo) : todo[i] # "rollback"
  /\ do \in Creating =>
       \A i \in 1..Len(todo) : todo[i] \in Unmade <=> \E j \in i..Len(todo) : todo[j] = "options"

(* What is left of a plan after its first step is still on its way.        *)
LEMMA Onward ==
  ASSUME NEW do, NEW todo, OnWay(do, todo)
  PROVE  /\ Len(todo) > 1 => OnWay(do, Tail(todo)) /\ Then(do, Head(todo), Head(Tail(todo)))
         /\ ~(Len(todo) > 1) => Final(do, Head(todo))
         /\ do \in Creating => (Head(todo) \in Unmade <=> "options" \in ToSet(todo))
         /\ todo # <<>> /\ Head(todo) # "rollback" /\ Tail(todo) \in Seq(Step)
         /\ Len(todo) > 1 => Tail(todo) # <<>>
<1>1. /\ todo \in Seq(Step) /\ Len(todo) \in Nat /\ Len(todo) >= 1 /\ todo # <<>>
      /\ Head(todo) = todo[1] /\ DOMAIN todo = 1..Len(todo)
  BY DEF OnWay
<1>2. PICK t : t = Tail(todo)
  OBVIOUS
<1>3. t \in Seq(Step) /\ Len(t) = Len(todo) - 1 /\ \A i \in 1..Len(t) : t[i] = todo[i + 1]
  BY <1>1, <1>2
<1>4. ASSUME Len(todo) > 1 PROVE OnWay(do, t) /\ Then(do, todo[1], Head(t)) /\ t # <<>>
  <2>1. Len(t) >= 1 /\ t # <<>> /\ Head(t) = t[1] /\ t[1] = todo[2] /\ Len(t) \in Nat
    BY <1>1, <1>3, <1>4
  <2>2. ASSUME NEW i \in 1..Len(t) - 1 PROVE Then(do, t[i], t[i + 1])
    <3>1. i + 1 \in 1..Len(todo) - 1 /\ i \in 1..Len(t) /\ i + 1 \in 1..Len(t)
      BY <1>1, <1>3, <2>1
    <3>2. Then(do, todo[i + 1], todo[(i + 1) + 1])
      BY <3>1 DEF OnWay
    <3> QED
      BY <1>3, <3>1, <3>2
  <2>3. Final(do, t[Len(t)])
    <3>1. Len(t) \in 1..Len(t) /\ Len(t) + 1 = Len(todo)
      BY <1>1, <1>3, <2>1
    <3> QED
      BY <1>3, <3>1 DEF OnWay
  <2>4. \A i \in 1..Len(t) : i + 1 \in 1..Len(todo)
    BY <1>1, <1>3
  <2>5. \A i \in 1..Len(t) : t[i] # "rollback"
    BY <1>3, <2>4 DEF OnWay
  <2>6. ASSUME do \in Creating, NEW i \in 1..Len(t)
        PROVE  t[i] \in Unmade <=> \E j \in i..Len(t) : t[j] = "options"
    <3>1. t[i] \in Unmade <=> \E j \in i + 1..Len(todo) : todo[j] = "options"
      BY <1>3, <2>4, <2>6 DEF OnWay
    <3>2. ASSUME NEW j \in i..Len(t) PROVE j + 1 \in i + 1..Len(todo) /\ todo[j + 1] = t[j]
      BY <1>1, <1>3
    <3>3. ASSUME NEW j \in i + 1..Len(todo) PROVE j - 1 \in i..Len(t) /\ t[j - 1] = todo[j]
      <4>1. j - 1 \in 1..Len(t) /\ (j - 1) + 1 = j /\ j - 1 \in i..Len(t)
        BY <1>1, <1>3
      <4> QED
        BY <1>3, <4>1
    <3> QED
      BY <3>1, <3>2, <3>3
  <2>7. Then(do, todo[1], todo[2])
    <3>1. 1 \in 1..Len(todo) - 1 /\ 1 + 1 = 2
      BY <1>1, <1>4
    <3> QED
      BY <3>1 DEF OnWay
  <2> QED
    BY <1>3, <2>1, <2>2, <2>3, <2>5, <2>6, <2>7 DEF OnWay
<1>5. ~(Len(todo) > 1) => Final(do, todo[1])
  <2>1. ~(Len(todo) > 1) => Len(todo) = 1
    BY <1>1
  <2> QED
    BY <2>1 DEF OnWay
<1>6. ASSUME do \in Creating PROVE todo[1] \in Unmade <=> "options" \in ToSet(todo)
  <2>1. todo[1] \in Unmade <=> \E j \in 1..Len(todo) : todo[j] = "options"
    BY <1>1, <1>6 DEF OnWay
  <2> QED
    BY <1>1, <2>1 DEF ToSet
<1>7. todo[1] # "rollback"
  BY <1>1 DEF OnWay
<1> QED
  BY <1>1, <1>2, <1>3, <1>4, <1>5, <1>6, <1>7

(* A step put ahead of a sequence and three behind it.                     *)
LEMMA FramedIs ==
  ASSUME NEW E, NEW s \in Seq(E), NEW x \in E, NEW y \in E, NEW z \in E, NEW w \in E,
         NEW r, r = <<x>> \o s \o <<y, z, w>>
  PROVE  /\ r \in Seq(E) /\ Len(r) = Len(s) + 4
         /\ r[1] = x /\ r[Len(s) + 2] = y /\ r[Len(s) + 3] = z /\ r[Len(s) + 4] = w
         /\ \A i \in 1..Len(s) : r[i + 1] = s[i]
<1>1. PICK f : f = <<x>>
  OBVIOUS
<1>2. PICK l : l = <<y, z, w>>
  OBVIOUS
<1>3. f \in Seq(E) /\ Len(f) = 1 /\ f[1] = x /\ l \in Seq(E) /\ Len(l) = 3 /\ l[1] = y /\ l[2] = z /\ l[3] = w
  BY <1>1, <1>2
<1>4. PICK q : q = f \o s
  OBVIOUS
<1>5. /\ q \in Seq(E) /\ Len(q) = Len(f) + Len(s)
      /\ \A i \in 1..Len(f) + Len(s) : q[i] = IF i <= Len(f) THEN f[i] ELSE s[i - Len(f)]
  BY <1>3, <1>4, ConcatProperties
<1>6. Len(s) \in Nat
  OBVIOUS
<1>7. PICK p : p = q \o l
  OBVIOUS
<1>8. /\ p \in Seq(E) /\ Len(p) = Len(q) + Len(l)
      /\ \A i \in 1..Len(q) + Len(l) : p[i] = IF i <= Len(q) THEN q[i] ELSE l[i - Len(q)]
  <2>1. q \in Seq(E) /\ l \in Seq(E)
    BY <1>3, <1>5
  <2> QED
    BY ONLY <1>7, <2>1, ConcatProperties
<1>9. PICK n : n = Len(s) /\ n \in Nat
  BY <1>6
<1>10. Len(q) = n + 1 /\ Len(p) = n + 4 /\ Len(f) = 1 /\ Len(l) = 3
  BY <1>3, <1>5, <1>8, <1>9
<1>11. \A i \in 1..n + 1 : q[i] = IF i <= 1 THEN f[i] ELSE s[i - 1]
  BY ONLY <1>5, <1>9, <1>10
<1>12. \A i \in 1..n + 4 : p[i] = IF i <= n + 1 THEN q[i] ELSE l[i - (n + 1)]
  BY ONLY <1>8, <1>9, <1>10
<1>13. p[1] = x
  BY ONLY <1>3, <1>9, <1>11, <1>12
<1>14. p[n + 2] = y /\ p[n + 3] = z /\ p[n + 4] = w
  <2>1. (n + 2) - (n + 1) = 1 /\ (n + 3) - (n + 1) = 2 /\ (n + 4) - (n + 1) = 3
    BY <1>9
  <2>2. \A k \in {n + 2, n + 3, n + 4} : k \in 1..n + 4 /\ ~(k <= n + 1)
    BY <1>9
  <2>3. \A k \in {n + 2, n + 3, n + 4} : p[k] = l[k - (n + 1)]
    BY ONLY <1>12, <2>2
  <2>4. p[n + 2] = l[1] /\ p[n + 3] = l[2] /\ p[n + 4] = l[3]
    BY ONLY <2>1, <2>3
  <2> QED
    BY ONLY <1>3, <2>4
<1>15. ASSUME NEW i \in 1..n PROVE p[i + 1] = s[i]
  <2>1. i + 1 \in 1..n + 4 /\ i + 1 <= n + 1 /\ i + 1 \in 1..n + 1 /\ ~(i + 1 <= 1) /\ (i + 1) - 1 = i
    BY <1>9
  <2> QED
    BY ONLY <1>11, <1>12, <2>1
<1>16. p = r
  BY <1>1, <1>2, <1>4, <1>7
<1> QED
  BY <1>8, <1>9, <1>10, <1>13, <1>14, <1>15, <1>16

(* The plans of a creation are on their way.                               *)
LEMMA CreationOnWay ==
  ASSUME NEW r
  PROVE  /\ OnWay("create", CreationSteps(r)) /\ CreationSteps(r)[1] = "refuse"
         /\ Len(CreationSteps(r)) >= 3
<1> DEFINE Way(s) == OnWay("create", s) /\ s[1] = "refuse" /\ Len(s) >= 3
<1>0. \A x \in {"refuse", "add", "force", "password", "stamp", "options", "made"} : x \in Step
  BY DEF Step
<1>1. ASSUME NEW s, s = <<"refuse", "add", "options", "made">> PROVE Way(s)
  <2>1. /\ s \in Seq(Step) /\ Len(s) = 4 /\ s[1] = "refuse" /\ s[2] = "add" /\ s[3] = "options"
        /\ s[4] = "made"
    BY <1>0, <1>1
  <2> QED
    BY <2>1 DEF OnWay, Then, Final, Creating, Unmade
<1>2. ASSUME NEW s, s = <<"refuse", "add", "password", "stamp", "options", "made">> PROVE Way(s)
  <2>1. /\ s \in Seq(Step) /\ Len(s) = 6 /\ s[1] = "refuse" /\ s[2] = "add" /\ s[3] = "password"
        /\ s[4] = "stamp" /\ s[5] = "options" /\ s[6] = "made"
    BY <1>0, <1>2
  <2> QED
    BY <2>1 DEF OnWay, Then, Final, Creating, Unmade
<1>3. ASSUME NEW s, s = <<"refuse", "add", "force", "password", "stamp", "options", "made">> PROVE Way(s)
  <2>1. /\ s \in Seq(Step) /\ Len(s) = 7 /\ s[1] = "refuse" /\ s[2] = "add" /\ s[3] = "force"
        /\ s[4] = "password" /\ s[5] = "stamp" /\ s[6] = "options" /\ s[7] = "made"
    BY <1>0, <1>3
  <2> QED
    BY <2>1 DEF OnWay, Then, Final, Creating, Unmade
<1> QED
  BY <1>1, <1>2, <1>3 DEF CreationSteps

(* A copy's plan frames a creation's.                                      *)
LEMMA CopyOnWay ==
  ASSUME NEW s, OnWay("create", s), s[1] = "refuse", Len(s) >= 3
  PROVE  /\ OnWay("copy", <<"template">> \o s \o <<"groups", "primary", "shown">>)
         /\ (<<"template">> \o s \o <<"groups", "primary", "shown">>)[1] = "template"
<1>1. PICK p : p = <<"template">> \o s \o <<"groups", "primary", "shown">>
  OBVIOUS
<1>2. s \in Seq(Step) /\ Len(s) \in Nat
  BY DEF OnWay
<1>3. /\ p \in Seq(Step) /\ Len(p) = Len(s) + 4
      /\ p[1] = "template" /\ p[Len(s) + 2] = "groups" /\ p[Len(s) + 3] = "primary"
      /\ p[Len(s) + 4] = "shown"
      /\ \A i \in 1..Len(s) : p[i + 1] = s[i]
  <2>1. "template" \in Step /\ "groups" \in Step /\ "primary" \in Step /\ "shown" \in Step
    BY DEF Step
  <2> QED
    BY <1>1, <1>2, <2>1, FramedIs
<1>4. PICK n : n = Len(s) /\ n \in Nat /\ n >= 3
  BY <1>2
<1>5. s[n] = "made" /\ s[n - 1] = "options"
  <2>1. s[n] = "made"
    BY <1>4 DEF OnWay, Final
  <2>2. Then("create", s[n - 1], s[n])
    <3>1. n - 1 \in 1..n - 1 /\ (n - 1) + 1 = n
      BY <1>4
    <3> QED
      BY <1>4, <3>1 DEF OnWay
  <2> QED
    BY <2>1, <2>2 DEF Then, Creating
<1>6. ASSUME NEW i \in 1..n PROVE s[i] # "rollback" /\ (s[i] \in Unmade <=> i <= n - 1)
  <2>1. s[i] # "rollback" /\ (s[i] \in Unmade <=> \E j \in i..n : s[j] = "options")
    BY <1>4 DEF OnWay, Creating
  <2>2. CASE i <= n - 1
    <3>1. n - 1 \in i..n
      BY <1>4, <2>2
    <3> QED
      BY <1>5, <2>1, <2>2, <3>1
  <2>3. CASE ~(i <= n - 1)
    <3>1. i = n
      BY <1>4, <2>3
    <3> QED
      BY <1>5, <2>1, <2>3, <3>1 DEF Unmade
  <2> QED
    BY <2>2, <2>3
<1>7. ASSUME NEW i \in 1..n + 4
      PROVE  \/ i = 1
             \/ i - 1 \in 1..n /\ (i - 1) + 1 = i
             \/ i \in {n + 2, n + 3, n + 4}
  BY <1>4
<1>8. ASSUME NEW i \in 1..n + 4 PROVE p[i] # "rollback" /\ (p[i] \in Unmade <=> i <= n)
  <2>1. CASE i = 1
    BY <1>3, <1>4, <2>1 DEF Unmade
  <2>2. CASE i - 1 \in 1..n /\ (i - 1) + 1 = i
    <3>1. p[i] = s[i - 1]
      BY <1>3, <1>4, <2>2
    <3>2. s[i - 1] # "rollback" /\ (s[i - 1] \in Unmade <=> i - 1 <= n - 1)
      BY <1>6, <2>2
    <3>3. i - 1 <= n - 1 <=> i <= n
      BY <1>4
    <3> QED
      BY <3>1, <3>2, <3>3
  <2>3. CASE i \in {n + 2, n + 3, n + 4}
    <3>1. p[i] \in {"groups", "primary", "shown"} /\ ~(i <= n)
      BY <1>3, <1>4, <2>3
    <3> QED
      BY <3>1 DEF Unmade
  <2> QED
    BY <1>7, <2>1, <2>2, <2>3
<1>9. p[n] = "options" /\ p[n + 1] = "made" /\ p[2] = "refuse"
  <2>1. n \in 1..n /\ n - 1 \in 1..n /\ (n - 1) + 1 = n /\ 1 \in 1..n /\ 1 + 1 = 2
    BY <1>4
  <2> QED
    BY <1>3, <1>4, <1>5, <2>1
<1>10. ASSUME NEW i \in 1..n + 4 PROVE p[i] \in Unmade <=> \E j \in i..n + 4 : p[j] = "options"
  <2>1. CASE i <= n
    <3>1. n \in i..n + 4
      BY <1>4, <2>1
    <3> QED
      BY <1>8, <1>9, <2>1, <3>1
  <2>2. CASE ~(i <= n)
    <3>1. ASSUME NEW j \in i..n + 4 PROVE p[j] # "options"
      <4>1. j \in 1..n + 4 /\ ~(j <= n)
        BY <1>4, <2>2
      <4>2. "options" \in Unmade
        BY DEF Unmade
      <4> QED
        BY <1>8, <4>1, <4>2
    <3> QED
      BY <1>8, <2>2, <3>1
  <2> QED
    BY <2>1, <2>2
<1>11. ASSUME NEW i \in 1..n + 3 PROVE Then("copy", p[i], p[i + 1])
  <2>1. CASE i = 1
    BY <1>3, <1>9, <2>1 DEF Then, Creating
  <2>2. CASE i # 1 /\ i <= n
    <3>1. i - 1 \in 1..n - 1 /\ i - 1 \in 1..n /\ i \in 1..n /\ (i - 1) + 1 = i
      BY <1>4, <2>2
    <3>2. p[i] = s[i - 1] /\ p[i + 1] = s[i] /\ Then("create", s[i - 1], s[i])
      BY <1>3, <1>4, <3>1 DEF OnWay
    <3> QED
      BY <3>2 DEF Then, Creating
  <2>3. CASE i = n + 1
    <3>1. i + 1 = n + 2
      BY <1>4, <2>3
    <3> QED
      BY <1>3, <1>4, <1>9, <2>3, <3>1 DEF Then, Creating
  <2>4. CASE i \in {n + 2, n + 3}
    <3>1. (n + 2) + 1 = n + 3 /\ (n + 3) + 1 = n + 4
      BY <1>4
    <3> QED
      BY <1>3, <1>4, <2>4, <3>1 DEF Then, Creating
  <2> QED
    BY <1>4, <2>1, <2>2, <2>3, <2>4
<1>12. (n + 4) - 1 = n + 3 /\ n + 4 >= 1
  BY <1>4
<1>13. OnWay("copy", p)
  BY <1>3, <1>4, <1>8, <1>10, <1>11, <1>12 DEF OnWay, Final
<1> QED
  BY <1>1, <1>3, <1>13

(* Every operation begins with a plan of this form.                        *)
LEMMA PlanOnWay ==
  ASSUME NEW r, r.do \in Deed
  PROVE  OnWay(r.do, Plan(r)) /\ Plan(r)[1] \in {"template", "refuse", "leave"}
         /\ (Plan(r)[1] = "template" <=> r.do = "copy") /\ (Plan(r)[1] = "leave" <=> r.do = "leave")
<1> DEFINE Way(do, s) ==
             /\ OnWay(do, s) /\ s[1] \in {"template", "refuse", "leave"}
             /\ (s[1] = "template" <=> do = "copy") /\ (s[1] = "leave" <=> do = "leave")
<1>0. \A x \in {"refuse", "text", "read", "write", "password", "stamp", "acl", "primary", "join", "leave",
             "delete"} : x \in Step
  BY DEF Step
<1>1. CASE r.do = "create"
  BY <1>1, CreationOnWay DEF Plan
<1>2. CASE r.do = "copy"
  <2>1. PICK s : s = CreationSteps(r)
    OBVIOUS
  <2>2. OnWay("create", s) /\ s[1] = "refuse" /\ Len(s) >= 3
    BY <2>1, CreationOnWay
  <2>3. PICK p : p = <<"template">> \o s \o <<"groups", "primary", "shown">>
    OBVIOUS
  <2>4. OnWay("copy", p) /\ p[1] = "template"
    BY <2>2, <2>3, CopyOnWay, Zenon
  <2>5. Plan(r) = p
    BY <1>2, <2>1, <2>3 DEF Plan
  <2> QED
    BY <1>2, <2>4, <2>5
<1>3. CASE r.do = "update"
  <2>1. PICK s : s = <<"refuse", "text", "read", "write">>
    OBVIOUS
  <2>2. /\ s \in Seq(Step) /\ Len(s) = 4 /\ s[1] = "refuse" /\ s[2] = "text" /\ s[3] = "read"
        /\ s[4] = "write"
    BY <1>0, <2>1
  <2>3. Way("update", s)
    BY <2>2 DEF OnWay, Then, Final, Creating
  <2> QED
    BY <1>3, <2>1, <2>3 DEF Plan
<1>4. CASE r.do = "password"
  <2>1. PICK s : s = <<"refuse", "password", "stamp">>
    OBVIOUS
  <2>2. s \in Seq(Step) /\ Len(s) = 3 /\ s[1] = "refuse" /\ s[2] = "password" /\ s[3] = "stamp"
    BY <1>0, <2>1
  <2>3. Way("password", s)
    BY <2>2 DEF OnWay, Then, Final, Creating
  <2> QED
    BY <1>4, <2>1, <2>3 DEF Plan
<1>5. CASE r.do = "cannot"
  <2>1. PICK s : s = <<"refuse", "read", "acl">>
    OBVIOUS
  <2>2. s \in Seq(Step) /\ Len(s) = 3 /\ s[1] = "refuse" /\ s[2] = "read" /\ s[3] = "acl"
    BY <1>0, <2>1
  <2>3. Way("cannot", s)
    BY <2>2 DEF OnWay, Then, Final, Creating
  <2> QED
    BY <1>5, <2>1, <2>3 DEF Plan
<1>6. ASSUME NEW do, NEW x, <<do, x>> \in {<<"must", "stamp">>, <<"primary", "primary">>, <<"join", "join">>,
                                        <<"delete", "delete">>}
      PROVE  Way(do, <<"refuse", x>>)
  <2>1. PICK s : s = <<"refuse", x>>
    OBVIOUS
  <2>2. s \in Seq(Step) /\ Len(s) = 2 /\ s[1] = "refuse" /\ s[2] = x /\ x # "rollback"
    BY <1>0, <1>6, <2>1
  <2>3. Way(do, s)
    BY <1>6, <2>2 DEF OnWay, Then, Final, Creating
  <2> QED
    BY <2>1, <2>3
<1>7. CASE r.do \in {"must", "primary", "join", "delete"}
  BY <1>6, <1>7 DEF Plan
<1>8. CASE r.do = "leave"
  <2>1. PICK s : s = <<"leave">>
    OBVIOUS
  <2>2. s \in Seq(Step) /\ Len(s) = 1 /\ s[1] = "leave"
    BY <1>0, <2>1
  <2>3. Way("leave", s)
    BY <2>2 DEF OnWay, Then, Final, Creating
  <2> QED
    BY <1>8, <2>1, <2>3 DEF Plan
<1> QED
  BY <1>1, <1>2, <1>3, <1>4, <1>5, <1>7, <1>8 DEF Deed

(***************************************************************************)
(* The invariant                                                           *)
(***************************************************************************)
Result == {"none", "ok", "partly", "refused", "failed"}
Fields == {"do", "n", "from", "enabled", "password", "must", "never", "set", "clear", "groups", "confirm",
           "value", "odd", "todo", "result", "seen", "before", "added", "left", "failed"}

IsAccount(u) == u \in User /\ u.primary \notin u.groups /\ ~(u.must /\ Cannot(u.acl))
Is(u) == u = Absent \/ IsAccount(u)

IsOperation(op) ==
  /\ Fields \subseteq DOMAIN op
  /\ op.do \in Deed /\ op.n \in Username /\ op.from \in Username
  /\ op.must \in BOOLEAN /\ op.value \in BOOLEAN /\ op.added \in BOOLEAN
  /\ op.set \subseteq Flag /\ op.clear \subseteq Flag
  /\ op.groups \subseteq GroupName /\ op.left \subseteq GroupName /\ op.failed \subseteq GroupName
  /\ op.result \in Result
  /\ \/ OnWay(op.do, op.todo)
     \/ op.todo = <<"rollback">> /\ op.do \in Creating

\* The groups a copy was asked for and offered.
Chosen(op) == op.groups \cap TemplateGroups(op.seen)
NeverAsked(op) == "password_never_expires" \in op.set
\* An account the operation added and has not enabled yet.
Made(op, u) ==
  op.added /\ op.before = Absent /\ u # Absent /\ u.flags = {"account_disabled"}

(* What holds between two steps of an operation, u being its account.      *)
Opening(op, u) ==
  /\ ~op.added /\ u = op.before /\ op.failed = {} /\ op.result = "none"
  /\ Head(op.todo) = "add" => u = Absent /\ ~(op.must /\ NeverAsked(op))
  /\ op.do = "copy" /\ Head(op.todo) # "template" => op.seen \in User /\ op.left = Chosen(op)
Making(op, u) ==
  /\ Made(op, u) /\ ~(op.must /\ NeverAsked(op)) /\ op.failed = {} /\ op.result = "none"
  /\ ~Cannot(u.acl) /\ u.groups = {} /\ u.primary = DomainUsers
  /\ Head(op.todo) = "options" /\ u.password => u.must = op.must
  /\ op.do = "copy" => op.seen \in User /\ op.left = Chosen(op)
Grouping(op, u) ==
  /\ u # Absent /\ u.primary = DomainUsers /\ op.seen \in User /\ op.result = "none"
  /\ Chosen(op) = op.left \cup u.groups \cup op.failed
  /\ op.left \cap u.groups = {} /\ op.left \cap op.failed = {} /\ u.groups \cap op.failed = {}
  /\ Head(op.todo) = "primary" => op.left = {}
\* How an operation ends that goes to its end, and what a copy reports then.
Ending(op) == IF op.failed = {} /\ op.result = "none" THEN "ok" ELSE "partly"
Reported(op, result, v) ==
  LET has == v.groups \cup {v.primary}
  IN /\ op.failed = Chosen(op) \ has
     /\ result = "ok" /\ Chosen(op) = TemplateGroups(op.seen) =>
          /\ v.primary = op.seen.primary
          /\ has \ {DomainUsers} = TemplateGroups(op.seen) \ {DomainUsers}
\* What a handler established when it did not refuse.
Granted(op, u) ==
  /\ op.do = "update" => ~RefusesDisabling(op, u)
  /\ op.do \in {"password", "must"} /\ op.must => ~Never(u) /\ ~Cannot(u.acl)
  /\ op.do = "cannot" /\ op.value => ~u.must
  /\ op.do = "delete" => /\ op.n # Administrator
                         /\ op.confirm \/ ~AdministrativeRole(op.n, u)
Serving(op, u) ==
  /\ ~op.added
  /\ Head(op.todo) = "refuse" \/ (op.do = "update" /\ Head(op.todo) = "text") => u = op.before
  /\ op.do = "update" /\ Head(op.todo) = "read" => u = [op.before EXCEPT !.text = op.value]
  /\ Head(op.todo) \notin {"refuse", "leave"} => u # Absent /\ Granted(op, u)
  /\ Head(op.todo) \in {"write", "acl"} => op.seen = u
Phase(op, u) ==
  /\ op.do \in Creating /\ Head(op.todo) \in {"template", "refuse", "add"} => Opening(op, u)
  /\ op.do \in Creating /\ Head(op.todo) \in {"force", "password", "stamp", "options"} => Making(op, u)
  /\ op.do = "copy" /\ Head(op.todo) \in {"made", "groups", "primary"} => Grouping(op, u)
  /\ op.do = "copy" /\ Head(op.todo) = "shown" => u # Absent /\ Reported(op, Ending(op), u)
  /\ Head(op.todo) = "rollback" => Made(op, u) /\ op.result \in {"refused", "failed"}
  /\ op.do \notin Creating => Serving(op, u)

(***************************************************************************)
(* One step of one operation: op and its account u become op2 and v        *)
(***************************************************************************)
Answered(op, op2, v) ==
  op2.todo = <<>> =>
    /\ op2.result \in (IF op.do \in Creating THEN {"refused", "failed"} ELSE {"refused"}) => MayLeave(op, v)
    /\ op.do = "copy" /\ op2.result \in {"ok", "partly"} => Reported(op, op2.result, v)
InForce(n, u) ==
  /\ "account_disabled" \notin u.flags
  /\ n = Administrator \/ \E g \in u.groups \cup {u.primary} : Token[g] \cap AdminGroup # {}
Asked(op, u, v) ==
  u # v =>
    /\ u # Absent /\ InForce(op.n, u) /\ (v = Absent \/ "account_disabled" \in v.flags) => op.confirm
    /\ u # Absent /\ v # Absent /\ v.acl # u.acl =>
         Head(op.todo) = "acl" /\ Rewrites(u.acl, v.acl, op.value) /\ (Cannot(v.acl) <=> op.value)
    /\ MustAndNever(v) /\ ~MustAndNever(u) => Head(op.todo) = "write"
Steps(op, u, op2, v) ==
  /\ Is(v)
  /\ \/ \E why \in Result : op2 = Over(why)
     \/ IsOperation(op2) /\ op2.n = op.n /\ op2.from = op.from /\ Phase(op2, v)
  /\ Answered(op, op2, v)
  /\ Asked(op, u, v)

Kept(op, op2) ==
  /\ op2.do = op.do /\ op2.n = op.n /\ op2.from = op.from /\ op2.must = op.must /\ op2.value = op.value
  /\ op2.set = op.set /\ op2.clear = op.clear /\ op2.groups = op.groups /\ op2.confirm = op.confirm
  /\ op2.enabled = op.enabled /\ op2.seen = op.seen /\ op2.before = op.before /\ op2.added = op.added
  /\ op2.left = op.left /\ op2.failed = op.failed /\ op2.result = op.result

(* An operation that is over.                                              *)
LEMMA OverIs ==
  ASSUME NEW why
  PROVE  Over(why).todo = <<>> /\ Over(why).result = why
  BY DEF Over

(* Going on to the next step.                                              *)
LEMMA ProceedIs ==
  ASSUME NEW op, IsOperation(op), Head(op.todo) # "rollback"
  PROVE  \/ /\ IsOperation(Proceed(op)) /\ Kept(op, Proceed(op))
            /\ Then(op.do, Head(op.todo), Head(Proceed(op).todo)) /\ Proceed(op).todo # <<>>
         \/ /\ Final(op.do, Head(op.todo))
            /\ Proceed(op) = Over(Ending(op))
<1>1. OnWay(op.do, op.todo)
  <2>1. Head(<<"rollback">>) = "rollback"
    OBVIOUS
  <2> QED
    BY <2>1 DEF IsOperation
<1>2. CASE Len(op.todo) > 1
  <2>1. PICK t : t = Tail(op.todo)
    OBVIOUS
  <2>2. OnWay(op.do, t) /\ Then(op.do, Head(op.todo), Head(t)) /\ t # <<>>
    BY <1>1, <1>2, <2>1, Onward
  <2>3. PICK op2 : op2 = [op EXCEPT !.todo = t]
    OBVIOUS
  <2>4. Proceed(op) = op2
    BY <1>2, <2>1, <2>3 DEF Proceed
  <2>5. op2.todo = t /\ Kept(op, op2)
    BY <2>3 DEF IsOperation, Fields, Kept
  <2>6. IsOperation(op2)
    <3>1. DOMAIN op2 = DOMAIN op
      BY <2>3
    <3> QED
      BY <2>2, <2>5, <3>1 DEF IsOperation, Kept
  <2> QED
    BY <2>2, <2>4, <2>5, <2>6
<1>3. CASE ~(Len(op.todo) > 1)
  <2>1. Final(op.do, Head(op.todo))
    BY <1>1, <1>3, Onward
  <2> QED
    BY <1>3, <2>1 DEF Proceed, Ending
<1> QED
  BY <1>2, <1>3

(* An operation that ends with an error, its account as it was.            *)
LEMMA EndedIs ==
  ASSUME NEW op, IsOperation(op), NEW u, Is(u), Phase(op, u), Head(op.todo) # "rollback",
         ~(op.do = "copy" /\ Head(op.todo) \in {"groups", "primary"}),
         NEW why \in {"refused", "failed"}, why = "refused" /\ op.do \notin Creating => MayLeave(op, u)
  PROVE  Steps(op, u, Ended(op, why), u)
<1>1. OnWay(op.do, op.todo)
  <2>1. Head(<<"rollback">>) = "rollback"
    OBVIOUS
  <2> QED
    BY <2>1 DEF IsOperation
<1>2. Asked(op, u, u)
  BY DEF Asked
<1>3. CASE Unfinished(op)
  <2>1. op.added /\ op.do \in Creating
    BY <1>3 DEF Unfinished, Phase, Serving
  <2>2. Head(op.todo) \in Unmade
    BY <1>1, <1>3, <2>1, Onward DEF Unfinished
  <2>3. Made(op, u)
    BY <2>1, <2>2 DEF Phase, Opening, Making, Unmade
  <2>4. PICK op2 : op2 = [op EXCEPT !.todo = <<"rollback">>, !.result = why]
    OBVIOUS
  <2>5. Ended(op, why) = op2
    BY <1>3, <2>4 DEF Ended
  <2>6. /\ op2.todo = <<"rollback">> /\ op2.result = why /\ DOMAIN op2 = DOMAIN op
        /\ op2.do = op.do /\ op2.n = op.n /\ op2.from = op.from /\ op2.must = op.must
        /\ op2.value = op.value /\ op2.set = op.set /\ op2.clear = op.clear /\ op2.groups = op.groups
        /\ op2.left = op.left /\ op2.failed = op.failed /\ op2.added = op.added /\ op2.before = op.before
    BY <2>4 DEF IsOperation, Fields
  <2>7. IsOperation(op2)
    BY <2>1, <2>6 DEF IsOperation, Result
  <2>8. Phase(op2, u)
    <3>1. Head(op2.todo) = "rollback"
      BY <2>6
    <3> QED
      BY <2>1, <2>3, <2>6, <3>1 DEF Phase, Made
  <2>9. op2.todo # <<>>
    BY <2>6
  <2> QED
    BY <1>2, <2>5, <2>6, <2>7, <2>8, <2>9 DEF Steps, Answered
<1>4. CASE ~Unfinished(op)
  <2>1. Ended(op, why) = Over(why)
    BY <1>4 DEF Ended
  <2>2. ASSUME op.do \in Creating PROVE MayLeave(op, u)
    <3>1. ~(Head(op.todo) \in {"force", "password", "stamp", "options"})
      <4> SUFFICES ASSUME Head(op.todo) \in {"force", "password", "stamp", "options"} PROVE FALSE
        OBVIOUS
      <4>1. op.added
        BY <2>2 DEF Phase, Making, Made
      <4>2. "options" \in ToSet(op.todo)
        BY <1>1, <2>2, Onward DEF Unmade
      <4> QED
        BY <1>4, <4>1, <4>2 DEF Unfinished
    <3>2. Head(op.todo) \in {"template", "refuse", "add", "made", "shown"}
      <4>1. Then(op.do, Head(op.todo), Head(Tail(op.todo))) \/ Final(op.do, Head(op.todo))
        BY <1>1, Onward
      <4> QED
        BY <2>2, <3>1, <4>1 DEF Then, Final, Creating
    <3> QED
      BY <2>2, <3>2 DEF Phase, Opening, MayLeave, Creating
  <2>3. Over(why).result = why /\ why \in Result
    BY OverIs DEF Result
  <2> QED
    BY <1>2, <2>1, <2>2, <2>3 DEF Steps, Answered
<1> QED
  BY <1>3, <1>4

Ready(op, u) == IsOperation(op) /\ Is(u) /\ Phase(op, u)

(* A step that leaves the account alone and goes on.                       *)
LEMMA StaysIs ==
  ASSUME NEW op, NEW u, Is(u), NEW op2, IsOperation(op2), op2.todo # <<>>,
         op2.n = op.n, op2.from = op.from, Phase(op2, u)
  PROVE  Steps(op, u, op2, u)
  BY DEF Steps, Answered, Asked

(* The handler's checks: a refusal, or what they establish.                *)
LEMMA RefuseStep ==
  ASSUME NEW op, Ready(op, accounts[op.n]), Head(op.todo) = "refuse"
  PROVE  Steps(op, accounts[op.n], IF Refuses(op) THEN Ended(op, "refused") ELSE Proceed(op), accounts[op.n])
<1>1. PICK u : u = accounts[op.n]
  OBVIOUS
<1>2. IsOperation(op) /\ Is(u) /\ Phase(op, u)
  BY <1>1 DEF Ready
<1>3. op.do \notin Creating => u = op.before /\ MayLeave(op, u)
  BY <1>2 DEF Phase, Serving, MayLeave
<1>4. CASE Refuses(op)
  <2>1. Steps(op, u, Ended(op, "refused"), u)
    BY <1>2, <1>3, EndedIs
  <2> QED
    BY <1>1, <1>4, <2>1
<1>5. CASE ~Refuses(op)
  <2>1. PICK op2 : op2 = Proceed(op)
    OBVIOUS
  <2>2. /\ IsOperation(op2) /\ Kept(op, op2) /\ op2.todo # <<>>
        /\ Then(op.do, "refuse", Head(op2.todo))
    BY <1>2, <2>1, ProceedIs DEF Final
  <2>3. CASE op.do \in Creating
    <3>1. ~RefusesNew(op)
      BY <1>5, <2>3 DEF Refuses, Creating
    <3>2. Head(op2.todo) = "add"
      BY <2>2, <2>3 DEF Then
    <3>3. Opening(op, u)
      BY <1>2, <2>3 DEF Phase
    <3>4. Opening(op2, u)
      BY <1>1, <2>2, <3>1, <3>2, <3>3 DEF Opening, Kept, RefusesNew, NeverAsked, Chosen
    <3>5. Phase(op2, u)
      BY <2>2, <2>3, <3>2, <3>4 DEF Phase, Kept
    <3> QED
      BY <1>1, <1>2, <1>5, <2>1, <2>2, <3>5, StaysIs DEF Kept
  <2>4. CASE op.do \notin Creating
    <3>1. /\ u # Absent
          /\ op.do = "update" => ~RefusesDisabling(op, u)
          /\ op.do \in {"password", "must"} /\ op.must => ~Forbids(u, TRUE)
          /\ op.do = "cannot" /\ op.value => ~u.must
          /\ op.do = "delete" => ~(op.n = Administrator \/ (~op.confirm /\ AdministrativeRole(op.n, u)))
      BY <1>1, <1>5, <2>4 DEF Refuses, Creating
    <3>2. Head(op2.todo) \in {"text", "password", "stamp", "read", "primary", "join", "delete"}
      BY <2>2, <2>4 DEF Then
    <3>3. Granted(op2, u)
      BY <2>2, <3>1 DEF Granted, Kept, Forbids, RefusesDisabling
    <3>4. Serving(op2, u)
      <4>1. ~op2.added
        BY <1>2, <2>2, <2>4 DEF Phase, Serving, Kept
      <4>2. op2.before = op.before /\ u = op.before
        BY <1>3, <2>2, <2>4 DEF Kept
      <4>3. op.do = "update" => Head(op2.todo) # "read"
        BY <2>2 DEF Then, Creating
      <4> QED
        BY <2>2, <3>1, <3>2, <3>3, <4>1, <4>2, <4>3 DEF Serving, Kept
    <3>5. Phase(op2, u)
      BY <2>2, <2>4, <3>2, <3>4 DEF Phase, Kept, Creating
    <3> QED
      BY <1>1, <1>2, <1>5, <2>1, <2>2, <3>5, StaysIs DEF Kept
  <2> QED
    BY <2>3, <2>4
<1> QED
  BY <1>4, <1>5

(* Reading the template: a refusal, or the groups to join.                 *)
LEMMA TemplateStep ==
  ASSUME NEW op, NEW u, Ready(op, u), Head(op.todo) = "template", NEW t, Is(t)
  PROVE  /\ Steps(op, u, Ended(op, "refused"), u)
         /\ t # Absent =>
              Steps(op, u, Proceed([op EXCEPT !.seen = t, !.set = CopiedFlags(t, op),
                                              !.left = op.groups \cap TemplateGroups(t)]), u)
<1>1. IsOperation(op) /\ Is(u) /\ Phase(op, u)
  BY DEF Ready
<1>2. op.do = "copy"
  <2>1. Then(op.do, "template", Head(Proceed(op).todo)) \/ Final(op.do, "template")
    BY <1>1, ProceedIs
  <2> QED
    BY <2>1 DEF Then, Final, Creating
<1>3. Opening(op, u)
  BY <1>1, <1>2 DEF Phase, Creating
<1>4. Steps(op, u, Ended(op, "refused"), u)
  BY <1>1, <1>2, EndedIs DEF Creating
<1>5. ASSUME t # Absent
      PROVE  Steps(op, u, Proceed([op EXCEPT !.seen = t, !.set = CopiedFlags(t, op),
                                             !.left = op.groups \cap TemplateGroups(t)]), u)
  <2>1. PICK op1 : op1 = [op EXCEPT !.seen = t, !.set = CopiedFlags(t, op),
                                    !.left = op.groups \cap TemplateGroups(t)]
    OBVIOUS
  <2>2. /\ op1.do = op.do /\ op1.n = op.n /\ op1.from = op.from /\ op1.must = op.must /\ op1.value = op.value
        /\ op1.clear = op.clear /\ op1.groups = op.groups /\ op1.added = op.added /\ op1.before = op.before
        /\ op1.failed = op.failed /\ op1.result = op.result /\ op1.todo = op.todo
        /\ op1.seen = t /\ op1.set = CopiedFlags(t, op) /\ op1.left = op.groups \cap TemplateGroups(t)
        /\ DOMAIN op1 = DOMAIN op
    BY <1>1, <2>1 DEF IsOperation, Fields
  <2>3. t \in User /\ t.flags \subseteq Flag
    BY <1>5 DEF Is, IsAccount, User
  <2>4. CopiedFlags(t, op) \subseteq Flag
    BY <2>3 DEF CopiedFlags, Flag
  <2>5. IsOperation(op1)
    BY <1>1, <2>2, <2>4 DEF IsOperation
  <2>6. PICK op2 : op2 = Proceed(op1)
    OBVIOUS
  <2>7. IsOperation(op2) /\ Kept(op1, op2) /\ op2.todo # <<>> /\ Head(op2.todo) = "refuse"
    BY <1>2, <2>2, <2>5, <2>6, ProceedIs DEF Then, Final, Creating
  <2>8. Opening(op2, u)
    <3>1. Chosen(op2) = op.groups \cap TemplateGroups(t)
      BY <2>2, <2>7 DEF Chosen, Kept
    <3> QED
      BY <1>3, <2>2, <2>3, <2>7, <3>1 DEF Opening, Kept
  <2>9. Phase(op2, u)
    BY <1>2, <2>2, <2>7, <2>8 DEF Phase, Kept, Creating
  <2>10. op2.n = op.n /\ op2.from = op.from
    BY <2>2, <2>7 DEF Kept
  <2> QED
    BY <1>1, <2>1, <2>6, <2>7, <2>9, <2>10, StaysIs
<1> QED
  BY <1>4, <1>5

(* A sequence of four entries.                                             *)
LEMMA FourIs ==
  ASSUME NEW S, NEW a \in S, NEW b \in S, NEW c \in S, NEW d \in S
  PROVE  <<a, b, c, d>> \in Seq(S) /\ \A i \in DOMAIN <<a, b, c, d>> : <<a, b, c, d>>[i] \in {a, b, c, d}
<1>1. PICK t : t = <<a, b, c, d>>
  OBVIOUS
<1>2. t \in Seq(S) /\ Len(t) = 4 /\ t[1] = a /\ t[2] = b /\ t[3] = c /\ t[4] = d
  BY <1>1
<1>3. DOMAIN t = 1..4
  BY <1>2
<1>4. \A i \in 1..4 : i = 1 \/ i = 2 \/ i = 3 \/ i = 4
  OBVIOUS
<1> QED
  BY <1>1, <1>2, <1>3, <1>4

(* Adding the account.                                                     *)
LEMMA AddStep ==
  ASSUME NEW op, NEW u, Ready(op, u), Head(op.todo) = "add"
  PROVE  u = Absent /\ Steps(op, u, Proceed([op EXCEPT !.added = TRUE]), Born)
<1>1. IsOperation(op) /\ Is(u) /\ Phase(op, u)
  BY DEF Ready
<1>2. op.do \in Creating
  <2>1. Then(op.do, "add", Head(Proceed(op).todo)) \/ Final(op.do, "add")
    BY <1>1, ProceedIs
  <2> QED
    BY <2>1 DEF Then, Final, Creating
<1>3. Opening(op, u)
  BY <1>1, <1>2 DEF Phase
<1>4. u = Absent /\ op.before = Absent
  BY <1>3 DEF Opening
<1>5. IsAccount(Born) /\ Born # Absent
  <2>1. PICK acl : acl = <<"allow self", "allow everyone", "allow other", "inherited allow">>
    OBVIOUS
  <2>2. \A x \in {"allow self", "allow everyone", "allow other", "inherited allow"} : x \in Ace
    BY DEF Ace, Change, Inherited
  <2>3. acl \in Seq(Ace) /\ \A i \in DOMAIN acl : acl[i] \in {"allow self", "allow everyone", "allow other", "inherited allow"}
    BY <2>1, <2>2, FourIs, Zenon
  <2>5. ~Cannot(acl)
    BY <2>3 DEF Cannot
  <2>6. Born = [flags |-> {"account_disabled"}, text |-> FALSE, password |-> FALSE, must |-> TRUE,
                acl |-> acl, groups |-> {}, primary |-> DomainUsers]
    BY <2>1 DEF Born
  <2>7. {"account_disabled"} \in SUBSET Flag /\ {} \in SUBSET GroupName /\ DomainUsers \in GroupName
    BY AccountConstants DEF Flag
  <2>8. Born \in User
    BY <2>3, <2>6, <2>7 DEF User
  <2> QED
    BY <2>5, <2>6, <2>8, AccountsGiven DEF IsAccount
<1>6. Born.flags = {"account_disabled"} /\ Born.password = FALSE /\ Born.groups = {}
      /\ Born.primary = DomainUsers /\ Born.must = TRUE
  BY DEF Born
<1>7. PICK op1 : op1 = [op EXCEPT !.added = TRUE]
  OBVIOUS
<1>8. /\ op1.do = op.do /\ op1.n = op.n /\ op1.from = op.from /\ op1.must = op.must /\ op1.value = op.value
      /\ op1.clear = op.clear /\ op1.groups = op.groups /\ op1.added = TRUE /\ op1.before = op.before
      /\ op1.failed = op.failed /\ op1.result = op.result /\ op1.todo = op.todo
      /\ op1.seen = op.seen /\ op1.set = op.set /\ op1.left = op.left /\ DOMAIN op1 = DOMAIN op
  BY <1>1, <1>7 DEF IsOperation, Fields
<1>9. IsOperation(op1)
  BY <1>1, <1>8 DEF IsOperation
<1>10. PICK op2 : op2 = Proceed(op1)
  OBVIOUS
<1>11. /\ IsOperation(op2) /\ Kept(op1, op2) /\ op2.todo # <<>>
       /\ Head(op2.todo) \in {"force", "password", "options"}
  BY <1>2, <1>8, <1>9, <1>10, ProceedIs DEF Then, Final, Creating
<1>12. Making(op2, Born)
  <2>1. ~Cannot(Born.acl)
    BY <1>5, <1>6 DEF IsAccount
  <2> QED
    BY <1>3, <1>4, <1>5, <1>6, <1>8, <1>11, <2>1 DEF Making, Opening, Made, Kept, Chosen, NeverAsked
<1>13. Phase(op2, Born)
  BY <1>2, <1>8, <1>11, <1>12 DEF Phase, Kept
<1>14. Asked(op, u, Born)
  <2>1. ~Never(Born)
    BY <1>6 DEF Never
  <2> QED
    BY <1>4, <2>1 DEF Asked, MustAndNever
<1>15. Answered(op, op2, Born)
  BY <1>11 DEF Answered
<1> QED
  BY <1>4, <1>5, <1>7, <1>8, <1>10, <1>11, <1>13, <1>14, <1>15 DEF Steps, Is, Kept

(* set_password's check that "must change" may be set.                     *)
LEMMA ForceStep ==
  ASSUME NEW op, NEW u, Ready(op, u), Head(op.todo) = "force"
  PROVE  Steps(op, u, Ended(op, "refused"), u) /\ Steps(op, u, Proceed(op), u)
<1>1. IsOperation(op) /\ Is(u) /\ Phase(op, u)
  BY DEF Ready
<1>2. PICK op2 : op2 = Proceed(op)
  OBVIOUS
<1>3. \/ IsOperation(op2) /\ Kept(op, op2) /\ op2.todo # <<>> /\ Then(op.do, "force", Head(op2.todo))
      \/ Final(op.do, "force")
  BY <1>1, <1>2, ProceedIs
<1>4. op.do \in Creating /\ Head(op2.todo) = "password"
  BY <1>3 DEF Then, Final, Creating
<1>5. Making(op2, u)
  BY <1>1, <1>3, <1>4 DEF Phase, Making, Made, Kept, Chosen, NeverAsked, Final
<1>6. IsOperation(op2) /\ Kept(op, op2) /\ op2.todo # <<>>
  BY <1>3 DEF Final
<1>7. Phase(op2, u)
  BY <1>4, <1>5, <1>6 DEF Phase, Kept
<1>8. Steps(op, u, op2, u)
  BY <1>1, <1>6, <1>7, StaysIs DEF Kept
<1> QED
  BY <1>1, <1>2, <1>4, <1>8, EndedIs

(* Reading the account before it is written.                               *)
LEMMA ReadStep ==
  ASSUME NEW op, NEW u, Ready(op, u), Head(op.todo) = "read"
  PROVE  Steps(op, u, Proceed([op EXCEPT !.seen = u]), u)
<1>1. IsOperation(op) /\ Is(u) /\ Phase(op, u)
  BY DEF Ready
<1>2. op.do \in {"update", "cannot"}
  <2>1. Then(op.do, "read", Head(Proceed(op).todo)) \/ Final(op.do, "read")
    BY <1>1, ProceedIs
  <2> QED
    BY <2>1 DEF Then, Final, Creating
<1>3. Serving(op, u)
  BY <1>1, <1>2 DEF Phase, Creating
<1>4. PICK op1 : op1 = [op EXCEPT !.seen = u]
  OBVIOUS
<1>5. /\ op1.do = op.do /\ op1.n = op.n /\ op1.from = op.from /\ op1.must = op.must /\ op1.value = op.value
      /\ op1.clear = op.clear /\ op1.groups = op.groups /\ op1.added = op.added /\ op1.before = op.before
      /\ op1.failed = op.failed /\ op1.result = op.result /\ op1.todo = op.todo /\ op1.confirm = op.confirm
      /\ op1.seen = u /\ op1.set = op.set /\ op1.left = op.left /\ DOMAIN op1 = DOMAIN op
  BY <1>1, <1>4 DEF IsOperation, Fields
<1>6. IsOperation(op1)
  BY <1>1, <1>5 DEF IsOperation
<1>7. PICK op2 : op2 = Proceed(op1)
  OBVIOUS
<1>8. IsOperation(op2) /\ Kept(op1, op2) /\ op2.todo # <<>> /\ Head(op2.todo) \in {"write", "acl"}
  BY <1>2, <1>5, <1>6, <1>7, ProceedIs DEF Then, Final, Creating
<1>9. Granted(op2, u)
  BY <1>3, <1>5, <1>8 DEF Serving, Granted, Kept, RefusesDisabling
<1>10. Serving(op2, u)
  BY <1>3, <1>5, <1>8, <1>9 DEF Serving, Kept
<1>11. Phase(op2, u)
  BY <1>2, <1>5, <1>8, <1>10 DEF Phase, Kept, Creating
<1> QED
  BY <1>1, <1>4, <1>5, <1>7, <1>8, <1>11, StaysIs DEF Kept

\* v is u but for its password, "must change" and text.
SameRest(u, v) == v.flags = u.flags /\ v.acl = u.acl /\ v.groups = u.groups /\ v.primary = u.primary

(* The fields of an account.                                               *)
LEMMA UserIs ==
  ASSUME NEW u \in User
  PROVE  /\ u.flags \subseteq Flag /\ u.text \in BOOLEAN /\ u.password \in BOOLEAN /\ u.must \in BOOLEAN
         /\ u.acl \in Seq(Ace) /\ u.groups \subseteq GroupName /\ u.primary \in GroupName
  BY DEF User

(* An account that keeps its options, list and groups keeps its roles.     *)
LEMMA SameRoles ==
  ASSUME NEW op, NEW op2, Kept(op, op2), NEW u, NEW v, SameRest(u, v), Granted(op, u), v.must = u.must
  PROVE  Granted(op2, v)
  BY DEF Granted, Kept, SameRest, RefusesDisabling, AdministrativeRole, TokenGroups, Never

(* Setting the password.                                                   *)
LEMMA PasswordStep ==
  ASSUME NEW op, NEW u, Ready(op, u), u # Absent, Head(op.todo) = "password"
  PROVE  Steps(op, u, Proceed(op), NewPassword(op, u))
<1>1. IsOperation(op) /\ Is(u) /\ Phase(op, u) /\ u \in User /\ IsAccount(u)
  BY DEF Ready, Is, IsAccount
<1>2. PICK v : v = NewPassword(op, u)
  OBVIOUS
<1>3. v \in User /\ SameRest(u, v) /\ v.password = TRUE /\ v.must = FALSE /\ v # Absent
  <2>1. v \in User
    BY <1>1, <1>2 DEF NewPassword, User
  <2>2. SameRest(u, v) /\ v.password = TRUE /\ v.must = FALSE
    BY <1>1, <1>2 DEF NewPassword, User, SameRest
  <2> QED
    BY <2>1, <2>2, AccountsGiven
<1>4. IsAccount(v)
  BY <1>1, <1>3 DEF IsAccount, SameRest
<1>5. Asked(op, u, v)
  BY <1>3 DEF Asked, SameRest, InForce, MustAndNever
<1>6. PICK op2 : op2 = Proceed(op)
  OBVIOUS
<1>7. /\ IsOperation(op2) /\ Kept(op, op2) /\ op2.todo # <<>> /\ Head(op2.todo) = "stamp"
      /\ op.do \in Creating \/ op.do = "password"
  BY <1>1, <1>6, ProceedIs DEF Then, Final, Creating
<1>8. Phase(op2, v)
  <2>1. CASE op.do \in Creating
    <3>1. Making(op, u)
      BY <1>1, <2>1 DEF Phase
    <3>2. Making(op2, v)
      BY <1>3, <1>7, <3>1 DEF Making, Made, Kept, Chosen, NeverAsked, SameRest
    <3> QED
      BY <1>7, <2>1, <3>2 DEF Phase, Kept
  <2>2. CASE op.do = "password"
    <3>1. Serving(op, u)
      BY <1>1, <2>2 DEF Phase, Creating
    <3>2. Granted(op2, v)
      BY <1>3, <1>7, <2>2, <3>1 DEF Serving, Granted, Kept, SameRest, Never
    <3>3. Serving(op2, v)
      BY <1>3, <1>7, <3>1, <3>2 DEF Serving, Kept
    <3> QED
      BY <1>7, <2>2, <3>3 DEF Phase, Kept, Creating
  <2> QED
    BY <1>7, <2>1, <2>2
<1> QED
  BY <1>2, <1>4, <1>5, <1>6, <1>7, <1>8 DEF Steps, Is, Answered, Kept

(* Setting "must change".                                                  *)
LEMMA StampStep ==
  ASSUME NEW op, NEW u, Ready(op, u), u # Absent, Head(op.todo) = "stamp"
  PROVE  Steps(op, u, Proceed(op), Stamped(op, u))
<1>1. IsOperation(op) /\ Is(u) /\ Phase(op, u) /\ u \in User /\ IsAccount(u)
  BY DEF Ready, Is, IsAccount
<1>2. PICK v : v = Stamped(op, u)
  OBVIOUS
<1>3. v \in User /\ SameRest(u, v) /\ v.password = u.password /\ v.must = op.must /\ v # Absent
  <2>1. op.must \in BOOLEAN
    BY <1>1 DEF IsOperation
  <2>2. v \in User
    BY <1>1, <1>2, <2>1 DEF Stamped, User
  <2>3. SameRest(u, v) /\ v.password = u.password /\ v.must = op.must
    BY <1>1, <1>2 DEF Stamped, User, SameRest
  <2> QED
    BY <2>2, <2>3, AccountsGiven
<1>4. PICK op2 : op2 = Proceed(op)
  OBVIOUS
<1>5. \/ /\ op.do \in Creating /\ IsOperation(op2) /\ Kept(op, op2) /\ op2.todo # <<>>
         /\ Head(op2.todo) = "options"
      \/ op.do \in {"password", "must"} /\ op2 = Over(Ending(op))
  BY <1>1, <1>4, ProceedIs DEF Then, Final, Creating
<1>6. CASE op.do \in Creating
  <2>1. Making(op, u)
    BY <1>1, <1>6 DEF Phase
  <2>2. IsOperation(op2) /\ Kept(op, op2) /\ op2.todo # <<>> /\ Head(op2.todo) = "options"
    BY <1>5, <1>6 DEF Creating
  <2>3. Making(op2, v)
    BY <1>3, <2>1, <2>2 DEF Making, Made, Kept, Chosen, NeverAsked, SameRest
  <2>4. Phase(op2, v)
    BY <1>6, <2>2, <2>3 DEF Phase, Kept
  <2>5. IsAccount(v)
    BY <1>1, <1>3, <2>1 DEF IsAccount, SameRest, Making
  <2>6. ~Never(v)
    BY <1>3, <2>1 DEF Never, Making, Made, SameRest
  <2>7. Asked(op, u, v)
    BY <1>3, <2>6 DEF Asked, SameRest, InForce, MustAndNever
  <2> QED
    BY <1>2, <1>4, <2>2, <2>4, <2>5, <2>7 DEF Steps, Is, Answered, Kept
<1>7. CASE op.do \in {"password", "must"}
  <2>1. Serving(op, u)
    BY <1>1, <1>7 DEF Phase, Creating
  <2>2. op.must => ~Never(u) /\ ~Cannot(u.acl)
    BY <1>7, <2>1 DEF Serving, Granted
  <2>3. IsAccount(v)
    BY <1>1, <1>3, <2>2 DEF IsAccount, SameRest
  <2>4. Asked(op, u, v)
    BY <1>3, <2>2 DEF Asked, SameRest, InForce, MustAndNever, Never
  <2>5. PICK why \in {"ok", "partly"} : op2 = Over(why)
    BY <1>5, <1>7 DEF Creating, Ending
  <2>6. Answered(op, op2, v)
    BY <1>7, <2>5, OverIs DEF Answered, Creating
  <2> QED
    BY <1>2, <1>4, <2>3, <2>4, <2>5, <2>6 DEF Steps, Is, Result
<1> QED
  BY <1>5, <1>6, <1>7

(* Setting a new account's options, the last thing a creation does.        *)
LEMMA OptionsStep ==
  ASSUME NEW op, NEW u, Ready(op, u), u # Absent, Head(op.todo) = "options"
  PROVE  Steps(op, u, Proceed(op), Optioned(op, u))
<1>1. IsOperation(op) /\ Is(u) /\ Phase(op, u) /\ u \in User /\ IsAccount(u)
  BY DEF Ready, Is, IsAccount
<1>2. PICK v : v = Optioned(op, u)
  OBVIOUS
<1>3. /\ v \in User /\ v.acl = u.acl /\ v.groups = u.groups /\ v.primary = u.primary
      /\ v.password = u.password /\ v.must = u.must /\ v # Absent
      /\ "password_never_expires" \in v.flags => NeverAsked(op)
  <2>0. PICK g : g = Apply({}, op.set, op.clear)
    OBVIOUS
  <2>1. PICK f : f = IF op.enabled THEN g \ {"account_disabled"} ELSE g \cup {"account_disabled"}
    OBVIOUS
  <2>2. v = [u EXCEPT !.flags = f]
    BY <1>2, <2>0, <2>1 DEF Optioned
  <2>3. f \subseteq Flag /\ ("password_never_expires" \in f => NeverAsked(op))
    BY <1>1, <2>0, <2>1 DEF IsOperation, Flag, NeverAsked, Apply
  <2>4. v \in User
    BY <1>1, <2>2, <2>3 DEF User
  <2>5. /\ v.acl = u.acl /\ v.groups = u.groups /\ v.primary = u.primary /\ v.password = u.password
        /\ v.must = u.must /\ v.flags = f
    BY <1>1, <2>2 DEF User
  <2> QED
    BY <2>3, <2>4, <2>5, AccountsGiven
<1>4. PICK op2 : op2 = Proceed(op)
  OBVIOUS
<1>5. /\ op.do \in Creating /\ IsOperation(op2) /\ Kept(op, op2) /\ op2.todo # <<>>
      /\ Head(op2.todo) = "made"
  BY <1>1, <1>4, ProceedIs DEF Then, Final, Creating
<1>6. Making(op, u)
  BY <1>1, <1>5 DEF Phase
<1>7. IsAccount(v)
  BY <1>1, <1>3 DEF IsAccount
<1>8. Asked(op, u, v)
  <2>1. ~InForce(op.n, u)
    BY <1>6 DEF InForce, Making, Made
  <2>2. ~MustAndNever(v)
    BY <1>3, <1>6 DEF MustAndNever, Making, Never
  <2> QED
    BY <1>3, <2>1, <2>2 DEF Asked
<1>9. op.do = "copy" => Grouping(op2, v)
  BY <1>3, <1>5, <1>6 DEF Making, Grouping, Kept, Chosen
<1>10. Phase(op2, v)
  BY <1>5, <1>9 DEF Phase, Kept, Creating
<1> QED
  BY <1>2, <1>4, <1>5, <1>7, <1>8, <1>10 DEF Steps, Is, Answered, Kept

(* Writing an attribute beside the options.                                *)
LEMMA TextStep ==
  ASSUME NEW op, NEW u, Ready(op, u), u # Absent, Head(op.todo) = "text"
  PROVE  Steps(op, u, Proceed(op), NewText(op, u))
<1>1. IsOperation(op) /\ Is(u) /\ Phase(op, u) /\ u \in User /\ IsAccount(u)
  BY DEF Ready, Is, IsAccount
<1>2. PICK v : v = NewText(op, u)
  OBVIOUS
<1>3. v \in User /\ SameRest(u, v) /\ v.password = u.password /\ v.must = u.must /\ v # Absent
  <2>1. op.value \in BOOLEAN
    BY <1>1 DEF IsOperation
  <2>2. v \in User
    BY <1>1, <1>2, <2>1 DEF NewText, User
  <2>3. SameRest(u, v) /\ v.password = u.password /\ v.must = u.must
    BY <1>1, <1>2 DEF NewText, User, SameRest
  <2> QED
    BY <2>2, <2>3, AccountsGiven
<1>4. IsAccount(v)
  BY <1>1, <1>3 DEF IsAccount, SameRest
<1>5. Asked(op, u, v)
  BY <1>3 DEF Asked, SameRest, InForce, MustAndNever, Never
<1>6. PICK op2 : op2 = Proceed(op)
  OBVIOUS
<1>7. /\ IsOperation(op2) /\ Kept(op, op2) /\ op2.todo # <<>> /\ Head(op2.todo) = "read"
      /\ op.do = "update"
  BY <1>1, <1>6, ProceedIs DEF Then, Final, Creating
<1>8. Serving(op, u) /\ u = op.before
  BY <1>1, <1>7 DEF Phase, Serving, Creating
<1>9. Granted(op2, v)
  BY <1>3, <1>7, <1>8, SameRoles DEF Serving
<1>12. v = [op2.before EXCEPT !.text = op2.value]
  BY <1>2, <1>7, <1>8 DEF NewText, Kept
<1>10. Serving(op2, v)
  BY <1>3, <1>7, <1>8, <1>9, <1>12 DEF Serving, Kept
<1>11. Phase(op2, v)
  BY <1>7, <1>10 DEF Phase, Kept, Creating
<1> QED
  BY <1>2, <1>4, <1>5, <1>6, <1>7, <1>11 DEF Steps, Is, Answered, Kept

(* The last step of an operation that is neither a creation nor a copy.    *)
LEMMA LastIs ==
  ASSUME NEW op, IsOperation(op), op.do \notin Creating, Head(op.todo) # "rollback",
         Final(op.do, Head(op.todo)), NEW u, NEW v, IsAccount(v), Asked(op, u, v)
  PROVE  Steps(op, u, Proceed(op), v)
<1>1. ~Then(op.do, Head(op.todo), Head(Proceed(op).todo))
  BY DEF Then, Final, Creating
<1>2. PICK why \in {"ok", "partly"} : Proceed(op) = Over(why)
  BY <1>1, ProceedIs DEF Ending
<1>3. Answered(op, Proceed(op), v)
  BY <1>2, OverIs DEF Answered, Creating
<1> QED
  BY <1>2, <1>3 DEF Steps, Is, Result

(* Writing the options back that were read.                                *)
LEMMA UpdateStep ==
  ASSUME NEW op, NEW u, Ready(op, u), u # Absent, Head(op.todo) = "write"
  PROVE  Steps(op, u, Proceed(op), Updated(op, u))
<1>1. IsOperation(op) /\ Is(u) /\ Phase(op, u) /\ u \in User /\ IsAccount(u)
  BY DEF Ready, Is, IsAccount
<1>2. op.do = "update"
  BY <1>1, ProceedIs DEF Then, Final, Creating
<1>3. op.seen = u /\ ~RefusesDisabling(op, u)
  BY <1>1, <1>2 DEF Phase, Serving, Granted, Creating
<1>4. PICK v : v = Updated(op, u)
  OBVIOUS
<1>5. PICK f : f = (u.flags \cup op.set) \ op.clear
  OBVIOUS
<1>6. v = IF f = u.flags THEN u ELSE [u EXCEPT !.flags = f]
  BY <1>3, <1>4, <1>5 DEF Updated, Apply
<1>7. f \subseteq Flag
  BY <1>1, <1>5, UserIs DEF IsOperation
<1>8. /\ v \in User /\ v.acl = u.acl /\ v.groups = u.groups /\ v.primary = u.primary /\ v.must = u.must
      /\ v.flags = f
  BY <1>1, <1>6, <1>7 DEF User
<1>9. IsAccount(v) /\ v # Absent
  BY <1>1, <1>8, AccountsGiven DEF IsAccount
<1>10. Asked(op, u, v)
  <2>1. InForce(op.n, u) => AdministrativeRole(op.n, u)
    BY DEF InForce, AdministrativeRole, TokenGroups
  <2>2. InForce(op.n, u) /\ "account_disabled" \in v.flags => op.confirm
    BY <1>3, <1>5, <1>8, <2>1 DEF RefusesDisabling, InForce
  <2> QED
    BY <1>8, <1>9, <2>2 DEF Asked
<1>11. Final(op.do, Head(op.todo))
  BY <1>2 DEF Final
<1> QED
  BY <1>1, <1>2, <1>4, <1>9, <1>10, <1>11, LastIs DEF Creating

(* Writing the access list back that was read.                             *)
LEMMA AclStep ==
  ASSUME NEW op, NEW u, Ready(op, u), u # Absent, Head(op.todo) = "acl"
  PROVE  Steps(op, u, Proceed(op), Relisted(op, u))
<1>1. IsOperation(op) /\ Is(u) /\ Phase(op, u) /\ u \in User /\ IsAccount(u)
  BY DEF Ready, Is, IsAccount
<1>2. op.do = "cannot"
  BY <1>1, ProceedIs DEF Then, Final, Creating
<1>3. op.seen = u /\ (op.value => ~u.must)
  BY <1>1, <1>2 DEF Phase, Serving, Granted, Creating
<1>4. PICK v : v = Relisted(op, u)
  OBVIOUS
<1>5. PICK acl : acl = WithCannot(u.acl, op.value)
  OBVIOUS
<1>6. /\ acl \in Seq(Ace) /\ (Cannot(acl) <=> op.value) /\ (acl # u.acl => Rewrites(u.acl, acl, op.value))
      /\ op.value \in BOOLEAN
  <2>1. u.acl \in Seq(Ace) /\ op.value \in BOOLEAN
    BY <1>1, UserIs DEF IsOperation
  <2> QED
    BY <1>5, <2>1, WithCannotIs
<1>7. v = IF acl = u.acl THEN u ELSE [u EXCEPT !.acl = acl]
  BY <1>3, <1>4, <1>5 DEF Relisted
<1>8. /\ v \in User /\ v.flags = u.flags /\ v.groups = u.groups /\ v.primary = u.primary
      /\ v.must = u.must /\ v.password = u.password /\ v.acl = acl
  BY <1>1, <1>6, <1>7 DEF User
<1>9. IsAccount(v) /\ v # Absent
  BY <1>1, <1>3, <1>6, <1>8, AccountsGiven DEF IsAccount
<1>10. Asked(op, u, v)
  BY <1>6, <1>8, <1>9 DEF Asked, InForce, MustAndNever, Never
<1>11. Final(op.do, Head(op.todo))
  BY <1>2 DEF Final
<1> QED
  BY <1>1, <1>2, <1>4, <1>9, <1>10, <1>11, LastIs DEF Creating

\* A change that leaves options, password and list alone is asked for by anyone.
LEMMA AskedIs ==
  ASSUME NEW op, NEW u, u # Absent, NEW v, v # Absent, v.flags = u.flags, v.must = u.must,
         v.password = u.password, v.acl = u.acl
  PROVE  Asked(op, u, v)
<1>1. InForce(op.n, u) => "account_disabled" \notin v.flags
  BY DEF InForce
<1>2. MustAndNever(v) => MustAndNever(u)
  BY DEF MustAndNever, Never
<1> QED
  BY <1>1, <1>2 DEF Asked

(* Leaving groups, an account that is gone included.                       *)
LEMMA LeaveStep ==
  ASSUME NEW op, NEW u, Ready(op, u), Head(op.todo) = "leave"
  PROVE  /\ u = Absent => Steps(op, u, Ended(op, "ok"), u)
         /\ u # Absent => Steps(op, u, Proceed(op), Left(op, u))
<1>1. IsOperation(op) /\ Is(u) /\ Phase(op, u)
  BY DEF Ready
<1>2. op.do = "leave"
  BY <1>1, ProceedIs DEF Then, Final, Creating
<1>3. ASSUME u = Absent PROVE Steps(op, u, Ended(op, "ok"), u)
  <2>1. ~Unfinished(op)
    BY <1>1, <1>2 DEF Unfinished, Phase, Serving, Creating
  <2>2. Ended(op, "ok") = Over("ok")
    BY <2>1 DEF Ended
  <2>3. Over("ok").result = "ok" /\ "ok" \in Result
    BY OverIs DEF Result
  <2>4. Asked(op, u, u)
    BY DEF Asked
  <2>5. Answered(op, Over("ok"), u)
    BY <1>2, <2>3 DEF Answered, Creating
  <2> QED
    BY <1>1, <2>2, <2>3, <2>4, <2>5 DEF Steps
<1>4. ASSUME u # Absent PROVE Steps(op, u, Proceed(op), Left(op, u))
  <2>0. u \in User /\ IsAccount(u)
    BY <1>1, <1>4 DEF Is, IsAccount
  <2>1. PICK v : v = Left(op, u)
    OBVIOUS
  <2>2. /\ v \in User /\ v.flags = u.flags /\ v.groups = u.groups \ op.groups /\ v.primary = u.primary
        /\ v.must = u.must /\ v.password = u.password /\ v.acl = u.acl
    BY <2>0, <2>1 DEF User, Left
  <2>3. IsAccount(v) /\ v # Absent
    BY <2>0, <2>2, AccountsGiven DEF IsAccount
  <2>4. Asked(op, u, v)
    BY <1>4, <2>2, <2>3, AskedIs
  <2>5. Final(op.do, Head(op.todo))
    BY <1>2 DEF Final
  <2> QED
    BY <1>1, <1>2, <2>1, <2>3, <2>4, <2>5, LastIs DEF Creating
<1> QED
  BY <1>3, <1>4

(* Joining groups.                                                         *)
LEMMA JoinStep ==
  ASSUME NEW op, NEW u, Ready(op, u), Head(op.todo) = "join"
  PROVE  /\ Steps(op, u, Ended(op, "failed"), u)
         /\ u.primary \notin op.groups =>
              Steps(op, u, Proceed(op), [u EXCEPT !.groups = @ \cup op.groups])
<1>1. IsOperation(op) /\ Is(u) /\ Phase(op, u)
  BY DEF Ready
<1>2. op.do = "join"
  BY <1>1, ProceedIs DEF Then, Final, Creating
<1>3. Steps(op, u, Ended(op, "failed"), u)
  BY <1>1, <1>2, EndedIs
<1>4. ASSUME u.primary \notin op.groups
      PROVE  Steps(op, u, Proceed(op), [u EXCEPT !.groups = @ \cup op.groups])
  <2>0. u # Absent
    BY <1>1, <1>2 DEF Phase, Serving, Creating
  <2>1. u \in User /\ IsAccount(u) /\ op.groups \subseteq GroupName
    BY <1>1, <2>0 DEF Is, IsAccount, IsOperation
  <2>2. PICK v : v = [u EXCEPT !.groups = @ \cup op.groups]
    OBVIOUS
  <2>3. /\ v \in User /\ v.flags = u.flags /\ v.groups = u.groups \cup op.groups /\ v.primary = u.primary
        /\ v.must = u.must /\ v.password = u.password /\ v.acl = u.acl
    BY <2>1, <2>2 DEF User
  <2>4. IsAccount(v) /\ v # Absent
    BY <1>4, <2>1, <2>3, AccountsGiven DEF IsAccount
  <2>5. Asked(op, u, v)
    BY <2>0, <2>3, <2>4, AskedIs
  <2>6. Final(op.do, Head(op.todo))
    BY <1>2 DEF Final
  <2> QED
    BY <1>1, <1>2, <2>2, <2>4, <2>5, <2>6, LastIs DEF Creating
<1> QED
  BY <1>3, <1>4

(* Another primary group leaves the rest of the account as it is.          *)
LEMMA SetPrimaryIs ==
  ASSUME NEW u, u # Absent, IsAccount(u), NEW g \in GroupName, NEW v, v = SetPrimary(u, g)
  PROVE  /\ IsAccount(v) /\ v # Absent /\ v.primary = g
         /\ \A op : Asked(op, u, v)
         /\ g # u.primary => v.groups = (u.groups \ {g}) \cup {u.primary}
<1>1. u \in User /\ u.groups \subseteq GroupName /\ u.primary \in GroupName /\ u.primary \notin u.groups
  BY UserIs DEF IsAccount
<1>2. /\ v \in User /\ v.flags = u.flags /\ v.primary = g
      /\ g # u.primary => v.groups = (u.groups \ {g}) \cup {u.primary}
      /\ g = u.primary => v = u
      /\ v.must = u.must /\ v.password = u.password /\ v.acl = u.acl
  <2>1. CASE g = u.primary
    BY <1>1, <2>1 DEF SetPrimary
  <2>2. CASE g # u.primary
    <3>1. PICK h : h = (u.groups \ {g}) \cup {u.primary}
      OBVIOUS
    <3>2. v = [u EXCEPT !.groups = h, !.primary = g]
      BY <1>1, <2>2, <3>1 DEF SetPrimary, User
    <3>3. h \subseteq GroupName
      BY <1>1, <3>1
    <3> QED
      BY <1>1, <2>2, <3>1, <3>2, <3>3 DEF User
  <2> QED
    BY <2>1, <2>2
<1>3. IsAccount(v) /\ v # Absent
  BY <1>1, <1>2, AccountsGiven DEF IsAccount
<1>4. ASSUME NEW op PROVE Asked(op, u, v)
  BY <1>2, <1>3, AskedIs
<1> QED
  BY <1>2, <1>3, <1>4

(* The account is there, and a copy's is a member of what is wanted.       *)
LEMMA PrimaryMember ==
  ASSUME NEW op, NEW u, Ready(op, u), Head(op.todo) = "primary"
  PROVE  u # Absent /\ (op.do = "copy" => MemberOf(u, Wanted(op)))
<1>1. IsOperation(op) /\ Is(u) /\ Phase(op, u)
  BY DEF Ready
<1>2. op.do \in {"primary", "copy"}
  BY <1>1, ProceedIs DEF Then, Final, Creating
<1>3. u # Absent
  BY <1>1, <1>2 DEF Phase, Serving, Grouping, Creating
<1>4. ASSUME op.do = "copy" PROVE MemberOf(u, Wanted(op))
  <2>1. Grouping(op, u) /\ op.left = {}
    BY <1>1, <1>4 DEF Phase, Creating, Grouping
  <2>2. Chosen(op) = u.groups \cup op.failed
    BY <2>1 DEF Grouping
  <2>3. Wanted(op) = {op.seen.primary} \cap (Chosen(op) \ op.failed)
    BY <1>4 DEF Wanted, Chosen
  <2> QED
    BY <2>2, <2>3 DEF MemberOf
<1> QED
  BY <1>3, <1>4

(* The primary group, by itself or at the end of a copy.                   *)
LEMMA PrimaryStep ==
  ASSUME NEW op, NEW u, Ready(op, u), Head(op.todo) = "primary", NEW v,
         IF Wanted(op) = {} THEN v = u ELSE \E g \in Wanted(op) : v = SetPrimary(u, g)
  PROVE  Steps(op, u, Proceed(op), v)
<1>1. IsOperation(op) /\ Is(u) /\ Phase(op, u)
  BY DEF Ready
<1>2. op.do \in {"primary", "copy"}
  BY <1>1, ProceedIs DEF Then, Final, Creating
<1>3. u # Absent
  BY <1>1, <1>2 DEF Phase, Serving, Grouping, Creating
<1>4. IsAccount(u) /\ op.groups \subseteq GroupName
  BY <1>1, <1>3 DEF Is, IsOperation
<1>5. Wanted(op) \subseteq GroupName
  BY <1>4 DEF Wanted
<1>6. IsAccount(v) /\ v # Absent /\ Asked(op, u, v)
  <2>1. CASE Wanted(op) = {}
    BY <1>3, <1>4, <2>1 DEF Asked
  <2>2. CASE Wanted(op) # {}
    BY <1>3, <1>4, <1>5, <2>2, SetPrimaryIs
  <2> QED
    BY <2>1, <2>2
<1>7. CASE op.do = "primary"
  BY <1>1, <1>6, <1>7, LastIs DEF Final, Creating
<1>8. CASE op.do = "copy"
  <2>1. PICK why : why = Ending(op)
    OBVIOUS
  <2>2. Grouping(op, u) /\ op.left = {} /\ u.primary = DomainUsers
    BY <1>1, <1>8 DEF Phase, Creating, Grouping
  <2>3. /\ Chosen(op) = u.groups \cup op.failed /\ u.groups \cap op.failed = {}
        /\ DomainUsers \notin Chosen(op) /\ Chosen(op) \subseteq op.groups
        /\ TemplateGroups(op.seen) = (op.seen.groups \cup {op.seen.primary}) \ {DomainUsers}
    BY <2>2 DEF Grouping, Chosen, TemplateGroups
  <2>4. Wanted(op) = {op.seen.primary} \cap op.groups \cap (u.groups \ op.failed)
    <3>1. Wanted(op) = {op.seen.primary} \cap (Chosen(op) \ op.failed)
      BY <1>8 DEF Wanted, Chosen
    <3> QED
      BY <2>3, <3>1
  <2>5. ASSUME Wanted(op) = {} PROVE Reported(op, why, v)
    <3>1. v = u
      BY <2>5
    <3>2. op.failed = Chosen(op) \ (v.groups \cup {v.primary})
      BY <2>2, <2>3, <3>1
    <3>3. ASSUME why = "ok", Chosen(op) = TemplateGroups(op.seen)
          PROVE  /\ v.primary = op.seen.primary
                 /\ (v.groups \cup {v.primary}) \ {DomainUsers} = TemplateGroups(op.seen) \ {DomainUsers}
      <4>1. op.failed = {}
        BY <2>1, <3>3 DEF Ending
      <4>2. op.seen.primary \in u.groups \/ op.seen.primary = DomainUsers
        BY <2>3, <3>3, <4>1
      <4>3. op.seen.primary = DomainUsers
        BY <2>3, <2>4, <2>5, <4>1, <4>2
      <4> QED
        BY <2>2, <2>3, <3>1, <3>3, <4>1, <4>3
    <3> HIDE DEF Chosen, TemplateGroups
    <3> QED
      BY <3>2, <3>3 DEF Reported
  <2>6. ASSUME Wanted(op) # {} PROVE Reported(op, why, v)
    <3>1. PICK g \in Wanted(op) : v = SetPrimary(u, g)
      BY <2>6
    <3>2. g = op.seen.primary /\ g \in u.groups /\ g # u.primary /\ g \in GroupName
      BY <1>4, <1>5, <2>4, <3>1 DEF IsAccount
    <3>3. v.primary = g /\ v.groups = (u.groups \ {g}) \cup {DomainUsers}
      <4>1. v.primary = g /\ (g # u.primary => v.groups = (u.groups \ {g}) \cup {u.primary})
        BY <1>3, <1>4, <3>1, <3>2, SetPrimaryIs
      <4> QED
        BY <2>2, <3>2, <4>1
    <3>4. v.groups \cup {v.primary} = u.groups \cup {DomainUsers}
      BY <3>2, <3>3
    <3>5. op.failed = Chosen(op) \ (v.groups \cup {v.primary})
      BY <2>3, <3>4
    <3>6. ASSUME why = "ok", Chosen(op) = TemplateGroups(op.seen)
          PROVE  (v.groups \cup {v.primary}) \ {DomainUsers} = TemplateGroups(op.seen) \ {DomainUsers}
      <4>1. op.failed = {}
        BY <2>1, <3>6 DEF Ending
      <4> QED
        BY <2>3, <3>4, <3>6, <4>1
    <3> QED
      BY <3>2, <3>3, <3>5, <3>6 DEF Reported
  <2>7. Reported(op, why, v)
    BY <2>5, <2>6
  <2>8. PICK op2 : op2 = Proceed(op)
    OBVIOUS
  <2>9. IsOperation(op2) /\ Kept(op, op2) /\ op2.todo # <<>> /\ Head(op2.todo) = "shown"
    BY <1>1, <1>8, <2>8, ProceedIs DEF Then, Final, Creating
  <2>10. Phase(op2, v)
    <3>1. Reported(op2, Ending(op2), v)
      BY <2>1, <2>7, <2>9 DEF Reported, Ending, Chosen, Kept
    <3> QED
      BY <1>6, <1>8, <2>9, <3>1 DEF Phase, Kept, Creating
  <2> QED
    BY <1>6, <2>8, <2>9, <2>10 DEF Steps, Is, Answered, Kept
<1> QED
  BY <1>2, <1>7, <1>8

(* A group of a copy is done.                                              *)
LEMMA GroupedIs ==
  ASSUME NEW op, IsOperation(op), NEW g, NEW op2, op2 = Grouped(op, g)
  PROVE  /\ IsOperation(op2) /\ op2.todo = op.todo /\ op2.left = op.left \ {g}
         /\ op2.do = op.do /\ op2.n = op.n /\ op2.from = op.from /\ op2.groups = op.groups
         /\ op2.seen = op.seen /\ op2.failed = op.failed /\ op2.result = op.result
<1>1. /\ op2.do = op.do /\ op2.n = op.n /\ op2.from = op.from /\ op2.must = op.must
      /\ op2.value = op.value /\ op2.clear = op.clear /\ op2.groups = op.groups
      /\ op2.added = op.added /\ op2.failed = op.failed /\ op2.result = op.result
      /\ op2.todo = op.todo /\ op2.seen = op.seen /\ op2.set = op.set
      /\ op2.left = op.left \ {g} /\ DOMAIN op2 = DOMAIN op
  BY DEF Grouped, IsOperation, Fields
<1>2. IsOperation(op2)
  BY <1>1 DEF IsOperation
<1> QED
  BY <1>1, <1>2

(* A group of a copy is done, and reported as failed.                      *)
Missed(op, g) == [Grouped(op, g) EXCEPT !.failed = @ \cup {g}]

LEMMA FailedIs ==
  ASSUME NEW op, IsOperation(op), NEW g \in GroupName,
         NEW op2, op2 = Missed(op, g)
  PROVE  /\ IsOperation(op2) /\ op2.todo = op.todo /\ op2.left = op.left \ {g}
         /\ op2.do = op.do /\ op2.n = op.n /\ op2.from = op.from /\ op2.groups = op.groups
         /\ op2.seen = op.seen /\ op2.failed = op.failed \cup {g} /\ op2.result = op.result
<1>1. PICK a : a = Grouped(op, g)
  OBVIOUS
<1>2. /\ IsOperation(a) /\ a.todo = op.todo /\ a.left = op.left \ {g}
      /\ a.do = op.do /\ a.n = op.n /\ a.from = op.from /\ a.groups = op.groups
      /\ a.seen = op.seen /\ a.failed = op.failed /\ a.result = op.result
  BY <1>1, GroupedIs
<1>3. /\ op2.do = a.do /\ op2.n = a.n /\ op2.from = a.from /\ op2.must = a.must
      /\ op2.value = a.value /\ op2.clear = a.clear /\ op2.groups = a.groups
      /\ op2.added = a.added /\ op2.failed = a.failed \cup {g} /\ op2.result = a.result
      /\ op2.todo = a.todo /\ op2.seen = a.seen /\ op2.set = a.set /\ op2.left = a.left
      /\ DOMAIN op2 = DOMAIN a
  BY <1>1, <1>2 DEF Missed, IsOperation, Fields
<1>4. IsOperation(op2)
  BY <1>2, <1>3 DEF IsOperation
<1> QED
  BY <1>2, <1>3, <1>4

(* A copy's next group.                                                    *)
LEMMA JoinNextStep ==
  ASSUME NEW op, NEW u, Ready(op, u), Head(op.todo) = "groups"
  PROVE  /\ u # Absent
         /\ op.left = {} => Steps(op, u, Proceed(op), u)
         /\ \A g \in op.left :
              /\ g # u.primary
              /\ Steps(op, u, Grouped(op, g), [u EXCEPT !.groups = @ \cup {g}])
              /\ Steps(op, u, [Grouped(op, g) EXCEPT !.failed = @ \cup {g}], u)
<1>1. IsOperation(op) /\ Is(u) /\ Phase(op, u) /\ op.todo # <<>>
  <2>1. IsOperation(op) => op.todo # <<>>
    BY DEF IsOperation, OnWay
  <2> QED
    BY <2>1 DEF Ready
<1>2. op.do = "copy"
  BY <1>1, ProceedIs DEF Then, Final, Creating
<1>3. Grouping(op, u)
  BY <1>1, <1>2 DEF Phase, Creating
<1>4. ASSUME op.left = {} PROVE Steps(op, u, Proceed(op), u)
  <2>1. PICK op2 : op2 = Proceed(op)
    OBVIOUS
  <2>2. IsOperation(op2) /\ Kept(op, op2) /\ op2.todo # <<>> /\ Head(op2.todo) = "primary"
    BY <1>1, <1>2, <2>1, ProceedIs DEF Then, Final, Creating
  <2>3. Grouping(op2, u)
    BY <1>3, <1>4, <2>2 DEF Grouping, Kept, Chosen
  <2>4. Phase(op2, u)
    BY <1>2, <2>2, <2>3 DEF Phase, Kept, Creating
  <2> QED
    BY <1>1, <2>1, <2>2, <2>4, StaysIs DEF Kept
<1>5. ASSUME NEW g \in op.left
      PROVE  /\ g # u.primary
             /\ Steps(op, u, Grouped(op, g), [u EXCEPT !.groups = @ \cup {g}])
             /\ Steps(op, u, [Grouped(op, g) EXCEPT !.failed = @ \cup {g}], u)
  <2>1. u # Absent /\ u.primary = DomainUsers /\ g \in Chosen(op) /\ g \in GroupName
    BY <1>1, <1>3 DEF Grouping, IsOperation
  <2>2. g # u.primary
    BY <2>1 DEF Chosen, TemplateGroups
  <2>3. Steps(op, u, Grouped(op, g), [u EXCEPT !.groups = @ \cup {g}])
    <3>1. PICK op2 : op2 = Grouped(op, g)
      OBVIOUS
    <3>2. /\ IsOperation(op2) /\ op2.todo = op.todo /\ op2.left = op.left \ {g}
          /\ op2.do = op.do /\ op2.n = op.n /\ op2.from = op.from /\ op2.groups = op.groups
          /\ op2.seen = op.seen /\ op2.failed = op.failed /\ op2.result = op.result
      BY ONLY <1>1, <3>1, GroupedIs
    <3>3. PICK v : v = [u EXCEPT !.groups = @ \cup {g}]
      OBVIOUS
    <3>4. u \in User /\ IsAccount(u)
      BY <1>1, <2>1 DEF Is, IsAccount
    <3>5. /\ v \in User /\ v.flags = u.flags /\ v.groups = u.groups \cup {g} /\ v.primary = u.primary
          /\ v.must = u.must /\ v.password = u.password /\ v.acl = u.acl
      BY <2>1, <3>3, <3>4 DEF User
    <3>6. IsAccount(v) /\ v # Absent
      BY <2>2, <3>4, <3>5, AccountsGiven DEF IsAccount
    <3>7. Asked(op, u, v)
      BY <2>1, <3>5, <3>6, AskedIs
    <3>8. Chosen(op2) = Chosen(op)
      BY <3>2 DEF Chosen
    <3>9. Grouping(op2, v)
      BY <1>3, <2>1, <3>2, <3>5, <3>6, <3>8 DEF Grouping
    <3>10. Phase(op2, v)
      BY <1>2, <3>2, <3>9 DEF Phase, Creating
    <3> QED
      BY <1>1, <3>1, <3>2, <3>3, <3>6, <3>7, <3>10 DEF Steps, Is, Answered
  <2>4. Steps(op, u, [Grouped(op, g) EXCEPT !.failed = @ \cup {g}], u)
    <3>1. PICK op2 : op2 = Missed(op, g)
      OBVIOUS
    <3>2. /\ IsOperation(op2) /\ op2.todo = op.todo /\ op2.left = op.left \ {g}
          /\ op2.do = op.do /\ op2.n = op.n /\ op2.from = op.from /\ op2.groups = op.groups
          /\ op2.seen = op.seen /\ op2.failed = op.failed \cup {g} /\ op2.result = op.result
      BY ONLY <1>1, <2>1, <3>1, FailedIs
    <3>3. Chosen(op2) = Chosen(op)
      BY <3>2 DEF Chosen
    <3>4. Grouping(op2, u)
      BY <1>3, <2>1, <3>2, <3>3 DEF Grouping
    <3>5. Phase(op2, u)
      BY <1>2, <3>2, <3>4 DEF Phase, Creating
    <3> QED
      BY <1>1, <3>1, <3>2, <3>5, StaysIs DEF Missed
  <2> QED
    BY <2>2, <2>3, <2>4
<1>6. u # Absent
  BY <1>3 DEF Grouping
<1> QED
  BY <1>4, <1>5, <1>6

(* Deleting an account.                                                    *)
LEMMA DeleteStep ==
  ASSUME NEW op, NEW u, Ready(op, u), Head(op.todo) = "delete"
  PROVE  u # Absent /\ Steps(op, u, Over("ok"), Absent)
<1>1. IsOperation(op) /\ Is(u) /\ Phase(op, u)
  BY DEF Ready
<1>2. op.do = "delete"
  BY <1>1, ProceedIs DEF Then, Final, Creating
<1>7. u # Absent
  BY <1>1, <1>2 DEF Phase, Serving, Creating
<1>3. op.n # Administrator /\ (op.confirm \/ ~AdministrativeRole(op.n, u))
  BY <1>1, <1>2 DEF Phase, Serving, Granted, Creating
<1>4. InForce(op.n, u) => AdministrativeRole(op.n, u)
  BY DEF InForce, AdministrativeRole, TokenGroups
<1>5. Asked(op, u, Absent)
  BY <1>3, <1>4 DEF Asked, MustAndNever
<1>6. Answered(op, Over("ok"), Absent)
  BY <1>2, OverIs DEF Answered, Creating
<1> QED
  BY <1>5, <1>6, <1>7 DEF Steps, Is, Result

(* Deleting the account of a creation that failed.                         *)
LEMMA RollbackStep ==
  ASSUME NEW op, NEW u, Ready(op, u), Head(op.todo) = "rollback"
  PROVE  Steps(op, u, Over(op.result), Absent) /\ Steps(op, u, Over(op.result), u)
<1>1. Is(u) /\ Made(op, u) /\ op.result \in {"refused", "failed"}
  BY DEF Ready, Phase
<1>2. ~InForce(op.n, u)
  BY <1>1 DEF Made, InForce
<1>3. Asked(op, u, Absent)
  BY <1>2 DEF Asked, MustAndNever
<1>4. Answered(op, Over(op.result), Absent) /\ Answered(op, Over(op.result), u)
  BY <1>1, OverIs DEF Answered, Made, MayLeave
<1>5. Asked(op, u, u)
  BY DEF Asked
<1> QED
  BY <1>1, <1>3, <1>4, <1>5 DEF Steps, Is, Result

(* Reading the account back for the answer.                                *)
LEMMA GetUserStep ==
  ASSUME NEW op, NEW u, Ready(op, u), Head(op.todo) \in {"made", "shown"}
  PROVE  Steps(op, u, Ended(op, "failed"), u) /\ Steps(op, u, Proceed(op), u)
<1>1. IsOperation(op) /\ Is(u) /\ Phase(op, u) /\ Head(op.todo) # "rollback"
  BY DEF Ready
<1>2. PICK op2 : op2 = Proceed(op)
  OBVIOUS
<1>3. Steps(op, u, Ended(op, "failed"), u)
  BY <1>1, EndedIs
<1>4. CASE Head(op.todo) = "made" /\ op.do = "copy"
  <2>1. IsOperation(op2) /\ Kept(op, op2) /\ op2.todo # <<>> /\ Head(op2.todo) = "groups"
    BY <1>1, <1>2, <1>4, ProceedIs DEF Then, Final, Creating
  <2>2. Grouping(op2, u)
    BY <1>1, <1>4, <2>1 DEF Phase, Grouping, Kept, Chosen
  <2>3. Phase(op2, u)
    BY <1>4, <2>1, <2>2 DEF Phase, Kept, Creating
  <2> QED
    BY <1>1, <1>2, <1>3, <2>1, <2>3, StaysIs DEF Kept
<1>5. CASE ~(Head(op.todo) = "made" /\ op.do = "copy")
  <2>1. op2 = Over(Ending(op)) /\ Final(op.do, Head(op.todo))
    BY <1>1, <1>2, <1>5, ProceedIs DEF Then, Final, Creating
  <2>2. Ending(op) \in {"ok", "partly"}
    BY DEF Ending
  <2>3. op.do = "copy" => Reported(op, Ending(op), u)
    BY <1>1, <1>5 DEF Phase
  <2>4. op.do \in Creating
    BY <1>5, <2>1 DEF Final, Creating
  <2>5. Answered(op, op2, u)
    BY <2>1, <2>2, <2>3, <2>4, OverIs DEF Answered
  <2>6. Asked(op, u, u)
    BY DEF Asked
  <2> QED
    BY <1>1, <1>2, <1>3, <2>1, <2>2, <2>5, <2>6 DEF Steps, Result
<1> QED
  BY <1>4, <1>5

(* What becomes of an operation when the connection is lost under it.      *)
LEMMA LostStep ==
  ASSUME NEW op, NEW u, Ready(op, u), Head(op.todo) # "rollback"
  PROVE  /\ Head(op.todo) = "groups" =>
              \A g \in op.left : Steps(op, u, [Grouped(op, g) EXCEPT !.failed = @ \cup {g}], u)
         /\ Head(op.todo) = "primary" /\ op.do = "copy" /\ Wanted(op) # {} =>
              Steps(op, u, Proceed([op EXCEPT !.result = "partly"]), u)
         /\ ~(op.do = "copy" /\ Head(op.todo) \in {"groups", "primary"}) =>
              Steps(op, u, Ended(op, "failed"), u)
<1>1. IsOperation(op) /\ Is(u) /\ Phase(op, u)
  BY DEF Ready
<1>2. ASSUME Head(op.todo) = "primary", op.do = "copy"
      PROVE  Steps(op, u, Proceed([op EXCEPT !.result = "partly"]), u)
  <2>1. Grouping(op, u) /\ op.left = {}
    BY <1>1, <1>2 DEF Phase, Creating, Grouping
  <2>2. DomainUsers \notin Chosen(op) /\ u.primary = DomainUsers
    BY <2>1 DEF Grouping, Chosen, TemplateGroups
  <2>3. op.failed = Chosen(op) \ (u.groups \cup {u.primary})
    BY <2>1, <2>2 DEF Grouping
  <2>4. Reported(op, "partly", u)
    BY <2>3 DEF Reported
  <2>5. PICK op1 : op1 = [op EXCEPT !.result = "partly"]
    OBVIOUS
  <2>6. /\ op1.do = op.do /\ op1.n = op.n /\ op1.from = op.from /\ op1.must = op.must /\ op1.value = op.value
        /\ op1.set = op.set /\ op1.clear = op.clear /\ op1.groups = op.groups /\ op1.added = op.added
        /\ op1.left = op.left /\ op1.failed = op.failed /\ op1.todo = op.todo /\ op1.seen = op.seen
        /\ op1.result = "partly" /\ DOMAIN op1 = DOMAIN op
    BY <1>1, <2>5 DEF IsOperation, Fields
  <2>7. IsOperation(op1)
    BY <1>1, <2>6 DEF IsOperation, Result
  <2>8. PICK op2 : op2 = Proceed(op1)
    OBVIOUS
  <2>9. IsOperation(op2) /\ Kept(op1, op2) /\ op2.todo # <<>> /\ Head(op2.todo) = "shown"
    BY <1>2, <2>6, <2>7, <2>8, ProceedIs DEF Then, Final, Creating
  <2>10. Reported(op2, Ending(op2), u)
    <3>1. Ending(op2) = "partly"
      BY <2>6, <2>9 DEF Ending, Kept
    <3> QED
      BY <2>4, <2>6, <2>9, <3>1 DEF Reported, Chosen, Kept
  <2>11. Phase(op2, u)
    BY <1>2, <2>1, <2>6, <2>9, <2>10 DEF Phase, Grouping, Kept, Creating
  <2>12. op2.n = op.n /\ op2.from = op.from
    BY <2>6, <2>9 DEF Kept
  <2> QED
    BY <1>1, <2>5, <2>8, <2>9, <2>11, <2>12, StaysIs
<1>3. Head(op.todo) = "groups" =>
        \A g \in op.left : Steps(op, u, [Grouped(op, g) EXCEPT !.failed = @ \cup {g}], u)
  BY JoinNextStep
<1>4. ~(op.do = "copy" /\ Head(op.todo) \in {"groups", "primary"}) => Steps(op, u, Ended(op, "failed"), u)
  BY <1>1, EndedIs
<1> QED
  BY <1>2, <1>3, <1>4

(***************************************************************************)
(* The invariant, and what a step of a session does to it                  *)
(***************************************************************************)
Working(op) == (\E why \in Result : op = Over(why)) \/ IsOperation(op)

AInv ==
  /\ accounts = [n \in Username |-> accounts[n]] /\ \A n \in Username : Is(accounts[n])
  /\ acting = [a \in AAdmin |-> acting[a]] /\ \A a \in AAdmin : Working(acting[a])
  /\ \A a \in AAdmin : Busy(a) => Phase(acting[a], accounts[acting[a].n])
  /\ \A a \in AAdmin, b \in AAdmin :
       a # b /\ Busy(a) /\ Busy(b) =>
         {acting[a].n, acting[a].from} \cap {acting[b].n, acting[b].from} = {}
  /\ opsBegun \in 0..MaxAccountOps

Deeds == AsFound /\ AdminConfirmed /\ ReportTrue /\ Rewritten /\ OnlyOptions

\* Session a's operation becomes op2, and its account v.
Moves(a, op2, v) ==
  /\ a \in AAdmin /\ Busy(a)
  /\ acting' = [acting EXCEPT ![a] = op2]
  /\ accounts' = [accounts EXCEPT ![acting[a].n] = v]
  /\ opsBegun' = opsBegun
  /\ Steps(acting[a], accounts[acting[a].n], op2, v)

(* A session at work has an operation ready for its next step.             *)
LEMMA BusyIs ==
  ASSUME AInv, NEW a \in AAdmin, Busy(a)
  PROVE  /\ IsOperation(acting[a]) /\ acting[a].n \in Username
         /\ Ready(acting[a], accounts[acting[a].n])
         /\ accounts = [accounts EXCEPT ![acting[a].n] = accounts[acting[a].n]]
<1>1. IsOperation(acting[a])
  BY OverIs DEF AInv, Working, Busy
<1>2. acting[a].n \in Username
  BY <1>1 DEF IsOperation
<1>3. Ready(acting[a], accounts[acting[a].n])
  BY <1>1, <1>2 DEF AInv, Ready
<1>4. accounts = [accounts EXCEPT ![acting[a].n] = accounts[acting[a].n]]
  BY DEF AInv
<1> QED
  BY <1>1, <1>2, <1>3, <1>4

(* An operation under way has steps left.                                  *)
LEMMA OperationBusy ==
  ASSUME NEW op, IsOperation(op)
  PROVE  op.todo # <<>>
<1>1. <<"rollback">> # <<>>
  OBVIOUS
<1> QED
  BY <1>1, Onward DEF IsOperation

(* A move keeps the invariant: no other operation's account is touched.    *)
LEMMA MovesKeeps ==
  ASSUME AInv, NEW a, NEW op2, NEW v, Moves(a, op2, v)
  PROVE  AInv'
<1>1. /\ a \in AAdmin /\ Busy(a) /\ IsOperation(acting[a]) /\ acting[a].n \in Username
  BY BusyIs DEF Moves
<1>2. PICK n : n = acting[a].n
  OBVIOUS
<1>3. /\ accounts'[n] = v /\ \A m \in Username : m # n => accounts'[m] = accounts[m]
      /\ accounts' = [m \in Username |-> accounts'[m]]
  BY <1>1, <1>2 DEF Moves, AInv
<1>4. /\ acting'[a] = op2 /\ \A b \in AAdmin : b # a => acting'[b] = acting[b]
      /\ acting' = [b \in AAdmin |-> acting'[b]]
  BY <1>1 DEF Moves, AInv
<1>5. /\ Is(v) /\ Working(op2)
      /\ op2.todo # <<>> => op2.n = n /\ op2.from = acting[a].from /\ Phase(op2, v)
  BY <1>2, OverIs DEF Moves, Steps, Working
<1>6. \A m \in Username : Is(accounts'[m])
  BY <1>2, <1>1, <1>3, <1>5 DEF AInv
<1>7. \A b \in AAdmin : Working(acting'[b])
  BY <1>4, <1>5 DEF AInv
<1>8. ASSUME NEW b \in AAdmin, Busy(b)' PROVE Phase(acting'[b], accounts'[acting'[b].n])
  <2>1. CASE b = a
    BY <1>3, <1>4, <1>5, <1>8, <2>1 DEF Busy
  <2>2. CASE b # a
    <3>1. acting'[b] = acting[b] /\ Busy(b)
      BY <1>4, <1>8, <2>2 DEF Busy
    <3>2. acting[b].n # n /\ acting[b].n \in Username
      BY <1>1, <1>2, <2>2, <3>1, BusyIs DEF AInv
    <3> QED
      BY <1>3, <3>1, <3>2 DEF AInv
  <2> QED
    BY <2>1, <2>2
<1>9. ASSUME NEW b \in AAdmin, NEW c \in AAdmin, b # c, Busy(b)', Busy(c)'
      PROVE  {acting'[b].n, acting'[b].from} \cap {acting'[c].n, acting'[c].from} = {}
  <2>1. ASSUME NEW d \in AAdmin, Busy(d)'
        PROVE  Busy(d) /\ acting'[d].n = acting[d].n /\ acting'[d].from = acting[d].from
    BY <1>1, <1>2, <1>4, <1>5, <2>1 DEF Busy
  <2> QED
    BY <1>9, <2>1 DEF AInv
<1>10. opsBegun' \in 0..MaxAccountOps
  BY DEF Moves, AInv
<1> QED
  BY <1>3, <1>4, <1>6, <1>7, <1>8, <1>9, <1>10 DEF AInv

(* A move does what was asked and answered.                                *)
LEMMA MovesAnswer ==
  ASSUME AInv, NEW a, NEW op2, NEW v, Moves(a, op2, v)
  PROVE  Deeds
<1>1. /\ a \in AAdmin /\ Busy(a) /\ IsOperation(acting[a]) /\ acting[a].n \in Username
  BY BusyIs DEF Moves
<1>2. PICK op : op = acting[a]
  OBVIOUS
<1>3. PICK u : u = accounts[op.n]
  OBVIOUS
<1>4. /\ accounts'[op.n] = v /\ \A m \in Username : m # op.n => accounts'[m] = accounts[m]
  BY <1>1, <1>2 DEF Moves, AInv
<1>5. /\ acting'[a] = op2 /\ \A b \in AAdmin : b # a => acting'[b] = acting[b]
  BY <1>1 DEF Moves, AInv
<1>6. Is(v) /\ Answered(op, op2, v) /\ Asked(op, u, v)
  BY <1>2, <1>3 DEF Moves, Steps
<1>7. ASSUME NEW b \in AAdmin, NEW R, Ends(b, R)
      PROVE  b = a /\ op2.todo = <<>> /\ op2.result \in R
  <2>1. Busy(b) /\ ~Busy(b)' /\ acting'[b].result \in R
    BY <1>7 DEF Ends
  <2>2. b = a
    BY <1>5, <2>1 DEF Busy
  <2> QED
    BY <1>5, <2>1, <2>2 DEF Busy
<1>8. AsFound
  <2>1. SUFFICES ASSUME NEW b \in AAdmin,
                        Ends(b, IF acting[b].do \in {"create", "copy"} THEN {"refused", "failed"} ELSE {"refused"})
                 PROVE  MayLeave(acting[b], accounts'[acting[b].n])
    BY DEF AsFound
  <2>2. /\ b = a /\ op2.todo = <<>>
        /\ op2.result \in IF op.do \in Creating THEN {"refused", "failed"} ELSE {"refused"}
    BY <1>2, <1>7, <2>1 DEF Creating
  <2> QED
    BY <1>2, <1>4, <1>6, <2>2 DEF Answered
<1>9. ReportTrue
  <2>1. SUFFICES ASSUME NEW b \in AAdmin, acting[b].do = "copy", Ends(b, {"ok", "partly"})
                 PROVE  LET has == accounts'[acting[b].n].groups \cup {accounts'[acting[b].n].primary}
                            chosen == acting[b].groups \cap TemplateGroups(acting[b].seen)
                        IN /\ acting[b].failed = chosen \ has
                           /\ Ends(b, {"ok"}) /\ chosen = TemplateGroups(acting[b].seen) =>
                                /\ accounts'[acting[b].n].primary = acting[b].seen.primary
                                /\ has \ {DomainUsers} = TemplateGroups(acting[b].seen) \ {DomainUsers}
    BY DEF ReportTrue
  <2>2. b = a /\ op2.todo = <<>> /\ op2.result \in {"ok", "partly"}
    BY <1>7, <2>1
  <2>3. Reported(op, op2.result, v)
    BY <1>2, <1>6, <2>1, <2>2 DEF Answered
  <2>4. Ends(b, {"ok"}) => op2.result = "ok"
    BY <1>7
  <2> QED
    BY <1>2, <1>4, <2>2, <2>3, <2>4 DEF Reported, Chosen
<1>10. AdminConfirmed
  <2>1. SUFFICES ASSUME NEW n \in Present, InForce(n, accounts[n]),
                        \/ accounts'[n] = Absent
                        \/ accounts'[n] # accounts[n] /\ "account_disabled" \in accounts'[n].flags
                 PROVE  \E b \in AAdmin : Busy(b) /\ acting[b].n = n /\ acting[b].confirm
    BY DEF AdminConfirmed, InForce
  <2>2. n = op.n /\ u # Absent /\ u # v
    BY <1>3, <1>4, <2>1 DEF Present
  <2>3. op.confirm
    BY <1>3, <1>4, <1>6, <2>1, <2>2 DEF Asked
  <2> QED
    BY <1>1, <1>2, <2>2, <2>3
<1>11. Rewritten
  <2>1. SUFFICES ASSUME NEW n \in Present, accounts'[n] # Absent, accounts'[n].acl # accounts[n].acl
                 PROVE  /\ Rewrites(accounts[n].acl, accounts'[n].acl, op.value)
                        /\ At(a, "acl") /\ acting[a].n = n
                        /\ Cannot(accounts'[n].acl) = acting[a].value
    BY <1>1 DEF Rewritten, Rewrites
  <2>2. n = op.n /\ u # Absent /\ v # Absent /\ u # v
    BY <1>3, <1>4, <2>1 DEF Present
  <2>3. Head(op.todo) = "acl" /\ Rewrites(u.acl, v.acl, op.value) /\ (Cannot(v.acl) <=> op.value)
    BY <1>3, <1>4, <1>6, <2>1, <2>2 DEF Asked
  <2>4. Cannot(v.acl) = op.value
    BY <1>1, <1>2, <2>3 DEF IsOperation, Cannot
  <2> QED
    BY <1>1, <1>2, <1>3, <1>4, <2>2, <2>3, <2>4 DEF At
<1>12. OnlyOptions
  <2>1. SUFFICES ASSUME NEW n \in Username, MustAndNever(accounts'[n]), ~MustAndNever(accounts[n])
                 PROVE  At(a, "write") /\ acting[a].n = n
    BY <1>1 DEF OnlyOptions
  <2>2. n = op.n /\ u # v
    BY <1>3, <1>4, <2>1
  <2> QED
    BY <1>1, <1>2, <1>3, <1>4, <1>6, <2>1, <2>2 DEF Asked, At
<1> QED
  BY <1>8, <1>9, <1>10, <1>11, <1>12 DEF Deeds

(* A step that touches no account and ends nothing asks nothing of anyone. *)
LEMMA StillAnswers ==
  ASSUME accounts' = accounts, \A a \in AAdmin : Busy(a) => Busy(a)'
  PROVE  Deeds
<1>1. \A a \in AAdmin : \A R : ~Ends(a, R)
  BY DEF Ends
<1>2. AsFound /\ ReportTrue
  BY <1>1 DEF AsFound, ReportTrue
<1>3. AdminConfirmed /\ Rewritten /\ OnlyOptions
  BY DEF AdminConfirmed, Rewritten, OnlyOptions, Present
<1> QED
  BY <1>2, <1>3 DEF Deeds

(***************************************************************************)
(* The actions                                                             *)
(***************************************************************************)
LEMMA AtIs ==
  ASSUME AInv, NEW a \in AAdmin, NEW s, At(a, s)
  PROVE  /\ Busy(a) /\ Head(acting[a].todo) = s /\ acting[a].n \in Username
         /\ IsOperation(acting[a]) /\ Ready(acting[a], accounts[acting[a].n])
         /\ accounts = [accounts EXCEPT ![acting[a].n] = accounts[acting[a].n]]
  BY BusyIs DEF At

(* The directory at the start.                                             *)
LEMMA InitKeeps == AccountsInit => AInv
<1> SUFFICES ASSUME AccountsInit PROVE AInv
  OBVIOUS
<1>1. accounts = [n \in Username |-> accounts[n]] /\ \A n \in Username : Is(accounts[n])
  <2>1. accounts = Existing
    BY DEF AccountsInit
  <2>2. Existing \in [Username -> User \cup {Absent}]
    BY AccountsGiven
  <2>3. ASSUME NEW n \in Username PROVE Is(Existing[n])
    BY <2>2, AccountsGiven DEF Is, IsAccount
  <2> QED
    BY <2>1, <2>2, <2>3
<1>2. \A a \in AAdmin : acting[a] = Over("ok")
  BY DEF AccountsInit
<1>3. acting = [a \in AAdmin |-> acting[a]]
  BY <1>2 DEF AccountsInit
<1>4. \A a \in AAdmin : Working(acting[a]) /\ ~Busy(a)
  BY <1>2, OverIs DEF Working, Busy, Result
<1>5. opsBegun \in 0..MaxAccountOps
  BY AccountConstants DEF AccountsInit
<1> QED
  BY <1>1, <1>3, <1>4, <1>5 DEF AInv

(* An operation that begins: its plan is ahead of it, nothing is done yet. *)
LEMMA BegunIs ==
  ASSUME NEW r \in Request, NEW u,
         NEW op, op = Extended(r, [todo |-> Plan(r), result |-> "none", seen |-> Absent,
                                   before |-> u, added |-> FALSE, left |-> {}, failed |-> {}])
  PROVE  IsOperation(op) /\ Phase(op, u) /\ op.n = r.n /\ op.from = r.from
<1>1. PICK f : f = [todo |-> Plan(r), result |-> "none", seen |-> Absent,
                    before |-> u, added |-> FALSE, left |-> {}, failed |-> {}]
  OBVIOUS
<1>2. DOMAIN r = {"do", "n", "from", "enabled", "password", "must", "never", "set", "clear", "groups",
                  "confirm", "value", "odd"}
  BY DEF Request
<1>3. /\ r.do \in Deed /\ r.n \in Username /\ r.from \in Username /\ r.must \in BOOLEAN /\ r.value \in BOOLEAN
      /\ r.set \subseteq Flag /\ r.clear \subseteq Flag /\ r.groups \subseteq GroupName
  BY DEF Request, Deed
<1>4. /\ DOMAIN f = {"todo", "result", "seen", "before", "added", "left", "failed"}
      /\ f.todo = Plan(r) /\ f.result = "none" /\ f.seen = Absent /\ f.before = u /\ f.added = FALSE
      /\ f.left = {} /\ f.failed = {}
  BY <1>1
<1>5. op = Extended(r, f)
  BY <1>1
<1>6. /\ DOMAIN op = DOMAIN r \cup DOMAIN f
      /\ \A x \in DOMAIN r : op[x] = r[x]
      /\ \A x \in DOMAIN f \ DOMAIN r : op[x] = f[x]
  BY ONLY <1>5 DEF Extended
<1>7. /\ op.do = r.do /\ op.n = r.n /\ op.from = r.from /\ op.must = r.must /\ op.value = r.value
      /\ op.set = r.set /\ op.clear = r.clear /\ op.groups = r.groups
  <2>1. \A x \in {"do", "n", "from", "must", "value", "set", "clear", "groups"} : x \in DOMAIN r
    BY <1>2
  <2> QED
    BY <1>6, <2>1
<1>8. /\ op.todo = Plan(r) /\ op.result = "none" /\ op.before = u /\ op.added = FALSE
      /\ op.left = {} /\ op.failed = {}
  <2>1. \A x \in {"todo", "result", "before", "added", "left", "failed"} : x \in DOMAIN f \ DOMAIN r
    BY <1>2, <1>4
  <2> QED
    BY <1>4, <1>6, <2>1
<1>9. PICK p : p = Plan(r)
  OBVIOUS
<1>10. /\ OnWay(r.do, p) /\ p[1] \in {"template", "refuse", "leave"}
       /\ (p[1] = "template" <=> r.do = "copy") /\ (p[1] = "leave" <=> r.do = "leave")
  BY <1>3, <1>9, PlanOnWay
<1>11. Head(p) = p[1]
  BY <1>10 DEF OnWay
<1>12. IsOperation(op)
  <2>1. "none" \in Result
    BY DEF Result
  <2>2. Fields \subseteq DOMAIN op
    BY <1>2, <1>4, <1>6 DEF Fields
  <2> QED
    BY <1>3, <2>2, <1>7, <1>8, <1>9, <1>10, <2>1 DEF IsOperation
<1>13. Head(op.todo) = p[1]
  BY <1>8, <1>9, <1>11
<1>14. Opening(op, u) \/ op.do \notin Creating
  BY <1>7, <1>8, <1>10, <1>13 DEF Opening, Creating
<1>15. op.do \notin Creating => Serving(op, u)
  BY <1>7, <1>8, <1>10, <1>13 DEF Serving, Creating
<1>16. Phase(op, u)
  BY <1>10, <1>13, <1>14, <1>15 DEF Phase
<1> QED
  BY <1>7, <1>12, <1>16

(* Beginning an operation.                                                 *)
LEMMA BeginKeeps ==
  ASSUME AOverlapping = FALSE, AInv, NEW a \in AAdmin, Begin(a)
  PROVE  AInv' /\ Deeds
<1>1. PICK r \in AAsked :
        /\ Apart(a, r)
        /\ acting' = [acting EXCEPT ![a] = Extended(r,
             [todo |-> Plan(r), result |-> "none", seen |-> Absent,
              before |-> accounts[r.n], added |-> FALSE, left |-> {}, failed |-> {}])]
  BY AccountConstants DEF Begin
<1>2. r \in Request
  BY AskedAccounts
<1>3. PICK op : op = Extended(r,
             [todo |-> Plan(r), result |-> "none", seen |-> Absent,
              before |-> accounts[r.n], added |-> FALSE, left |-> {}, failed |-> {}])
  OBVIOUS
<1>4. IsOperation(op) /\ Phase(op, accounts[r.n]) /\ op.n = r.n /\ op.from = r.from /\ op.todo # <<>>
  BY <1>2, <1>3, BegunIs, OperationBusy
<1>5. acting' = [acting EXCEPT ![a] = op]
  BY <1>1, <1>3
<1>6. /\ acting'[a] = op /\ \A b \in AAdmin : b # a => acting'[b] = acting[b]
      /\ acting' = [b \in AAdmin |-> acting'[b]]
  BY <1>5 DEF AInv
<1>7. ~Busy(a) /\ opsBegun < MaxAccountOps /\ opsBegun' = opsBegun + 1 /\ accounts' = accounts
  BY DEF Begin
<1>8. \A b \in AAdmin : Working(acting'[b])
  BY <1>4, <1>6 DEF AInv, Working
<1>9. ASSUME NEW b \in AAdmin, Busy(b)' PROVE Phase(acting'[b], accounts'[acting'[b].n])
  BY <1>4, <1>6, <1>7, <1>9 DEF AInv, Busy
<1>10. ASSUME NEW b \in AAdmin, NEW c \in AAdmin, b # c, Busy(b)', Busy(c)'
       PROVE  {acting'[b].n, acting'[b].from} \cap {acting'[c].n, acting'[c].from} = {}
  <2>1. \A d \in AAdmin : d # a /\ Busy(d)' => Busy(d)
    BY <1>6 DEF Busy
  <2>2. \A d \in AAdmin \ {a} : Busy(d) => {acting[d].n, acting[d].from} \cap {r.n, r.from} = {}
    BY <1>1 DEF Apart
  <2>3. CASE b = a
    BY <1>4, <1>6, <1>10, <2>1, <2>2, <2>3
  <2>4. CASE c = a
    BY <1>4, <1>6, <1>10, <2>1, <2>2, <2>4
  <2>5. CASE b # a /\ c # a
    BY <1>6, <1>10, <2>1, <2>5 DEF AInv
  <2> QED
    BY <2>3, <2>4, <2>5
<1>11. opsBegun' \in 0..MaxAccountOps
  BY <1>7, AccountConstants DEF AInv
<1>12. AInv'
  BY <1>6, <1>7, <1>8, <1>9, <1>10, <1>11 DEF AInv
<1>13. \A b \in AAdmin : Busy(b) => Busy(b)'
  BY <1>6, <1>7 DEF Busy
<1> QED
  BY <1>7, <1>12, <1>13, StillAnswers

(* Every other action is a move of its session.                            *)
LEMMA WritesMoves ==
  ASSUME AInv, NEW a \in AAdmin,
         NEW s \in {"password", "stamp", "options", "text", "write", "acl", "leave"}, Writes(a, s)
  PROVE  \E op2, v : Moves(a, op2, v)
<1>1. /\ Busy(a) /\ Head(acting[a].todo) = s /\ acting[a].n \in Username
      /\ IsOperation(acting[a]) /\ Ready(acting[a], accounts[acting[a].n])
      /\ accounts = [accounts EXCEPT ![acting[a].n] = accounts[acting[a].n]]
      /\ opsBegun' = opsBegun
  BY AtIs DEF Writes
<1>2. PICK op : op = acting[a]
  OBVIOUS
<1>3. PICK u : u = accounts[op.n]
  OBVIOUS
<1>4. Ready(op, u) /\ Head(op.todo) = s
  BY <1>1, <1>2, <1>3
<1>5. CASE RefusesOptions(op, s)
  <2>1. acting' = [acting EXCEPT ![a] = Ended(op, "refused")] /\ accounts' = accounts
    BY <1>2, <1>5 DEF Writes, Raise
  <2>2. op.do \in Creating /\ s = "options"
    BY <1>4, <1>5 DEF RefusesOptions, Creating
  <2>3. Steps(op, u, Ended(op, "refused"), u)
    BY <1>4, <2>2, EndedIs DEF Ready
  <2>4. Moves(a, Ended(op, "refused"), u)
    BY <1>1, <1>2, <1>3, <2>1, <2>3 DEF Moves
  <2> QED
    BY <2>4
<1>6. CASE ~RefusesOptions(op, s) /\ u = Absent
  <2>1. /\ acting' = [acting EXCEPT ![a] = Ended(op, IF s = "leave" THEN "ok" ELSE "failed")]
        /\ accounts' = accounts
    BY <1>2, <1>3, <1>6 DEF Writes, Raise
  <2>3. Steps(op, u, Ended(op, IF s = "leave" THEN "ok" ELSE "failed"), u)
    <3>1. CASE s = "leave"
      BY <1>4, <1>6, <3>1, LeaveStep
    <3>2. CASE s # "leave"
      BY <1>4, <3>2, EndedIs DEF Ready
    <3> QED
      BY <3>1, <3>2
  <2>4. Moves(a, Ended(op, IF s = "leave" THEN "ok" ELSE "failed"), u)
    BY <1>1, <1>2, <1>3, <2>1, <2>3 DEF Moves
  <2> QED
    BY <2>4
<1>7. CASE ~RefusesOptions(op, s) /\ u # Absent
  <2>1. /\ acting' = [acting EXCEPT ![a] = Proceed(op)]
        /\ accounts' = [accounts EXCEPT ![op.n] = Changed(s, op, u)]
    BY <1>2, <1>3, <1>7 DEF Writes, Goes, Stays
  <2>2. Steps(op, u, Proceed(op), Changed(s, op, u))
    BY <1>4, <1>7, PasswordStep, StampStep, OptionsStep, TextStep, UpdateStep, AclStep, LeaveStep DEF Changed
  <2>3. Moves(a, Proceed(op), Changed(s, op, u))
    BY <1>1, <1>2, <1>3, <2>1, <2>2 DEF Moves
  <2> QED
    BY <2>3
<1> QED
  BY <1>5, <1>6, <1>7

(* And so is every action that is not one change of an account.            *)
LEMMA OtherMoves ==
  ASSUME AInv, NEW a \in AAdmin,
         \/ Refuse(a) \/ Template(a) \/ Add(a) \/ ForceMust(a) \/ Read(a) \/ Join(a) \/ JoinNext(a)
         \/ Primary(a) \/ GetUser(a, "made") \/ GetUser(a, "shown") \/ DeleteEntry(a, "delete") \/ DeleteEntry(a, "rollback") \/ Lost(a)
  PROVE  \E op2, v : Moves(a, op2, v)
<1>0. Busy(a)
  BY DEF Refuse, Template, Add, ForceMust, Read, Join, JoinNext, Primary, GetUser, DeleteEntry, Lost, At
<1>1. /\ acting[a].n \in Username
      /\ IsOperation(acting[a]) /\ Ready(acting[a], accounts[acting[a].n])
      /\ accounts = [accounts EXCEPT ![acting[a].n] = accounts[acting[a].n]]
  BY <1>0, BusyIs
<1>2. PICK op : op = acting[a]
  OBVIOUS
<1>3. PICK u : u = accounts[op.n]
  OBVIOUS
<1>4. Ready(op, u)
  BY <1>1, <1>2, <1>3
<1>5. SUFFICES ASSUME \A op2, v :
                        (acting' = [acting EXCEPT ![a] = op2] /\ opsBegun' = opsBegun
                           /\ accounts' = [accounts EXCEPT ![op.n] = v]) => ~Steps(op, u, op2, v)
               PROVE  FALSE
  BY <1>0, <1>2, <1>3 DEF Moves
<1>6. \A op2 : acting' = [acting EXCEPT ![a] = op2] /\ opsBegun' = opsBegun /\ accounts' = accounts
                => ~Steps(op, u, op2, u)
  BY <1>1, <1>2, <1>3, <1>5
<1>7. CASE Refuse(a)
  <2>1. /\ Head(op.todo) = "refuse" /\ opsBegun' = opsBegun /\ accounts' = accounts
        /\ acting' = [acting EXCEPT ![a] = IF Refuses(op) THEN Ended(op, "refused") ELSE Proceed(op)]
    BY <1>2, <1>7 DEF Refuse, At, Raise, Goes
  <2>2. Steps(op, u, IF Refuses(op) THEN Ended(op, "refused") ELSE Proceed(op), u)
    BY <1>3, <1>4, <2>1, RefuseStep
  <2> QED
    BY <1>6, <2>1, <2>2
<1>8. CASE Template(a)
  <2>1. Head(op.todo) = "template" /\ opsBegun' = opsBegun /\ accounts' = accounts
    BY <1>2, <1>8 DEF Template, At
  <2>2. PICK t : t = accounts[op.from]
    OBVIOUS
  <2>3. Is(t)
    BY <1>1, <1>2, <2>2 DEF AInv, IsOperation
  <2>4. \/ acting' = [acting EXCEPT ![a] = Ended(op, "refused")]
        \/ /\ t # Absent
           /\ acting' = [acting EXCEPT ![a] = Proceed([op EXCEPT !.seen = t, !.set = CopiedFlags(t, op),
                                                                 !.left = op.groups \cap TemplateGroups(t)])]
    BY <1>2, <1>8, <2>2 DEF Template, Raise, Goes
  <2> QED
    BY <1>4, <1>6, <2>1, <2>3, <2>4, TemplateStep
<1>9. CASE Add(a)
  <2>1. Head(op.todo) = "add" /\ opsBegun' = opsBegun
    BY <1>2, <1>9 DEF Add, At
  <2>2. u = Absent /\ Steps(op, u, Proceed([op EXCEPT !.added = TRUE]), Born)
    BY <1>4, <2>1, AddStep
  <2>3. /\ acting' = [acting EXCEPT ![a] = Proceed([op EXCEPT !.added = TRUE])]
        /\ accounts' = [accounts EXCEPT ![op.n] = Born]
    BY <1>2, <1>3, <1>9, <2>2 DEF Add, Goes, Stays
  <2> QED
    BY <1>5, <2>1, <2>2, <2>3
<1>10. CASE ForceMust(a)
  <2>1. /\ Head(op.todo) = "force" /\ opsBegun' = opsBegun /\ accounts' = accounts
        /\ \/ acting' = [acting EXCEPT ![a] = Ended(op, "refused")]
           \/ acting' = [acting EXCEPT ![a] = Proceed(op)]
    BY <1>2, <1>10 DEF ForceMust, At, Raise, Goes
  <2> QED
    BY <1>4, <1>6, <2>1, ForceStep
<1>11. CASE Read(a)
  <2>1. /\ Head(op.todo) = "read" /\ opsBegun' = opsBegun /\ accounts' = accounts
        /\ \/ acting' = [acting EXCEPT ![a] = Ended(op, "failed")]
           \/ /\ RefusesOptions(op, "read")
              /\ acting' = [acting EXCEPT ![a] = Ended(op, "refused")]
           \/ acting' = [acting EXCEPT ![a] = Proceed([op EXCEPT !.seen = u])]
    BY <1>2, <1>3, <1>11 DEF Read, At, Raise, Goes
  <2>3. RefusesOptions(op, "read") => MayLeave(op, u)
    <3> SUFFICES ASSUME RefusesOptions(op, "read") PROVE MayLeave(op, u)
      OBVIOUS
    <3>1. op.do = "update"
      BY DEF RefusesOptions
    <3>2. u = [op.before EXCEPT !.text = op.value]
      BY <1>4, <2>1, <3>1 DEF Ready, Phase, Serving, Creating
    <3> QED
      BY <2>1, <3>1, <3>2 DEF MayLeave
  <2>2. /\ Steps(op, u, Ended(op, "failed"), u)
        /\ RefusesOptions(op, "read") => Steps(op, u, Ended(op, "refused"), u)
    BY <1>4, <2>1, <2>3, EndedIs DEF Ready
  <2> QED
    BY <1>4, <1>6, <2>1, <2>2, ReadStep
<1>12. CASE Join(a)
  <2>1. /\ Head(op.todo) = "join" /\ opsBegun' = opsBegun
        /\ \/ acting' = [acting EXCEPT ![a] = Ended(op, "failed")] /\ accounts' = accounts
           \/ /\ u # Absent /\ u.primary \notin op.groups
              /\ acting' = [acting EXCEPT ![a] = Proceed(op)]
              /\ accounts' = [accounts EXCEPT ![op.n] = [u EXCEPT !.groups = @ \cup op.groups]]
    BY <1>2, <1>3, <1>12 DEF Join, At, Raise, Goes, Stays
  <2>2. Steps(op, u, Ended(op, "failed"), u)
    BY <1>4, <2>1, JoinStep
  <2>3. u.primary \notin op.groups => Steps(op, u, Proceed(op), [u EXCEPT !.groups = @ \cup op.groups])
    BY <1>4, <2>1, JoinStep
  <2> QED
    BY <1>5, <1>6, <2>1, <2>2, <2>3
<1>13. CASE JoinNext(a)
  <2>1. Head(op.todo) = "groups" /\ opsBegun' = opsBegun
    BY <1>2, <1>13 DEF JoinNext, At
  <2>2. /\ u # Absent
        /\ op.left = {} => Steps(op, u, Proceed(op), u)
        /\ \A g \in op.left :
             /\ g # u.primary
             /\ Steps(op, u, Grouped(op, g), [u EXCEPT !.groups = @ \cup {g}])
    BY <1>4, <2>1, JoinNextStep
  <2>3. \/ /\ op.left = {} /\ acting' = [acting EXCEPT ![a] = Proceed(op)] /\ accounts' = accounts
        \/ \E g \in op.left :
             IF u = Absent \/ g = u.primary
             THEN acting' = [acting EXCEPT ![a] = [Grouped(op, g) EXCEPT !.failed = @ \cup {g}]]
             ELSE /\ acting' = [acting EXCEPT ![a] = Grouped(op, g)]
                  /\ accounts' = [accounts EXCEPT ![op.n] = [u EXCEPT !.groups = @ \cup {g}]]
    BY <1>2, <1>3, <1>13 DEF JoinNext, Goes, Stays
  <2>4. CASE op.left = {}
    BY <1>6, <2>1, <2>2, <2>3, <2>4
  <2>5. CASE op.left # {}
    <3>1. PICK g \in op.left :
             /\ acting' = [acting EXCEPT ![a] = Grouped(op, g)]
             /\ accounts' = [accounts EXCEPT ![op.n] = [u EXCEPT !.groups = @ \cup {g}]]
      BY <2>2, <2>3, <2>5
    <3>2. Steps(op, u, Grouped(op, g), [u EXCEPT !.groups = @ \cup {g}])
      BY <2>2, <3>1
    <3> QED
      BY <1>5, <2>1, <3>1, <3>2
  <2> QED
    BY <2>4, <2>5
<1>14. CASE Primary(a)
  <2>1. /\ Head(op.todo) = "primary" /\ opsBegun' = opsBegun
        /\ \/ /\ Wanted(op) = {}
              /\ acting' = [acting EXCEPT ![a] = Proceed(op)] /\ accounts' = accounts
           \/ /\ Wanted(op) # {} /\ acting' = [acting EXCEPT ![a] = Proceed(op)]
              /\ accounts' = [accounts EXCEPT ![op.n] = SetPrimary(u, CHOOSE g \in Wanted(op) : TRUE)]
           \/ /\ u = Absent \/ ~MemberOf(u, Wanted(op))
              /\ op.do # "copy" => acting' = [acting EXCEPT ![a] = Ended(op, "failed")]
              /\ accounts' = accounts
    BY <1>2, <1>3, <1>14 DEF Primary, At, Goes, Raise, Stays
  <2>2. u # Absent /\ (op.do = "copy" => MemberOf(u, Wanted(op)))
    BY <1>4, <2>1, PrimaryMember
  <2>3. CASE Wanted(op) = {} /\ acting' = [acting EXCEPT ![a] = Proceed(op)] /\ accounts' = accounts
    <3>1. Steps(op, u, Proceed(op), u)
      BY <1>4, <2>1, <2>3, PrimaryStep
    <3> QED
      BY <1>6, <2>1, <2>3, <3>1
  <2>4. CASE /\ Wanted(op) # {} /\ acting' = [acting EXCEPT ![a] = Proceed(op)]
             /\ accounts' = [accounts EXCEPT ![op.n] = SetPrimary(u, CHOOSE g \in Wanted(op) : TRUE)]
    <3>0. PICK h : h = CHOOSE g \in Wanted(op) : TRUE
      OBVIOUS
    <3>3. h \in Wanted(op)
      <4>1. Wanted(op) # {}
        BY <2>4
      <4> QED
        BY ONLY <3>0, <4>1
    <3>1. PICK g \in Wanted(op) : accounts' = [accounts EXCEPT ![op.n] = SetPrimary(u, g)]
      BY <2>4, <3>0, <3>3
    <3>2. Steps(op, u, Proceed(op), SetPrimary(u, g))
      BY <1>4, <2>1, <2>4, <3>1, PrimaryStep
    <3> QED
      BY <1>5, <2>1, <2>4, <3>1, <3>2
  <2>5. CASE /\ ~MemberOf(u, Wanted(op)) /\ accounts' = accounts
             /\ op.do # "copy" => acting' = [acting EXCEPT ![a] = Ended(op, "failed")]
    <3>0. op.do # "copy"
      BY <2>2, <2>5
    <3>2. Steps(op, u, Ended(op, "failed"), u)
      BY <1>4, <2>1, <3>0, EndedIs DEF Ready
    <3> QED
      BY <1>6, <2>1, <2>5, <3>0, <3>2
  <2> QED
    BY <2>1, <2>2, <2>3, <2>4, <2>5
<1>18. CASE GetUser(a, "made") \/ GetUser(a, "shown")
  <2>1. /\ Head(op.todo) \in {"made", "shown"} /\ opsBegun' = opsBegun /\ accounts' = accounts
        /\ \/ acting' = [acting EXCEPT ![a] = Ended(op, "failed")]
           \/ acting' = [acting EXCEPT ![a] = Proceed(op)]
    BY <1>2, <1>18 DEF GetUser, At, Raise, Goes
  <2> QED
    BY <1>4, <1>6, <2>1, GetUserStep
<1>15. CASE DeleteEntry(a, "delete")
  <2>1. /\ Head(op.todo) = "delete" /\ opsBegun' = opsBegun
        /\ acting' = [acting EXCEPT ![a] = Over(IF u = Absent THEN "failed" ELSE "ok")]
        /\ accounts' = [accounts EXCEPT ![op.n] = Absent]
    BY <1>2, <1>3, <1>15 DEF DeleteEntry, At, Stays
  <2> QED
    BY <1>4, <1>5, <2>1, DeleteStep
<1>16. CASE DeleteEntry(a, "rollback")
  <2>1. /\ Head(op.todo) = "rollback" /\ opsBegun' = opsBegun
        /\ acting' = [acting EXCEPT ![a] = Over(op.result)] /\ accounts' = [accounts EXCEPT ![op.n] = Absent]
    BY <1>2, <1>16 DEF DeleteEntry, At, Stays
  <2> QED
    BY <1>4, <1>5, <2>1, RollbackStep
<1>17. CASE Lost(a)
  <2>1. /\ opsBegun' = opsBegun /\ accounts' = accounts
        /\ \/ /\ Head(op.todo) = "groups"
              /\ \E g \in op.left :
                   acting' = [acting EXCEPT ![a] = [Grouped(op, g) EXCEPT !.failed = @ \cup {g}]]
           \/ /\ Head(op.todo) = "primary" /\ op.do = "copy" /\ Wanted(op) # {}
              /\ acting' = [acting EXCEPT ![a] = Proceed([op EXCEPT !.result = "partly"])]
           \/ /\ Head(op.todo) = "rollback"
              /\ acting' = [acting EXCEPT ![a] = Over(op.result)]
           \/ /\ Head(op.todo) # "rollback"
              /\ ~(op.do = "copy" /\ Head(op.todo) \in {"groups", "primary"})
              /\ acting' = [acting EXCEPT ![a] = Ended(op, "failed")]
    BY <1>2, <1>3, <1>17 DEF Lost, Goes, Raise
  <2>2. CASE Head(op.todo) = "rollback"
    <3>1. acting' = [acting EXCEPT ![a] = Over(op.result)]
      BY <2>1, <2>2
    <3>2. Steps(op, u, Over(op.result), u)
      BY <1>4, <2>2, RollbackStep
    <3> QED
      BY <1>6, <2>1, <3>1, <3>2
  <2>3. CASE Head(op.todo) # "rollback"
    <3>1. /\ Head(op.todo) = "groups" =>
               \A g \in op.left : Steps(op, u, [Grouped(op, g) EXCEPT !.failed = @ \cup {g}], u)
          /\ Head(op.todo) = "primary" /\ op.do = "copy" /\ Wanted(op) # {} =>
               Steps(op, u, Proceed([op EXCEPT !.result = "partly"]), u)
          /\ ~(op.do = "copy" /\ Head(op.todo) \in {"groups", "primary"}) =>
               Steps(op, u, Ended(op, "failed"), u)
      BY <1>4, <2>3, LostStep
    <3>2. \E op2 : acting' = [acting EXCEPT ![a] = op2] /\ Steps(op, u, op2, u)
      BY <2>1, <2>3, <3>1
    <3> QED
      BY <1>6, <2>1, <3>2
  <2> QED
    BY <2>2, <2>3
<1> QED
  BY <1>7, <1>8, <1>9, <1>10, <1>11, <1>12, <1>13, <1>14, <1>15, <1>16, <1>17, <1>18

(* One step of one session.                                                *)
LEMMA StepKeeps ==
  ASSUME AOverlapping = FALSE, AInv, NEW a \in AAdmin, AccountStep(a)
  PROVE  AInv' /\ Deeds
<1>1. CASE Begin(a)
  BY <1>1, BeginKeeps
<1>2. CASE ~Begin(a)
  <2>1. \E op2, v : Moves(a, op2, v)
    BY <1>2, WritesMoves, OtherMoves DEF AccountStep
  <2> QED
    BY <2>1, MovesKeeps, MovesAnswer
<1> QED
  BY <1>1, <1>2

(* One step of the system.                                                 *)
LEMMA AccountsStep ==
  ASSUME AOverlapping = FALSE
  PROVE  AInv /\ [AccountsNext]_accountVars => AInv' /\ (Deeds \/ UNCHANGED accountVars)
<1> SUFFICES ASSUME AInv, [AccountsNext]_accountVars PROVE AInv' /\ (Deeds \/ UNCHANGED accountVars)
  OBVIOUS
<1>1. CASE AccountsNext
  BY <1>1, StepKeeps DEF AccountsNext
<1>2. CASE UNCHANGED accountVars
  BY <1>2 DEF accountVars, AInv, Busy
<1> QED
  BY <1>1, <1>2

(* "Must change" and "cannot change" are never both set                    *)
(* (users.py: _must_and_cannot and _ensure_can_force_change): for any      *)
(* accounts, groups and sessions that keep to different accounts,          *)
(* whatever they ask for and wherever the connection is lost.              *)
THEOREM MustOrCannotHolds ==
  ASSUME AOverlapping = FALSE
  PROVE  AccountsSpec => []MustOrCannot
<1>1. AInv => MustOrCannot
  BY DEF AInv, MustOrCannot, Present, Is, IsAccount
<1> QED
  BY <1>1, InitKeeps, AccountsStep, PTL DEF AccountsSpec

(* What becomes of an account is what somebody asked, confirmed where it   *)
(* has to be, and was answered: what is refused has written nothing but    *)
(* the attributes ahead of a refused option, a creation that failed leaves *)
(* no account (create_user's rollback) unless the rollback failed too,     *)
(* when it leaves a disabled one, or only reading it back failed; a copy's *)
(* report is true, an account that administers the domain is disabled or   *)
(* deleted only on confirmation, and a rewritten list keeps its rest; for  *)
(* sessions that keep to different accounts, as the two theorems beside.   *)
THEOREM DoneAsAnsweredHolds ==
  ASSUME AOverlapping = FALSE
  PROVE  AccountsSpec => DoneAsAnswered
<1> USE DEF Deeds
<1>1. AInv /\ [AccountsNext]_accountVars =>
        [AsFound /\ AdminConfirmed /\ ReportTrue /\ Rewritten /\ OnlyOptions]_accountVars
  BY AccountsStep
<1> QED
  BY <1>1, InitKeeps, AccountsStep, PTL DEF AccountsSpec, DoneAsAnswered

(* Accounts and operations are well formed, and no account is an ordinary  *)
(* member of its primary group.                                            *)
THEOREM AccountsTyped ==
  ASSUME AOverlapping = FALSE
  PROVE  AccountsSpec => []AccountsTypeOK
<1>1. AInv => AccountsTypeOK
  <2> SUFFICES ASSUME AInv PROVE AccountsTypeOK
    OBVIOUS
  <2>1. \A n \in Present : accounts[n] \in User /\ accounts[n].primary \notin accounts[n].groups
    BY DEF AInv, Present, Is, IsAccount
  <2>2. \A a \in AAdmin : acting[a].result \in {"none", "ok", "partly", "refused", "failed"}
    BY OverIs DEF AInv, Working, IsOperation, Result
  <2> QED
    BY <2>1, <2>2 DEF AccountsTypeOK, AInv
<1> QED
  BY <1>1, InitKeeps, AccountsStep, PTL DEF AccountsSpec

---------------------------------------------------------------------------
(* The bits of a groupType.                                                *)
LEMMA Wraps ==
  ASSUME NEW n \in Nat \ {0}, NEW v \in -n..n - 1
  PROVE  v % n = IF v >= 0 THEN v ELSE v + n
<1>1. CASE v >= 0
  <2>1. v % n = v
    BY <1>1
  <2> QED
    BY <1>1, <2>1
<1>2. CASE v < 0
  <2>1. v % n = v + n
    BY <1>2
  <2> QED
    BY <1>2, <2>1
<1> QED
  BY <1>1, <1>2

LEMMA TopIs == \E k \in Nat \ {0} : TopBit = 16 * k
<1>1. TopBit \in Nat \ {0} /\ TopBit % 16 = 0
  BY GroupConstants
<1>2. \E k \in Nat : TopBit = 16 * k
  BY <1>1
<1> QED
  BY <1>1, <1>2

(* The top bit of a word of 2 * TopBit values.                             *)
LEMMA TopBitIs ==
  ASSUME NEW t \in Nat \ {0}, NEW u \in 0..2 * t - 1
  PROVE  (u \div t) % 2 = IF u >= t THEN 1 ELSE 0
<1>1. CASE u < t
  <2>1. u \div t = 0
    BY <1>1
  <2> QED
    BY <1>1, <2>1
<1>2. CASE u >= t
  <2>1. u \div t = 1
    BY <1>2
  <2> QED
    BY <1>2, <2>1
<1> QED
  BY <1>1, <1>2

(* What a groupType says is what it was made of.                           *)
LEMMA TypeReads ==
  ASSUME NEW s \in Scope, NEW sec \in BOOLEAN
  PROVE  /\ GroupTypeValue(s, sec) \in -TopBit..TopBit - 1
         /\ GroupScope(GroupTypeValue(s, sec)) = s
         /\ IsSecurity(GroupTypeValue(s, sec)) <=> sec
<1>1. PICK k \in Nat \ {0} : TopBit = 16 * k
  BY TopIs
<1>2. PICK b \in {2, 4, 8} : ScopeBits[s] = b /\ (b = 2 <=> s = "global") /\ (b = 4 <=> s = "domain_local")
  BY DEF ScopeBits, Scope
<1>3. PICK v \in Int : v = IF sec THEN b - TopBit ELSE b
  <2>1. TopBit \in Int /\ b \in Int
    BY <1>1, <1>2
  <2>2. b - TopBit \in Int
    BY ONLY <2>1
  <2> QED
    BY ONLY <2>1, <2>2
<1>4. GroupTypeValue(s, sec) = v
  <2>1. GroupTypeValue(s, sec) = IF sec THEN b - 2 * TopBit + TopBit ELSE b
    BY <1>2 DEF GroupTypeValue
  <2>2. b - 2 * TopBit + TopBit = b - TopBit
    BY <1>1, <1>2
  <2> QED
    BY ONLY <1>3, <2>1, <2>2
<1>5. v \in -TopBit..TopBit - 1
  BY <1>1, <1>2, <1>3
<1>6. PICK u \in Nat : u = (IF sec THEN b + 16 * k ELSE b) /\ v % (2 * TopBit) = u /\ u \in 0..2 * TopBit - 1
  <2>1. 2 * TopBit \in Nat \ {0} /\ v \in -(2 * TopBit)..2 * TopBit - 1
    BY <1>1, <1>5
  <2>2. v % (2 * TopBit) = IF v >= 0 THEN v ELSE v + 2 * TopBit
    BY <2>1, Wraps
  <2> QED
    BY <1>1, <1>2, <1>3, <2>2
<1>7. (u \div 8) % 2 = 1 <=> b = 8
  BY <1>2, <1>6
<1>8. (u \div 4) % 2 = 1 <=> b = 4
  BY <1>2, <1>6
<1>9. (u \div 2) % 2 = 1 <=> b = 2
  BY <1>2, <1>6
<1>10. (u \div TopBit) % 2 = 1 <=> sec
  <2>1. (u \div TopBit) % 2 = IF u >= TopBit THEN 1 ELSE 0
    <3>1. TopBit \in Nat \ {0}
      BY GroupConstants
    <3> QED
      BY ONLY <3>1, <1>6, TopBitIs
  <2>2. u >= TopBit <=> sec
    BY <1>1, <1>2, <1>6
  <2> QED
    BY <2>1, <2>2
<1>11. GroupScope(v) = s
  <2>1. (Bit(v, 8) <=> b = 8) /\ (Bit(v, 4) <=> b = 4) /\ (Bit(v, 2) <=> b = 2)
    BY ONLY <1>6, <1>7, <1>8, <1>9 DEF Bit
  <2>2. s \in {"global", "domain_local", "universal"}
    BY DEF Scope
  <2> QED
    BY ONLY <1>2, <2>1, <2>2 DEF GroupScope
<1>12. IsSecurity(v) <=> sec
  BY ONLY <1>6, <1>10 DEF IsSecurity, Bit
<1> QED
  BY <1>4, <1>5, <1>11, <1>12

---------------------------------------------------------------------------
(* Sequences that say each thing once.                                     *)
LEMMA MembersAre ==
  ASSUME NEW E, NEW s \in Seq(E)
  PROVE  /\ ToSet(s) \subseteq E /\ ToSet(s) = {s[i] : i \in 1..Len(s)} /\ DOMAIN s = 1..Len(s) /\ Len(s) \in Nat
         /\ \A x : x \in ToSet(s) <=> \E i \in 1..Len(s) : s[i] = x
BY DEF ToSet

LEMMA JoinedOnce ==
  ASSUME NEW E, NEW s \in Seq(E), NEW t \in Seq(E)
  PROVE  /\ s \o t \in Seq(E) /\ Len(s \o t) = Len(s) + Len(t)
         /\ ToSet(s \o t) = ToSet(s) \cup ToSet(t)
         /\ IsInjective(s) /\ IsInjective(t) /\ ToSet(s) \cap ToSet(t) = {} => IsInjective(s \o t)
<1>1. PICK u : u = s \o t
  OBVIOUS
<1>2. /\ u \in Seq(E) /\ Len(u) = Len(s) + Len(t) /\ Len(s) \in Nat /\ Len(t) \in Nat
      /\ \A i \in 1..Len(u) : u[i] = IF i <= Len(s) THEN s[i] ELSE t[i - Len(s)]
  BY <1>1, ConcatProperties
<1>3. \A i \in 1..Len(s) : i \in 1..Len(u) /\ u[i] = s[i]
  BY <1>2
<1>4. ASSUME NEW i \in 1..Len(t) PROVE i + Len(s) \in 1..Len(u) /\ u[i + Len(s)] = t[i]
  <2>1. PICK k \in Int : k = i + Len(s)
    BY <1>2
  <2>2. k \in 1..Len(u) /\ ~(k <= Len(s)) /\ k - Len(s) = i
    BY <1>2, <2>1
  <2>3. u[k] = t[i]
    BY <1>2, <2>2
  <2> QED
    BY ONLY <2>1, <2>2, <2>3
<1>5. \A i \in 1..Len(u) : \/ i \in 1..Len(s) /\ u[i] = s[i]
                           \/ i - Len(s) \in 1..Len(t) /\ u[i] = t[i - Len(s)]
  BY <1>2
<1>6. \A x : x \in ToSet(u) <=> x \in ToSet(s) \/ x \in ToSet(t)
  <2>1. \A x : x \in ToSet(u) <=> \E i \in 1..Len(u) : u[i] = x
    BY <1>2, MembersAre
  <2>2. \A x : x \in ToSet(s) <=> \E i \in 1..Len(s) : s[i] = x
    BY MembersAre
  <2>3. \A x : x \in ToSet(t) <=> \E i \in 1..Len(t) : t[i] = x
    BY MembersAre
  <2> QED
    BY ONLY <1>3, <1>4, <1>5, <2>1, <2>2, <2>3
<1>7. ASSUME IsInjective(s), IsInjective(t), ToSet(s) \cap ToSet(t) = {} PROVE IsInjective(u)
  <2>1. DOMAIN u = 1..Len(u) /\ DOMAIN s = 1..Len(s) /\ DOMAIN t = 1..Len(t)
    BY <1>2
  <2>2. \A i, j \in 1..Len(s) : s[i] = s[j] => i = j
    BY <1>7, <2>1 DEF IsInjective
  <2>3. \A i, j \in 1..Len(t) : t[i] = t[j] => i = j
    BY <1>7, <2>1 DEF IsInjective
  <2>4. \A i \in 1..Len(s), j \in 1..Len(t) : s[i] # t[j]
    BY <1>7, <2>1 DEF ToSet
  <2> SUFFICES ASSUME NEW i \in 1..Len(u), NEW j \in 1..Len(u), u[i] = u[j] PROVE i = j
    BY <2>1 DEF IsInjective
  <2>5. CASE i \in 1..Len(s) /\ u[i] = s[i] /\ j \in 1..Len(s) /\ u[j] = s[j]
    BY <2>2, <2>5
  <2>6. CASE i - Len(s) \in 1..Len(t) /\ u[i] = t[i - Len(s)] /\ j - Len(s) \in 1..Len(t) /\ u[j] = t[j - Len(s)]
    <3>1. i - Len(s) = j - Len(s)
      BY <2>3, <2>6
    <3> QED
      BY <1>2, <3>1
  <2>7. CASE i \in 1..Len(s) /\ u[i] = s[i] /\ j - Len(s) \in 1..Len(t) /\ u[j] = t[j - Len(s)]
    BY <2>4, <2>7
  <2>8. CASE j \in 1..Len(s) /\ u[j] = s[j] /\ i - Len(s) \in 1..Len(t) /\ u[i] = t[i - Len(s)]
    BY <2>4, <2>8
  <2> QED
    BY <1>5, <2>5, <2>6, <2>7, <2>8
<1> QED
  BY <1>1, <1>2, <1>6, <1>7

LEMMA AppendedOnce ==
  ASSUME NEW E, NEW s \in Seq(E), NEW x \in E
  PROVE  /\ Append(s, x) \in Seq(E) /\ Len(Append(s, x)) = Len(s) + 1
         /\ ToSet(Append(s, x)) = ToSet(s) \cup {x}
         /\ IsInjective(s) /\ x \notin ToSet(s) => IsInjective(Append(s, x))
<1>1. <<x>> \in Seq(E) /\ ToSet(<<x>>) = {x} /\ IsInjective(<<x>>) /\ Len(<<x>>) = 1
  BY DEF ToSet, IsInjective
<1>2. Append(s, x) = s \o <<x>>
  OBVIOUS
<1>3. x \notin ToSet(s) => ToSet(s) \cap {x} = {}
  OBVIOUS
<1>4. PICK t \in Seq(E) : t = <<x>>
  BY <1>1
<1>5. ToSet(t) = {x} /\ IsInjective(t) /\ Len(t) = 1 /\ Append(s, x) = s \o t
  BY <1>1, <1>2, <1>4
<1>6. /\ s \o t \in Seq(E) /\ Len(s \o t) = Len(s) + Len(t)
      /\ ToSet(s \o t) = ToSet(s) \cup ToSet(t)
      /\ IsInjective(s) /\ IsInjective(t) /\ ToSet(s) \cap ToSet(t) = {} => IsInjective(s \o t)
  BY JoinedOnce
<1> QED
  BY ONLY <1>3, <1>5, <1>6

LEMMA ThoseOnce ==
  ASSUME NEW E, NEW s \in Seq(E), NEW S
  PROVE  /\ Those(s, S) \in Seq(E)
         /\ ToSet(Those(s, S)) = ToSet(s) \cap S
         /\ IsInjective(s) => IsInjective(Those(s, S))
<1>1. PICK r : r = Those(s, S)
  OBVIOUS
<1>2. r \in Seq(E) /\ Filtered(r, s, S, Len(s))
  BY <1>1, ThoseFiltered
<1>3. Len(r) \in Nat /\ Len(s) \in Nat /\ DOMAIN r = 1..Len(r) /\ DOMAIN s = 1..Len(s)
  BY <1>2
<1>4. ToSet(r) = ToSet(s) \cap S
  <2>1. \A x : x \in ToSet(r) <=> \E i \in 1..Len(r) : r[i] = x
    BY <1>2, MembersAre
  <2>2. \A x : x \in ToSet(s) <=> \E i \in 1..Len(s) : s[i] = x
    BY MembersAre
  <2>3. \A x : x \in ToSet(r) <=> x \in ToSet(s) /\ x \in S
    BY ONLY <1>2, <2>1, <2>2 DEF Filtered
  <2> QED
    BY ONLY <2>3
<1>5. ASSUME IsInjective(s), NEW i \in 1..Len(r), NEW j \in 1..Len(r), i < j PROVE r[i] # r[j]
  <2>1. PICK p, q \in 1..Len(s) : p < q /\ s[p] = r[i] /\ s[q] = r[j]
    BY <1>2, <1>5 DEF Filtered
  <2>2. p # q
    BY <2>1
  <2> QED
    BY <1>3, <1>5, <2>1, <2>2 DEF IsInjective
<1>6. ASSUME IsInjective(s) PROVE IsInjective(r)
  <2> SUFFICES ASSUME NEW i \in 1..Len(r), NEW j \in 1..Len(r), r[i] = r[j] PROVE i = j
    BY <1>3 DEF IsInjective
  <2>1. ~(i < j) /\ ~(j < i)
    BY <1>5, <1>6
  <2> QED
    BY <1>3, <2>1
<1> QED
  BY <1>1, <1>2, <1>4, <1>6

(* A sequence that says each thing once is as long as its set is large.    *)
LEMMA OnceCount ==
  ASSUME NEW E, NEW s \in Seq(E), IsInjective(s)
  PROVE  IsFiniteSet(ToSet(s)) /\ Cardinality(ToSet(s)) = Len(s)
<1>1. Len(s) \in Nat /\ DOMAIN s = 1..Len(s)
  OBVIOUS
<1>2. s \in [1..Len(s) -> ToSet(s)]
  BY <1>1 DEF ToSet
<1>3. s \in Bijection(1..Len(s), ToSet(s))
  BY <1>1, <1>2 DEF Bijection, Injection, Surjection, IsInjective, ToSet
<1>4. ExistsBijection(1..Len(s), ToSet(s))
  BY <1>3 DEF ExistsBijection
<1>5. IsFiniteSet(1..Len(s)) /\ Cardinality(1..Len(s)) = Len(s)
  BY <1>1, FS_Interval
<1> QED
  BY <1>4, <1>5, FS_Bijection

(* A set as a sequence, and what a sequence lacks of a set behind it.      *)
LEMMA ListedIs ==
  ASSUME NEW E, NEW ms \in SUBSET E, IsFiniteSet(ms)
  PROVE  Listed(ms) \in Seq(E) /\ IsInjective(Listed(ms)) /\ ToSet(Listed(ms)) = ms
<1>1. PICK n \in Nat : n = Cardinality(ms) /\ ExistsBijection(1..n, ms)
  BY FS_CardinalityType
<1>2. PICK f \in Bijection(1..n, ms) : TRUE
  BY <1>1 DEF ExistsBijection
<1>3. f \in [1..n -> ms] /\ IsInjective(f)
  BY <1>2 DEF Bijection, Injection, IsInjective
<1>4. PICK s : s = Listed(ms)
  OBVIOUS
<1>5. s \in [1..n -> ms] /\ IsInjective(s)
  BY <1>1, <1>3, <1>4 DEF Listed, SetToSeq
<1>6. IsFiniteSet(1..n) /\ Cardinality(1..n) = n
  BY <1>1, FS_Interval
<1>7. s \in Injection(1..n, ms)
  BY <1>5 DEF Injection, IsInjective
<1>8. s \in Surjection(1..n, ms)
  BY <1>1, <1>6, <1>7, FS_Injection
<1>9. s \in Seq(E) /\ DOMAIN s = 1..n
  BY <1>5
<1>10. ToSet(s) = ms
  BY <1>8, <1>9 DEF Surjection, ToSet
<1> QED
  BY <1>4, <1>5, <1>9, <1>10

LEMMA ExtraIs ==
  ASSUME NEW E, NEW s \in Seq(E), IsInjective(s), NEW ms \in SUBSET E, IsFiniteSet(ms)
  PROVE  Extra(s, ms) \in Seq(E) /\ IsInjective(Extra(s, ms)) /\ ToSet(Extra(s, ms)) = ToSet(s) \cup ms
<1>1. PICK rest : rest = ms \ ToSet(s)
  OBVIOUS
<1>2. rest \in SUBSET E /\ IsFiniteSet(rest)
  BY <1>1, FS_Difference
<1>3. Listed(rest) \in Seq(E) /\ IsInjective(Listed(rest)) /\ ToSet(Listed(rest)) = rest
  BY <1>2, ListedIs
<1>4. PICK t \in Seq(E) : t = Listed(rest)
  BY <1>3
<1>5. IsInjective(t) /\ ToSet(t) = rest
  BY <1>3, <1>4
<1>6. ToSet(s) \cap ToSet(t) = {} /\ ToSet(s) \cup ToSet(t) = ToSet(s) \cup ms
  BY <1>1, <1>5
<1>7. /\ s \o t \in Seq(E) /\ ToSet(s \o t) = ToSet(s) \cup ToSet(t)
      /\ IsInjective(s) /\ IsInjective(t) /\ ToSet(s) \cap ToSet(t) = {} => IsInjective(s \o t)
  BY JoinedOnce
<1>8. Extra(s, ms) = s \o t
  BY <1>1, <1>4 DEF Extra
<1> QED
  BY ONLY IsInjective(s), <1>5, <1>6, <1>7, <1>8

---------------------------------------------------------------------------
(* What is reached from a set: Beyond, with as many steps as there are     *)
(* objects, is the smallest closed set around it.                          *)
Closed(X, next) == \A m \in X : next[m] \subseteq X
Closing(R, next, all) ==
  /\ R \subseteq all /\ all \subseteq Member /\ Closed(all, next)
  /\ \A X \in SUBSET Member : R \subseteq X /\ Closed(X, next) => all \subseteq X

Grown(g, R, next, k) ==
  /\ g = [n \in 0..k |-> g[n]] /\ g[0] = R
  /\ \A n \in 1..k : g[n] = Further(g[n - 1], next)

LEMMA GrownExists ==
  ASSUME NEW R, NEW next, NEW m \in Nat
  PROVE  \E g : Grown(g, R, next, m)
<1> DEFINE T == {k \in Nat : \E g : Grown(g, R, next, k)}
<1>1. 0 \in T
  <2>1. Grown([n \in 0..0 |-> R], R, next, 0)
    BY DEF Grown
  <2> QED
    BY <2>1
<1>2. ASSUME NEW k \in Nat, k \in T PROVE k + 1 \in T
  <2>1. PICK g : Grown(g, R, next, k)
    BY <1>2
  <2>2. PICK last : last = Further(g[k], next)
    OBVIOUS
  <2>3. PICK h : h = [n \in 0..(k + 1) |-> IF n = k + 1 THEN last ELSE g[n]]
    OBVIOUS
  <2>4. h[0] = R /\ h[k + 1] = last /\ \A n \in 0..k : h[n] = g[n]
    BY <2>1, <2>3 DEF Grown
  <2>5. h = [n \in 0..(k + 1) |-> h[n]]
    BY <2>3
  <2>6. ASSUME NEW n \in 1..(k + 1) PROVE h[n] = Further(h[n - 1], next)
    <3>1. CASE n = k + 1
      BY <2>2, <2>4, <3>1
    <3>2. CASE n # k + 1
      <4>1. n \in 1..k /\ n - 1 \in 0..k /\ n \in 0..k
        BY <3>2
      <4>2. g[n] = Further(g[n - 1], next)
        BY <2>1, <4>1 DEF Grown
      <4> QED
        BY <2>4, <4>1, <4>2
    <3> QED
      BY <3>1, <3>2
  <2>7. Grown(h, R, next, k + 1)
    BY <2>4, <2>5, <2>6 DEF Grown
  <2> QED
    BY <2>7
<1>3. Nat \subseteq T
  <2> HIDE DEF T
  <2> QED
    BY <1>1, <1>2, NatInd
<1> QED
  BY <1>3

LEMMA BeyondIs ==
  ASSUME NEW R, NEW next, NEW n \in Nat
  PROVE  \E g : Grown(g, R, next, n) /\ Beyond(R, next, n) = g[n]
<1> DEFINE Builds(f) == f = [k \in 0..n |-> IF k = 0 THEN R ELSE Further(f[k - 1], next)]
<1>1. PICK h : Grown(h, R, next, n)
  BY GrownExists
<1>2. Builds(h)
  <2> DEFINE r == [k \in 0..n |-> IF k = 0 THEN R ELSE Further(h[k - 1], next)]
  <2>1. ASSUME NEW k \in 0..n PROVE r[k] = h[k]
    <3>1. r[k] = IF k = 0 THEN R ELSE Further(h[k - 1], next)
      OBVIOUS
    <3>2. h[0] = R /\ \A i \in 1..n : h[i] = Further(h[i - 1], next)
      BY <1>1 DEF Grown
    <3>3. k # 0 => k \in 1..n
      OBVIOUS
    <3> HIDE DEF r
    <3>4. CASE k = 0
      BY <3>1, <3>2, <3>4
    <3>5. CASE k # 0
      BY <3>1, <3>2, <3>3, <3>5
    <3> QED
      BY <3>4, <3>5
  <2>2. r = [k \in 0..n |-> r[k]]
    OBVIOUS
  <2>3. h = [k \in 0..n |-> h[k]]
    BY <1>1 DEF Grown
  <2> HIDE DEF r
  <2>4. r = h
    BY <2>1, <2>2, <2>3
  <2> QED
    BY <2>4 DEF r
<1>3. PICK g : g = (CHOOSE f : Builds(f))
  OBVIOUS
<1>4. Builds(g)
  <2> HIDE DEF Builds
  <2> QED
    BY <1>2, <1>3
<1>5. Grown(g, R, next, n)
  <2>1. \A k \in 0..n : g[k] = IF k = 0 THEN R ELSE Further(g[k - 1], next)
    BY <1>4
  <2>2. g = [k \in 0..n |-> g[k]]
    BY <1>4
  <2> HIDE DEF Builds
  <2>3. g[0] = R
    BY <2>1
  <2>4. ASSUME NEW k \in 1..n PROVE g[k] = Further(g[k - 1], next)
    <3>1. k \in 0..n /\ k # 0
      OBVIOUS
    <3> QED
      BY <2>1, <3>1
  <2> QED
    BY <2>2, <2>3, <2>4 DEF Grown
<1>6. Beyond(R, next, n) = g[n]
  BY <1>3 DEF Beyond
<1> QED
  BY <1>5, <1>6

LEMMA FurtherIs ==
  ASSUME NEW S, NEW next
  PROVE  /\ S \subseteq Further(S, next)
         /\ Closed(S, next) => Further(S, next) = S
         /\ \A X : S \subseteq X /\ Closed(X, next) => Further(S, next) \subseteq X
         /\ Further(S, next) = S => Closed(S, next)
BY DEF Further, Closed

(* As many steps as there are objects are enough: a set that is not closed *)
(* grows with every step.                                                  *)
LEMMA BeyondCloses ==
  ASSUME NEW R \in SUBSET Member, NEW next \in [Member -> SUBSET Member]
  PROVE  Closing(R, next, Beyond(R, next, Cardinality(Member)))
<1>1. PICK c \in Nat : c = Cardinality(Member) /\ IsFiniteSet(Member)
  BY GroupConstants, FS_CardinalityType
<1>2. PICK g : Grown(g, R, next, c) /\ Beyond(R, next, c) = g[c]
  BY BeyondIs
<1>3. g[0] = R /\ \A n \in 1..c : g[n] = Further(g[n - 1], next)
  BY <1>2 DEF Grown
<1>4. Closed(Member, next)
  BY DEF Closed
<1> DEFINE Far(n) == /\ R \subseteq g[n] /\ g[n] \subseteq Member
                     /\ \A X \in SUBSET Member : R \subseteq X /\ Closed(X, next) => g[n] \subseteq X
                     /\ Closed(g[n], next) \/ Cardinality(g[n]) >= n
           T == {n \in Nat : n <= c => Far(n)}
<1>5. 0 \in T
  <2>1. IsFiniteSet(R) /\ Cardinality(R) \in Nat
    BY <1>1, FS_Subset, FS_CardinalityType
  <2>2. Cardinality(R) >= 0
    BY <2>1
  <2> QED
    BY <1>3, <2>2
<1>6. ASSUME NEW n \in Nat, n \in T, n + 1 <= c PROVE Far(n + 1)
  <2>1. n + 1 \in 1..c /\ (n + 1) - 1 = n /\ n <= c
    BY <1>6
  <2>2. PICK S, U : S = g[n] /\ U = g[n + 1] /\ U = Further(S, next)
    BY <1>3, <2>1
  <2>3. Far(n)
    BY <1>6, <2>1
  <2>4. /\ R \subseteq S /\ S \subseteq Member /\ (Closed(S, next) \/ Cardinality(S) >= n)
        /\ \A X \in SUBSET Member : R \subseteq X /\ Closed(X, next) => S \subseteq X
    BY <2>2, <2>3
  <2> HIDE DEF Far, T
  <2>5. /\ S \subseteq U /\ U \subseteq Member
        /\ \A X \in SUBSET Member : R \subseteq X /\ Closed(X, next) => U \subseteq X
    BY <1>4, <2>2, <2>4, FurtherIs
  <2>6. IsFiniteSet(U) /\ IsFiniteSet(S) /\ Cardinality(U) \in Nat /\ Cardinality(S) \in Nat
    BY <1>1, <2>4, <2>5, FS_Subset, FS_CardinalityType
  <2>7. Closed(U, next) \/ Cardinality(U) >= n + 1
    <3>1. CASE Closed(S, next)
      BY <2>2, <3>1, FurtherIs
    <3>2. CASE ~Closed(S, next)
      <4>1. S # U
        BY <2>2, <3>2, FurtherIs
      <4>2. Cardinality(S) <= Cardinality(U) /\ Cardinality(S) # Cardinality(U)
        BY <2>5, <2>6, <4>1, FS_Subset
      <4>3. Cardinality(S) >= n
        BY <2>4, <3>2
      <4>4. Cardinality(U) >= n + 1
        BY ONLY <2>6, <4>2, <4>3, n \in Nat
      <4> QED
        BY <4>4
    <3> QED
      BY <3>1, <3>2
  <2>8. R \subseteq U
    BY <2>4, <2>5
  <2> QED
    BY <2>2, <2>5, <2>7, <2>8 DEF Far
<1>7. Nat \subseteq T
  <2>1. ASSUME NEW n \in Nat, n \in T PROVE n + 1 \in T
    <3>1. n + 1 <= c => Far(n + 1)
      BY <1>6, <2>1
    <3>2. n + 1 \in Nat
      OBVIOUS
    <3> HIDE DEF Far
    <3> QED
      BY <3>1, <3>2
  <2> HIDE DEF T
  <2> QED
    BY <1>5, <2>1, NatInd
<1>8. Far(c)
  BY <1>7
<1>9. Closed(g[c], next)
  <2>1. CASE Cardinality(g[c]) >= c
    <3>1. PICK S : S = g[c]
      OBVIOUS
    <3>2. S \subseteq Member /\ Cardinality(S) >= c
      BY <1>8, <2>1, <3>1
    <3>3. Cardinality(S) \in Nat /\ Cardinality(S) <= Cardinality(Member)
      BY <1>1, <3>2, FS_Subset, FS_CardinalityType
    <3>4. Cardinality(Member) = Cardinality(S)
      BY <1>1, <3>2, <3>3
    <3>5. S = Member
      BY <1>1, <3>2, <3>4, FS_Subset
    <3> QED
      BY <1>4, <3>1, <3>5
  <2> QED
    BY <1>8, <2>1
<1> QED
  BY <1>1, <1>2, <1>8, <1>9 DEF Closing

---------------------------------------------------------------------------
(* Walks.  A walk has seen some objects, each once, and has some left on   *)
(* its stack; all is what can be reached.                                  *)
Met(x, seen, stack) == x \in ToSet(seen) \/ \E i \in 1..Len(stack) : stack[i][1] = x
Walk(roots, seen, stack, all) ==
  /\ seen \in Seq(Member) /\ IsInjective(seen) /\ ToSet(seen) \subseteq all
  /\ stack \in Seq(Member \X Nat) /\ \A i \in 1..Len(stack) : stack[i][1] \in all
  /\ \A m \in ToSet(roots) : Met(m, seen, stack)
(* What lies behind the objects seen is seen or on the stack.              *)
Opened(seen, stack, next) == \A m \in ToSet(seen) : \A x \in next[m] : Met(x, seen, stack)

(* One object off the stack, seen before or taken now.                     *)
Taken(seen, stack, all, top, seen2, stack2) ==
  /\ top \in all /\ seen2 \in Seq(Member) /\ IsInjective(seen2) /\ ToSet(seen2) = ToSet(seen) \cup {top}
  /\ stack2 \in Seq(Member \X Nat) /\ \A i \in 1..Len(stack2) : stack2[i][1] \in all
  /\ \A i \in 1..Len(stack) : stack[i][1] = top \/ \E j \in 1..Len(stack2) : stack2[j][1] = stack[i][1]
LEMMA WalkGoes ==
  ASSUME NEW roots, NEW seen, NEW stack, NEW all, Walk(roots, seen, stack, all), NEW next,
         NEW top, NEW seen2, NEW stack2, Taken(seen, stack, all, top, seen2, stack2)
  PROVE  /\ Walk(roots, seen2, stack2, all)
         /\ Opened(seen, stack, next) /\ (top \in ToSet(seen) \/ \A x \in next[top] : Met(x, seen2, stack2))
              => Opened(seen2, stack2, next)
<1>1. \A x : Met(x, seen, stack) => Met(x, seen2, stack2)
  BY DEF Met, Taken
<1>2. Walk(roots, seen2, stack2, all)
  BY <1>1 DEF Walk, Taken
<1>3. ASSUME Opened(seen, stack, next), top \in ToSet(seen) \/ \A x \in next[top] : Met(x, seen2, stack2),
             NEW m \in ToSet(seen2), NEW x \in next[m]
      PROVE  Met(x, seen2, stack2)
  BY <1>1, <1>3 DEF Opened, Taken
<1> QED
  BY <1>2, <1>3 DEF Opened

(* What is pushed lies ahead of the rest of the stack.                     *)
OnTop(P, next, depth, shown, stack) ==
  /\ P \in Seq(Member \X Nat)
  /\ \A i \in 1..Len(P) : (P[i][1] \in ToSet(next) /\ P[i][2] = depth) \/ \E j \in 2..Len(stack) : P[i] = stack[j]
  /\ \A j \in 2..Len(stack) : \E i \in 1..Len(P) : P[i] = stack[j]
  /\ \A x \in ToSet(next) : x \in ToSet(shown) \/ \E i \in 1..Len(P) : P[i][1] = x
  /\ IsInjective(next) => Len(P) <= Len(stack) - 1 + Cardinality(ToSet(next))
LEMMA PushedIs ==
  ASSUME NEW next \in Seq(Member), NEW depth \in Nat, NEW op,
         op.shown \in Seq(Member), op.stack \in Seq(Member \X Nat), op.stack # <<>>
  PROVE  OnTop(Pushed(next, depth, op), next, depth, op.shown, op.stack)
<1>1. PICK P, stack, new, shown :
        /\ P = Pushed(next, depth, op) /\ stack = op.stack /\ shown = ToSet(op.shown)
        /\ new = Those(next, Member \ shown)
  OBVIOUS
<1>2. new \in Seq(Member) /\ ToSet(new) = ToSet(next) \cap (Member \ shown) /\ (IsInjective(next) => IsInjective(new))
  BY <1>1, ThoseOnce
<1>3. PICK ahead : ahead = [i \in DOMAIN new |-> <<new[i], depth>>]
  OBVIOUS
<1>4. ahead \in Seq(Member \X Nat) /\ Len(ahead) = Len(new) /\ \A i \in 1..Len(new) : ahead[i] = <<new[i], depth>>
  <2>1. new \in Seq(Member) /\ Len(new) \in Nat /\ DOMAIN new = 1..Len(new)
    BY <1>2
  <2>2. \A i \in 1..Len(new) : new[i] \in Member
    BY <2>1
  <2>3. ahead = [i \in 1..Len(new) |-> <<new[i], depth>>]
    BY <1>3, <2>1
  <2>4. \A i \in 1..Len(new) : ahead[i] = <<new[i], depth>> /\ ahead[i] \in Member \X Nat
    BY <2>2, <2>3
  <2>5. ahead \in [1..Len(new) -> Member \X Nat]
    BY <2>3, <2>4
  <2>6. ahead \in Seq(Member \X Nat) /\ Len(ahead) = Len(new)
    <3>1. ASSUME NEW S, NEW n \in Nat, NEW s \in [1..n -> S] PROVE s \in Seq(S) /\ Len(s) = n
      BY ONLY n \in Nat, s \in [1..n -> S]
    <3> QED
      BY ONLY <2>1, <2>5, <3>1
  <2> QED
    BY <2>4, <2>6
<1>5. PICK rest : rest = Tail(stack)
  OBVIOUS
<1>6. /\ rest \in Seq(Member \X Nat) /\ Len(rest) = Len(stack) - 1 /\ Len(stack) \in Nat
      /\ \A i \in 1..Len(rest) : rest[i] = stack[i + 1]
  BY <1>1, <1>5, HeadTailProperties
<1>7. P = ahead \o rest
  BY <1>1, <1>3, <1>5 DEF Pushed
<1>8. Len(new) \in Nat /\ Len(rest) \in Nat
  BY <1>2, <1>6
<1>9. P \in Seq(Member \X Nat) /\ Len(P) = Len(new) + Len(rest)
      /\ \A i \in 1..Len(P) : P[i] = IF i <= Len(new) THEN ahead[i] ELSE rest[i - Len(new)]
  BY <1>4, <1>6, <1>7, ConcatProperties
<1>10. /\ Len(P) = Len(new) + Len(rest) /\ Len(rest) = Len(stack) - 1 /\ Len(new) \in Nat
       /\ Len(rest) \in Nat /\ Len(stack) \in Nat
  BY <1>6, <1>8, <1>9
<1>11. \A x : x \in ToSet(new) <=> \E i \in 1..Len(new) : new[i] = x
  BY <1>2, MembersAre
<1>12. ASSUME NEW i \in 1..Len(P)
       PROVE  \/ P[i][1] \in ToSet(next) /\ P[i][2] = depth
              \/ \E j \in 2..Len(stack) : P[i] = stack[j]
  <2>1. CASE i <= Len(new)
    <3>1. i \in 1..Len(new)
      BY <1>8, <1>9, <2>1
    <3>2. P[i] = <<new[i], depth>>
      BY <1>4, <1>9, <2>1, <3>1
    <3>3. new[i] \in ToSet(next)
      BY <1>2, <1>11, <3>1
    <3> QED
      BY <3>2, <3>3
  <2>2. CASE ~(i <= Len(new))
    <3>1. PICK k \in Int : k = i - Len(new)
      <4>1. i \in Int /\ Len(new) \in Int
        BY ONLY <1>10, i \in 1..Len(P)
      <4>2. i - Len(new) \in Int
        BY ONLY <4>1
      <4> QED
        BY ONLY <4>2
    <3>2. k \in 1..Len(rest) /\ k + 1 \in 2..Len(stack)
      BY ONLY <1>10, <2>2, <3>1, i \in 1..Len(P)
    <3>3. P[i] = stack[k + 1]
      BY <1>6, <1>9, <2>2, <3>1, <3>2
    <3> QED
      BY <3>2, <3>3
  <2> QED
    BY <2>1, <2>2
<1>13. ASSUME NEW j \in 2..Len(stack) PROVE \E i \in 1..Len(P) : P[i] = stack[j]
  <2>1. PICK k \in Int : k = j - 1
    BY <1>6
  <2>2. k \in 1..Len(rest) /\ k + 1 = j
    BY <1>6, <2>1
  <2>3. PICK i \in Int : i = k + Len(new)
    BY <1>8
  <2>4. i \in 1..Len(P) /\ ~(i <= Len(new)) /\ i - Len(new) = k
    BY ONLY <1>10, <2>2, <2>3, k \in Int
  <2>5. P[i] = stack[j]
    BY <1>6, <1>9, <2>2, <2>4
  <2> QED
    BY <2>4, <2>5
<1>14. ASSUME NEW x \in ToSet(next), x \notin shown PROVE \E i \in 1..Len(P) : P[i][1] = x
  <2>1. x \in ToSet(new)
    BY <1>2, <1>14, MembersAre
  <2>2. PICK i \in 1..Len(new) : new[i] = x
    BY <1>11, <2>1
  <2>3. i \in 1..Len(P) /\ i <= Len(new)
    BY <1>8, <1>9
  <2>4. P[i] = <<x, depth>>
    BY <1>4, <1>9, <2>2, <2>3
  <2> QED
    BY <2>3, <2>4
<1>15. ASSUME IsInjective(next) PROVE Len(P) <= Len(stack) - 1 + Cardinality(ToSet(next))
  <2>1. IsFiniteSet(ToSet(next)) /\ Cardinality(ToSet(next)) = Len(next)
    BY <1>15, OnceCount
  <2>2. IsFiniteSet(ToSet(new)) /\ Cardinality(ToSet(new)) = Len(new)
    BY <1>2, <1>15, OnceCount
  <2>3. ToSet(new) \in SUBSET ToSet(next)
    BY <1>2
  <2>4. Cardinality(ToSet(new)) <= Cardinality(ToSet(next))
    BY <2>1, <2>3, FS_Subset
  <2>5. Len(next) \in Nat
    OBVIOUS
  <2> QED
    BY <1>6, <1>8, <1>9, <2>1, <2>2, <2>4, <2>5
<1>16. OnTop(P, next, depth, op.shown, stack)
  BY ONLY <1>1, <1>9, <1>12, <1>13, <1>14, <1>15 DEF OnTop
<1> QED
  BY <1>1, <1>16

(* Down: an object's depth is at most the number of objects seen before    *)
(* it, so what is not opened for its depth leaves more than MaxDepth seen. *)
Downs(seen, stack, next) ==
  /\ \A i \in 1..Len(stack) : stack[i][2] <= Len(seen)
  /\ Len(seen) > MaxDepth \/ Opened(seen, stack, next)

(* The memberships of the objects of X.                                    *)
Edges(X, next) == {p \in X \X Member : p[2] \in next[p[1]]}
(* Up: each object that was taken off or is on the stack is a root or      *)
(* stands for a membership of an object seen.                              *)
Ups(pops, seen, stack, roots, next) ==
  /\ Opened(seen, stack, next)
  /\ pops + Len(stack) <= Len(roots) + Cardinality(Edges(ToSet(seen), next))

LEMMA EdgesFinite ==
  ASSUME NEW X \in SUBSET Member, NEW next
  PROVE  IsFiniteSet(Edges(X, next)) /\ Cardinality(Edges(X, next)) \in Nat
<1>1. IsFiniteSet(X \X Member)
  BY GroupConstants, FS_Subset, FS_Product
<1>2. Edges(X, next) \in SUBSET (X \X Member)
  BY DEF Edges
<1> QED
  BY <1>1, <1>2, FS_Subset, FS_CardinalityType

LEMMA EdgesGrow ==
  ASSUME NEW X \in SUBSET Member, NEW x \in Member \ X, NEW next \in [Member -> SUBSET Member]
  PROVE  Cardinality(Edges(X \cup {x}, next)) = Cardinality(Edges(X, next)) + Cardinality(next[x])
<1>1. PICK A, B : A = Edges(X, next) /\ B = {x} \X next[x]
  OBVIOUS
<1>2. IsFiniteSet(A) /\ Cardinality(A) \in Nat
  BY <1>1, EdgesFinite
<1>3. next[x] \in SUBSET Member
  OBVIOUS
<1>4. IsFiniteSet(next[x]) /\ Cardinality(next[x]) \in Nat
  BY <1>3, GroupConstants, FS_Subset, FS_CardinalityType
<1>5. IsFiniteSet(B) /\ Cardinality(B) = Cardinality(next[x])
  <2>1. IsFiniteSet({x}) /\ Cardinality({x}) = 1
    BY FS_Singleton
  <2>2. IsFiniteSet(B) /\ Cardinality(B) = 1 * Cardinality(next[x])
    BY <1>1, <1>4, <2>1, FS_Product
  <2> QED
    BY <1>4, <2>2
<1>6. Edges(X \cup {x}, next) = A \cup B
  BY <1>1 DEF Edges
<1>7. A \cap B = {}
  BY <1>1 DEF Edges
<1>8. Cardinality(A \cap B) = 0
  BY <1>7, FS_EmptySet
<1>9. Cardinality(A \cup B) = Cardinality(A) + Cardinality(B) - Cardinality(A \cap B)
  BY <1>2, <1>5, FS_Union
<1>10. PICK a, b \in Nat : a = Cardinality(A) /\ b = Cardinality(next[x])
  BY <1>2, <1>4
<1>11. Cardinality(A \cup B) = a + b
  BY ONLY <1>5, <1>8, <1>9, <1>10
<1> QED
  BY ONLY <1>1, <1>6, <1>10, <1>11

LEMMA EdgesWithin ==
  ASSUME NEW X \in SUBSET Member, NEW Y \in SUBSET X, NEW next
  PROVE  Cardinality(Edges(Y, next)) <= Cardinality(Edges(X, next))
<1>1. Edges(Y, next) \in SUBSET Edges(X, next)
  BY DEF Edges
<1> QED
  BY <1>1, EdgesFinite, FS_Subset

LEMMA DownEnds ==
  ASSUME NEW roots, NEW seen, NEW stack, NEW all, NEW next \in [Member -> SUBSET Member],
         ToSet(roots) \subseteq Member,
         Walk(roots, seen, stack, all), Downs(seen, stack, next), stack = <<>>,
         Closing(ToSet(roots), next, all), Cardinality(all) <= MaxDepth + 1
  PROVE  all \subseteq ToSet(seen)
<1>1. \A x : ~(\E i \in 1..Len(stack) : stack[i][1] = x)
  OBVIOUS
<1>2. ToSet(seen) \subseteq all /\ all \subseteq Member
  BY DEF Walk, Closing
<1>3. CASE Opened(seen, stack, next)
  <2>1. ToSet(roots) \subseteq ToSet(seen)
    BY <1>1 DEF Walk, Met
  <2>2. Closed(ToSet(seen), next)
    BY <1>1, <1>3 DEF Opened, Met, Closed
  <2> QED
    BY <1>2, <2>1, <2>2 DEF Closing
<1>4. CASE Len(seen) > MaxDepth
  <2>1. IsFiniteSet(all) /\ Cardinality(all) \in Nat
    BY <1>2, GroupConstants, FS_Subset, FS_CardinalityType
  <2>2. Cardinality(ToSet(seen)) = Len(seen) /\ Len(seen) \in Nat
    BY OnceCount DEF Walk
  <2>3. ToSet(seen) \in SUBSET all
    BY <1>2
  <2>4. Cardinality(ToSet(seen)) <= Cardinality(all)
    BY <2>1, <2>3, FS_Subset
  <2>5. Cardinality(ToSet(seen)) = Cardinality(all)
    BY <1>4, <2>1, <2>2, <2>4, GroupConstants
  <2>6. all = ToSet(seen)
    BY <2>1, <2>3, <2>5, FS_Subset
  <2> QED
    BY <2>6
<1> QED
  BY <1>3, <1>4 DEF Downs

LEMMA UpEnds ==
  ASSUME NEW roots \in Seq(Member), NEW seen, NEW stack, NEW all, NEW next \in [Member -> SUBSET Member],
         NEW pops \in Nat,
         Walk(roots, seen, stack, all), Ups(pops, seen, stack, roots, next),
         stack = <<>> \/ pops >= MaxDepth * Len(roots) + MaxDepth,
         Closing(ToSet(roots), next, all),
         Len(roots) + Cardinality(Edges(all, next)) <= MaxDepth * (Len(roots) + 1)
  PROVE  all \subseteq ToSet(seen)
<1>1. ToSet(seen) \subseteq all /\ all \subseteq Member
  BY DEF Walk, Closing
<1>2. stack = <<>>
  <2> SUFFICES ASSUME pops >= MaxDepth * Len(roots) + MaxDepth PROVE stack = <<>>
    OBVIOUS
  <2>1. PICK n, m, k, e, f : /\ n = Len(roots) /\ m = MaxDepth /\ k = Len(stack)
                             /\ e = Cardinality(Edges(ToSet(seen), next)) /\ f = Cardinality(Edges(all, next))
    OBVIOUS
  <2>2. n \in Nat /\ m \in Nat /\ k \in Nat /\ e \in Nat /\ f \in Nat /\ e <= f
    BY <1>1, <2>1, GroupConstants, EdgesFinite, EdgesWithin DEF Walk
  <2>3. pops + k <= n + e /\ n + f <= m * (n + 1) /\ pops >= m * n + m
    BY <2>1 DEF Ups
  <2>4. m * (n + 1) = m * n + m /\ m * n \in Nat
    BY <2>2
  <2>5. k = 0
    BY <2>2, <2>3, <2>4
  <2>6. stack \in Seq(Member \X Nat) /\ Len(stack) = 0
    BY <2>1, <2>5 DEF Walk
  <2> QED
    BY <2>6
<1>3. \A x : ~(\E i \in 1..Len(stack) : stack[i][1] = x)
  BY <1>2
<1>4. ToSet(roots) \subseteq ToSet(seen)
  BY <1>3 DEF Walk, Met
<1>5. Closed(ToSet(seen), next)
  BY <1>3 DEF Ups, Opened, Met, Closed
<1> QED
  BY <1>1, <1>4, <1>5 DEF Closing

---------------------------------------------------------------------------
(* The plans of requests: which request follows which, and of which        *)
(* operation each is.                                                      *)
Words == {"free", "sam", "gadd", "gtext", "type", "below", "above", "retype", "known", "there", "join", "leave",
          "direct", "primaries", "down", "up", "show"}
After(h, recursive) ==
  IF h = "free" THEN {"sam"} ELSE IF h = "sam" THEN {"gadd"}
  ELSE IF h = "gtext" THEN {"type"} ELSE IF h = "type" THEN {"below"}
  ELSE IF h = "below" THEN {"above"} ELSE IF h = "above" THEN {"retype"}
  ELSE IF h = "known" THEN {"there", "leave"} ELSE IF h = "there" THEN {"join"}
  ELSE IF h = "direct" THEN (IF recursive THEN {"primaries", "down", "up"} ELSE {"primaries", "show"})
  ELSE IF h = "primaries" THEN (IF recursive THEN {"down"} ELSE {"show"})
  ELSE IF h \in {"down", "up"} THEN {"show"} ELSE {}
Of(h) ==
  IF h \in {"free", "sam", "gadd"} THEN {"create"}
  ELSE IF h \in {"gtext", "type", "below", "above", "retype"} THEN {"update"}
  ELSE IF h = "known" THEN {"add", "remove"} ELSE IF h \in {"there", "join"} THEN {"add"}
  ELSE IF h = "leave" THEN {"remove"}
  ELSE IF h \in {"primaries", "down"} THEN {"list members"} ELSE IF h = "up" THEN {"list groups"}
  ELSE IF h \in {"direct", "show"} THEN {"list members", "list groups"} ELSE {}
Lasts == {"gadd", "gtext", "retype", "join", "leave", "show"}

Way(todo, do, recursive) ==
  /\ todo \in Seq(Words) /\ Len(todo) > 0
  /\ \A i \in 1..Len(todo) : do \in Of(todo[i]) /\ (todo[i] \in {"down", "up"} => recursive)
  /\ \A i \in 1..Len(todo) - 1 : todo[i + 1] \in After(todo[i], recursive)
  /\ todo[Len(todo)] \in Lasts

LEMMA WayGoes ==
  ASSUME NEW todo, NEW do, NEW recursive, Way(todo, do, recursive), Len(todo) > 1
  PROVE  Way(Tail(todo), do, recursive) /\ Head(Tail(todo)) \in After(Head(todo), recursive)
<1>1. PICK n \in Nat : n = Len(todo) /\ n > 1
  BY DEF Way
<1>2. PICK t : t = Tail(todo)
  OBVIOUS
<1>3. todo \in Seq(Words) /\ todo # <<>>
  BY DEF Way
<1>4. /\ t \in Seq(Words) /\ Len(t) = n - 1 /\ \A i \in 1..n - 1 : t[i] = todo[i + 1]
  BY <1>1, <1>2, <1>3, HeadTailProperties
<1>5. t # <<>>
  BY <1>1, <1>4
<1>6. Head(t) = t[1] /\ Head(todo) = todo[1]
  BY <1>3, <1>4, <1>5
<1>7. \A i \in 1..n - 1 : i + 1 \in 1..n
  BY <1>1
<1>8. ASSUME NEW i \in 1..n - 1 PROVE do \in Of(t[i]) /\ (t[i] \in {"down", "up"} => recursive)
  BY <1>1, <1>4, <1>7 DEF Way
<1>9. ASSUME NEW i \in 1..(n - 1) - 1 PROVE t[i + 1] \in After(t[i], recursive)
  <2>1. PICK j \in 1..n - 1 : j = i + 1 /\ i \in 1..n - 1
    BY <1>1
  <2>2. t[j] = todo[j + 1] /\ t[i] = todo[j]
    BY <1>4, <2>1
  <2>3. todo[j + 1] \in After(todo[j], recursive)
    BY <1>1, <2>1 DEF Way
  <2> QED
    BY <2>1, <2>2, <2>3
<1>10. t[Len(t)] \in Lasts
  <2>1. n - 1 \in 1..n - 1 /\ (n - 1) + 1 = n
    BY <1>1
  <2>2. t[n - 1] = todo[n]
    BY <1>4, <2>1
  <2>3. todo[n] \in Lasts
    BY <1>1 DEF Way
  <2> QED
    BY <1>4, <2>2, <2>3
<1>11. Len(t) > 0
  BY <1>1, <1>4
<1>12. Way(t, do, recursive)
  BY <1>4, <1>8, <1>9, <1>10, <1>11 DEF Way
<1>13. Head(t) \in After(Head(todo), recursive)
  <2>1. 1 \in 1..n - 1 /\ 1 + 1 = 2
    BY <1>1
  <2>2. t[1] = todo[2]
    BY <1>4, <2>1
  <2>3. todo[2] \in After(todo[1], recursive)
    BY <1>1, <2>1 DEF Way
  <2> QED
    BY <1>6, <2>2, <2>3
<1> QED
  BY <1>2, <1>12, <1>13

LEMMA WayHead ==
  ASSUME NEW todo, NEW do, NEW recursive, Way(todo, do, recursive)
  PROVE  /\ do \in Of(Head(todo)) /\ (Head(todo) \in {"down", "up"} => recursive)
         /\ todo # <<>> /\ (Len(todo) > 1 \/ (Len(todo) = 1 /\ Head(todo) \in Lasts))
<1>1. PICK n \in Nat : n = Len(todo) /\ n > 0
  BY DEF Way
<1>2. todo \in Seq(Words) /\ todo # <<>> /\ Head(todo) = todo[1]
  BY <1>1 DEF Way
<1>3. 1 \in 1..n
  BY <1>1
<1>4. do \in Of(todo[1]) /\ (todo[1] \in {"down", "up"} => recursive)
  BY <1>1, <1>3 DEF Way
<1>5. n > 1 \/ (n = 1 /\ todo[1] \in Lasts)
  <2>1. todo[n] \in Lasts
    BY <1>1 DEF Way
  <2>2. CASE n = 1
    BY <2>1, <2>2
  <2>3. CASE n # 1
    <3>0. \A k \in Nat : k > 0 /\ k # 1 => k > 1
      OBVIOUS
    <3>1. n > 1
      BY ONLY <1>1, <2>3, <3>0, n \in Nat
    <3> QED
      BY <3>1
  <2> QED
    BY <2>2, <2>3
<1> QED
  BY <1>1, <1>2, <1>4, <1>5

(* The plans as they are written.                                          *)
LEMMA ConcatIs ==
  ASSUME NEW E, NEW s \in Seq(E), NEW t \in Seq(E), NEW u \in Seq(E), Len(u) = Len(s) + Len(t),
         \A i \in 1..Len(s) : u[i] = s[i], \A i \in 1..Len(t) : u[i + Len(s)] = t[i]
  PROVE  s \o t = u
<1>1. PICK w : w = s \o t
  OBVIOUS
<1>2. /\ w \in Seq(E) /\ Len(w) = Len(u) /\ Len(s) \in Nat /\ Len(t) \in Nat
      /\ \A i \in 1..Len(w) : w[i] = IF i <= Len(s) THEN s[i] ELSE t[i - Len(s)]
  BY <1>1, ConcatProperties
<1>3. ASSUME NEW i \in 1..Len(u) PROVE w[i] = u[i]
  <2>1. CASE i <= Len(s)
    <3>1. i \in 1..Len(s)
      BY <1>2, <2>1
    <3> QED
      BY <1>2, <2>1, <3>1
  <2>2. CASE ~(i <= Len(s))
    <3>0. PICK m \in Nat, n \in Nat : m = Len(s) /\ n = Len(t)
      BY <1>2
    <3>1. i \in 1..m + n /\ ~(i <= m)
      BY <2>2, <3>0
    <3>2. i - m \in 1..n /\ (i - m) + m = i
      BY ONLY <3>1, m \in Nat, n \in Nat
    <3>3. u[(i - m) + m] = t[i - m]
      BY <3>0, <3>2
    <3>4. w[i] = t[i - m]
      BY <1>2, <2>2, <3>0
    <3> QED
      BY <3>2, <3>3, <3>4
  <2> QED
    BY <2>1, <2>2
<1>4. w = [i \in 1..Len(u) |-> w[i]] /\ u = [i \in 1..Len(u) |-> u[i]]
  BY <1>2
<1> QED
  BY <1>1, <1>3, <1>4

LEMMA TupleIs ==
  ASSUME NEW n \in Nat, NEW t, t = [i \in 1..n |-> t[i]], \A i \in 1..n : t[i] \in Words
  PROVE  t \in Seq(Words)
<1>1. t \in [1..n -> Words]
  OBVIOUS
<1> QED
  BY <1>1, SeqDef

LEMMA One ==
  ASSUME NEW a \in Words,
         NEW t, t = <<a>>
  PROVE  t \in Seq(Words) /\ Len(t) = 1 /\ t[1] = a
<1>1. t = [i \in 1..1 |-> t[i]]
  OBVIOUS
<1>2. Len(t) = 1 /\ t[1] = a
  OBVIOUS
<1>3. \A i \in 1..1 : i = 1
  OBVIOUS
<1>4. \A i \in 1..1 : t[i] \in Words
  BY <1>2, <1>3
<1> QED
  BY <1>1, <1>2, <1>4, TupleIs

LEMMA Two ==
  ASSUME NEW a \in Words, NEW b \in Words,
         NEW t, t = <<a, b>>
  PROVE  t \in Seq(Words) /\ Len(t) = 2 /\ t[1] = a /\ t[2] = b
<1>1. t = [i \in 1..2 |-> t[i]]
  OBVIOUS
<1>2. Len(t) = 2 /\ t[1] = a /\ t[2] = b
  OBVIOUS
<1>3. \A i \in 1..2 : i = 1 \/ i = 2
  OBVIOUS
<1>4. \A i \in 1..2 : t[i] \in Words
  BY <1>2, <1>3
<1> QED
  BY <1>1, <1>2, <1>4, TupleIs

LEMMA Three ==
  ASSUME NEW a \in Words, NEW b \in Words, NEW c \in Words,
         NEW t, t = <<a, b, c>>
  PROVE  t \in Seq(Words) /\ Len(t) = 3 /\ t[1] = a /\ t[2] = b /\ t[3] = c
<1>1. t = [i \in 1..3 |-> t[i]]
  OBVIOUS
<1>2. Len(t) = 3 /\ t[1] = a /\ t[2] = b /\ t[3] = c
  OBVIOUS
<1>3. \A i \in 1..3 : i = 1 \/ i = 2 \/ i = 3
  OBVIOUS
<1>4. \A i \in 1..3 : t[i] \in Words
  BY <1>2, <1>3
<1> QED
  BY <1>1, <1>2, <1>4, TupleIs

LEMMA Four ==
  ASSUME NEW a \in Words, NEW b \in Words, NEW c \in Words, NEW d \in Words,
         NEW t, t = <<a, b, c, d>>
  PROVE  t \in Seq(Words) /\ Len(t) = 4 /\ t[1] = a /\ t[2] = b /\ t[3] = c /\ t[4] = d
<1>1. t = [i \in 1..4 |-> t[i]]
  OBVIOUS
<1>2. Len(t) = 4 /\ t[1] = a /\ t[2] = b /\ t[3] = c /\ t[4] = d
  OBVIOUS
<1>3. \A i \in 1..4 : i = 1 \/ i = 2 \/ i = 3 \/ i = 4
  OBVIOUS
<1>4. \A i \in 1..4 : t[i] \in Words
  BY <1>2, <1>3
<1> QED
  BY <1>1, <1>2, <1>4, TupleIs

LEMMA UpToFour == \A i \in 1..4 : i = 1 \/ i = 2 \/ i = 3 \/ i = 4
  OBVIOUS

LEMMA JoinsOne ==
  ASSUME NEW a \in Words, NEW b \in Words
  PROVE  <<a>> \o <<b>> = <<a, b>>
<1>1. PICK s : s = <<a>>
  OBVIOUS
<1>2. PICK t : t = <<b>>
  OBVIOUS
<1>3. PICK u : u = <<a, b>>
  OBVIOUS
<1>4. s \in Seq(Words) /\ Len(s) = 1 /\ s[1] = a
  BY ONLY <1>1, One, a \in Words, b \in Words
<1>5. t \in Seq(Words) /\ Len(t) = 1 /\ t[1] = b
  BY ONLY <1>2, One, a \in Words, b \in Words
<1>6. u \in Seq(Words) /\ Len(u) = 2 /\ u[1] = a /\ u[2] = b
  BY ONLY <1>3, Two, a \in Words, b \in Words
<1>7. \A i \in 1..1 : i = 1
  OBVIOUS
<1>8. \A i \in 1..1 : i = 1
  OBVIOUS
<1>9. \A i \in 1..Len(s) : u[i] = s[i]
  BY ONLY <1>4, <1>6, <1>7
<1>10. u[1 + Len(s)] = t[1]
  <2>1. 1 + Len(s) = 2
    BY ONLY <1>4
  <2>2. u[2] = t[1]
    BY ONLY <1>5, <1>6
  <2> QED
    BY ONLY <2>1, <2>2
<1>11. \A i \in 1..Len(t) : u[i + Len(s)] = t[i]
  BY ONLY <1>5, <1>8, <1>10
<1>12. Len(u) = Len(s) + Len(t)
  BY ONLY <1>4, <1>5, <1>6
<1>13. s \o t = u
  BY ONLY <1>4, <1>5, <1>6, <1>9, <1>11, <1>12, ConcatIs
<1> QED
  BY ONLY <1>1, <1>2, <1>3, <1>13

LEMMA JoinsTwo ==
  ASSUME NEW a \in Words, NEW b \in Words, NEW c \in Words
  PROVE  <<a, b>> \o <<c>> = <<a, b, c>>
<1>1. PICK s : s = <<a, b>>
  OBVIOUS
<1>2. PICK t : t = <<c>>
  OBVIOUS
<1>3. PICK u : u = <<a, b, c>>
  OBVIOUS
<1>4. s \in Seq(Words) /\ Len(s) = 2 /\ s[1] = a /\ s[2] = b
  BY ONLY <1>1, Two, a \in Words, b \in Words, c \in Words
<1>5. t \in Seq(Words) /\ Len(t) = 1 /\ t[1] = c
  BY ONLY <1>2, One, a \in Words, b \in Words, c \in Words
<1>6. u \in Seq(Words) /\ Len(u) = 3 /\ u[1] = a /\ u[2] = b /\ u[3] = c
  BY ONLY <1>3, Three, a \in Words, b \in Words, c \in Words
<1>7. \A i \in 1..2 : i = 1 \/ i = 2
  OBVIOUS
<1>8. \A i \in 1..1 : i = 1
  OBVIOUS
<1>9. \A i \in 1..Len(s) : u[i] = s[i]
  BY ONLY <1>4, <1>6, <1>7
<1>10. u[1 + Len(s)] = t[1]
  <2>1. 1 + Len(s) = 3
    BY ONLY <1>4
  <2>2. u[3] = t[1]
    BY ONLY <1>5, <1>6
  <2> QED
    BY ONLY <2>1, <2>2
<1>11. \A i \in 1..Len(t) : u[i + Len(s)] = t[i]
  BY ONLY <1>5, <1>8, <1>10
<1>12. Len(u) = Len(s) + Len(t)
  BY ONLY <1>4, <1>5, <1>6
<1>13. s \o t = u
  BY ONLY <1>4, <1>5, <1>6, <1>9, <1>11, <1>12, ConcatIs
<1> QED
  BY ONLY <1>1, <1>2, <1>3, <1>13

LEMMA JoinsThree ==
  ASSUME NEW a \in Words, NEW b \in Words, NEW c \in Words, NEW d \in Words
  PROVE  <<a, b, c>> \o <<d>> = <<a, b, c, d>>
<1>1. PICK s : s = <<a, b, c>>
  OBVIOUS
<1>2. PICK t : t = <<d>>
  OBVIOUS
<1>3. PICK u : u = <<a, b, c, d>>
  OBVIOUS
<1>4. s \in Seq(Words) /\ Len(s) = 3 /\ s[1] = a /\ s[2] = b /\ s[3] = c
  BY ONLY <1>1, Three, a \in Words, b \in Words, c \in Words, d \in Words
<1>5. t \in Seq(Words) /\ Len(t) = 1 /\ t[1] = d
  BY ONLY <1>2, One, a \in Words, b \in Words, c \in Words, d \in Words
<1>6. u \in Seq(Words) /\ Len(u) = 4 /\ u[1] = a /\ u[2] = b /\ u[3] = c /\ u[4] = d
  BY ONLY <1>3, Four, a \in Words, b \in Words, c \in Words, d \in Words
<1>7. \A i \in 1..3 : i = 1 \/ i = 2 \/ i = 3
  OBVIOUS
<1>8. \A i \in 1..1 : i = 1
  OBVIOUS
<1>9. \A i \in 1..Len(s) : u[i] = s[i]
  BY ONLY <1>4, <1>6, <1>7
<1>10. u[1 + Len(s)] = t[1]
  <2>1. 1 + Len(s) = 4
    BY ONLY <1>4
  <2>2. u[4] = t[1]
    BY ONLY <1>5, <1>6
  <2> QED
    BY ONLY <2>1, <2>2
<1>11. \A i \in 1..Len(t) : u[i + Len(s)] = t[i]
  BY ONLY <1>5, <1>8, <1>10
<1>12. Len(u) = Len(s) + Len(t)
  BY ONLY <1>4, <1>5, <1>6
<1>13. s \o t = u
  BY ONLY <1>4, <1>5, <1>6, <1>9, <1>11, <1>12, ConcatIs
<1> QED
  BY ONLY <1>1, <1>2, <1>3, <1>13

LEMMA JoinsFour ==
  ASSUME NEW a \in Words, NEW b \in Words, NEW c \in Words, NEW d \in Words, NEW e \in Words
  PROVE  <<a>> \o <<b, c, d, e>> = <<a, b, c, d, e>>
<1>1. PICK s : s = <<a>>
  OBVIOUS
<1>2. PICK t : t = <<b, c, d, e>>
  OBVIOUS
<1>3. PICK u : u = <<a, b, c, d, e>>
  OBVIOUS
<1>4. s \in Seq(Words) /\ Len(s) = 1 /\ s[1] = a
  BY ONLY <1>1, One, a \in Words, b \in Words, c \in Words, d \in Words, e \in Words
<1>5. t \in Seq(Words) /\ Len(t) = 4 /\ t[1] = b /\ t[2] = c /\ t[3] = d /\ t[4] = e
  BY ONLY <1>2, Four, a \in Words, b \in Words, c \in Words, d \in Words, e \in Words
<1>6. u \in Seq(Words) /\ Len(u) = 5 /\ u[1] = a /\ u[2] = b /\ u[3] = c /\ u[4] = d /\ u[5] = e
  <2>1. u = [i \in 1..5 |-> u[i]]
    BY <1>3
  <2>2. Len(u) = 5 /\ u[1] = a /\ u[2] = b /\ u[3] = c /\ u[4] = d /\ u[5] = e
    BY <1>3
  <2>3. \A i \in 1..5 : i = 1 \/ i = 2 \/ i = 3 \/ i = 4 \/ i = 5
    OBVIOUS
  <2>4. \A i \in 1..5 : u[i] \in Words
    BY <2>2, <2>3
  <2> QED
    BY <2>1, <2>2, <2>4, TupleIs
<1>7. \A i \in 1..1 : i = 1
  OBVIOUS
<1>8. \A i \in 1..4 : i = 1 \/ i = 2 \/ i = 3 \/ i = 4
  BY ONLY UpToFour
<1>9. \A i \in 1..Len(s) : u[i] = s[i]
  BY ONLY <1>4, <1>6, <1>7
<1>10. u[1 + Len(s)] = t[1] /\ u[2 + Len(s)] = t[2] /\ u[3 + Len(s)] = t[3] /\ u[4 + Len(s)] = t[4]
  <2>1. 1 + Len(s) = 2
    BY ONLY <1>4
  <2>2. u[2] = t[1]
    BY ONLY <1>5, <1>6
  <2>3. 2 + Len(s) = 3
    BY ONLY <1>4
  <2>4. u[3] = t[2]
    BY ONLY <1>5, <1>6
  <2>5. 3 + Len(s) = 4
    BY ONLY <1>4
  <2>6. u[4] = t[3]
    BY ONLY <1>5, <1>6
  <2>7. 4 + Len(s) = 5
    BY ONLY <1>4
  <2>8. u[5] = t[4]
    BY ONLY <1>5, <1>6
  <2> QED
    BY ONLY <2>1, <2>2, <2>3, <2>4, <2>5, <2>6, <2>7, <2>8
<1>11. \A i \in 1..Len(t) : u[i + Len(s)] = t[i]
  BY ONLY <1>5, <1>8, <1>10
<1>12. Len(u) = Len(s) + Len(t)
  BY ONLY <1>4, <1>5, <1>6
<1>13. s \o t = u
  BY ONLY <1>4, <1>5, <1>6, <1>9, <1>11, <1>12, ConcatIs
<1> QED
  BY ONLY <1>1, <1>2, <1>3, <1>13

LEMMA UpToFive ==
  /\ \A i \in 1..1 : i = 1
  /\ \A i \in 1..2 : i = 1 \/ i = 2
  /\ \A i \in 1..3 : i = 1 \/ i = 2 \/ i = 3
  /\ \A i \in 1..4 : i = 1 \/ i = 2 \/ i = 3 \/ i = 4
  /\ \A i \in 1..5 : i = 1 \/ i = 2 \/ i = 3 \/ i = 4 \/ i = 5
  /\ \A i \in 1..2 - 1 : i = 1
  /\ \A i \in 1..3 - 1 : i = 1 \/ i = 2
  /\ \A i \in 1..4 - 1 : i = 1 \/ i = 2 \/ i = 3
  /\ \A i \in 1..5 - 1 : i = 1 \/ i = 2 \/ i = 3 \/ i = 4
  OBVIOUS

LEMMA OneWay ==
  ASSUME NEW a \in Words, NEW do, NEW recursive,
         do \in Of(a), a \in {"down", "up"} => recursive,
         a \in Lasts
  PROVE  Way(<<a>>, do, recursive)
<1>1. PICK t : t = <<a>>
  OBVIOUS
<1>2. t \in Seq(Words) /\ Len(t) = 1 /\ t[1] = a
  BY ONLY <1>1, One, a \in Words
<1>3. \A i \in 1..1 : i = 1
  BY ONLY UpToFive
<1>4. \A i \in 1..1 : do \in Of(t[i]) /\ (t[i] \in {"down", "up"} => recursive)
  BY <1>2, <1>3
<1>5. \A i \in 1..1 - 1 : t[i + 1] \in After(t[i], recursive)
  OBVIOUS
<1>6. t[Len(t)] \in Lasts
  BY <1>2
<1>7. Len(t) > 0
  BY <1>2
<1>8. Way(t, do, recursive)
  BY ONLY <1>2, <1>4, <1>5, <1>6, <1>7 DEF Way
<1> QED
  BY <1>1, <1>8

LEMMA TwoWay ==
  ASSUME NEW a \in Words, NEW b \in Words, NEW do, NEW recursive,
         do \in Of(a), a \in {"down", "up"} => recursive,
         do \in Of(b), b \in {"down", "up"} => recursive,
         b \in After(a, recursive),
         b \in Lasts
  PROVE  Way(<<a, b>>, do, recursive)
<1>1. PICK t : t = <<a, b>>
  OBVIOUS
<1>2. t \in Seq(Words) /\ Len(t) = 2 /\ t[1] = a /\ t[2] = b
  BY ONLY <1>1, Two, a \in Words, b \in Words
<1>3. \A i \in 1..2 : i = 1 \/ i = 2
  BY ONLY UpToFive
<1>4. \A i \in 1..2 : do \in Of(t[i]) /\ (t[i] \in {"down", "up"} => recursive)
  BY <1>2, <1>3
<1>5. \A i \in 1..2 - 1 : i = 1
  BY ONLY UpToFive
<1>6. t[1 + 1] \in After(t[1], recursive)
  BY <1>2
<1>7. \A i \in 1..2 - 1 : t[i + 1] \in After(t[i], recursive)
  BY ONLY <1>5, <1>6
<1>8. t[Len(t)] \in Lasts
  BY <1>2
<1>9. Len(t) > 0
  BY <1>2
<1>10. Way(t, do, recursive)
  BY ONLY <1>2, <1>4, <1>7, <1>8, <1>9 DEF Way
<1> QED
  BY <1>1, <1>10

LEMMA ThreeWay ==
  ASSUME NEW a \in Words, NEW b \in Words, NEW c \in Words, NEW do, NEW recursive,
         do \in Of(a), a \in {"down", "up"} => recursive,
         do \in Of(b), b \in {"down", "up"} => recursive,
         do \in Of(c), c \in {"down", "up"} => recursive,
         b \in After(a, recursive),
         c \in After(b, recursive),
         c \in Lasts
  PROVE  Way(<<a, b, c>>, do, recursive)
<1>1. PICK t : t = <<a, b, c>>
  OBVIOUS
<1>2. t \in Seq(Words) /\ Len(t) = 3 /\ t[1] = a /\ t[2] = b /\ t[3] = c
  BY ONLY <1>1, Three, a \in Words, b \in Words, c \in Words
<1>3. \A i \in 1..3 : i = 1 \/ i = 2 \/ i = 3
  BY ONLY UpToFive
<1>4. \A i \in 1..3 : do \in Of(t[i]) /\ (t[i] \in {"down", "up"} => recursive)
  BY <1>2, <1>3
<1>5. \A i \in 1..3 - 1 : i = 1 \/ i = 2
  BY ONLY UpToFive
<1>6. t[1 + 1] \in After(t[1], recursive) /\ t[2 + 1] \in After(t[2], recursive)
  BY <1>2
<1>7. \A i \in 1..3 - 1 : t[i + 1] \in After(t[i], recursive)
  BY ONLY <1>5, <1>6
<1>8. t[Len(t)] \in Lasts
  BY <1>2
<1>9. Len(t) > 0
  BY <1>2
<1>10. Way(t, do, recursive)
  BY ONLY <1>2, <1>4, <1>7, <1>8, <1>9 DEF Way
<1> QED
  BY <1>1, <1>10

LEMMA FourWay ==
  ASSUME NEW a \in Words, NEW b \in Words, NEW c \in Words, NEW d \in Words, NEW do, NEW recursive,
         do \in Of(a), a \in {"down", "up"} => recursive,
         do \in Of(b), b \in {"down", "up"} => recursive,
         do \in Of(c), c \in {"down", "up"} => recursive,
         do \in Of(d), d \in {"down", "up"} => recursive,
         b \in After(a, recursive),
         c \in After(b, recursive),
         d \in After(c, recursive),
         d \in Lasts
  PROVE  Way(<<a, b, c, d>>, do, recursive)
<1>1. PICK t : t = <<a, b, c, d>>
  OBVIOUS
<1>2. t \in Seq(Words) /\ Len(t) = 4 /\ t[1] = a /\ t[2] = b /\ t[3] = c /\ t[4] = d
  BY ONLY <1>1, Four, a \in Words, b \in Words, c \in Words, d \in Words
<1>3. \A i \in 1..4 : i = 1 \/ i = 2 \/ i = 3 \/ i = 4
  BY ONLY UpToFive
<1>4. \A i \in 1..4 : do \in Of(t[i]) /\ (t[i] \in {"down", "up"} => recursive)
  BY <1>2, <1>3
<1>5. \A i \in 1..4 - 1 : i = 1 \/ i = 2 \/ i = 3
  BY ONLY UpToFive
<1>6. /\ t[1 + 1] \in After(t[1], recursive) /\ t[2 + 1] \in After(t[2], recursive)
      /\ t[3 + 1] \in After(t[3], recursive)
  BY <1>2
<1>7. \A i \in 1..4 - 1 : t[i + 1] \in After(t[i], recursive)
  BY ONLY <1>5, <1>6
<1>8. t[Len(t)] \in Lasts
  BY <1>2
<1>9. Len(t) > 0
  BY <1>2
<1>10. Way(t, do, recursive)
  BY ONLY <1>2, <1>4, <1>7, <1>8, <1>9 DEF Way
<1> QED
  BY <1>1, <1>10

LEMMA FiveWay ==
  ASSUME NEW a \in Words, NEW b \in Words, NEW c \in Words, NEW d \in Words, NEW e \in Words, NEW do, NEW recursive,
         do \in Of(a), a \in {"down", "up"} => recursive,
         do \in Of(b), b \in {"down", "up"} => recursive,
         do \in Of(c), c \in {"down", "up"} => recursive,
         do \in Of(d), d \in {"down", "up"} => recursive,
         do \in Of(e), e \in {"down", "up"} => recursive,
         b \in After(a, recursive),
         c \in After(b, recursive),
         d \in After(c, recursive),
         e \in After(d, recursive),
         e \in Lasts
  PROVE  Way(<<a, b, c, d, e>>, do, recursive)
<1>1. PICK t : t = <<a, b, c, d, e>>
  OBVIOUS
<1>2. t \in Seq(Words) /\ Len(t) = 5 /\ t[1] = a /\ t[2] = b /\ t[3] = c /\ t[4] = d /\ t[5] = e
  <2>1. t = [i \in 1..5 |-> t[i]]
    BY <1>1
  <2>2. Len(t) = 5 /\ t[1] = a /\ t[2] = b /\ t[3] = c /\ t[4] = d /\ t[5] = e
    BY <1>1
  <2>3. \A i \in 1..5 : i = 1 \/ i = 2 \/ i = 3 \/ i = 4 \/ i = 5
    OBVIOUS
  <2>4. \A i \in 1..5 : t[i] \in Words
    BY <2>2, <2>3
  <2> QED
    BY <2>1, <2>2, <2>4, TupleIs
<1>3. \A i \in 1..5 : i = 1 \/ i = 2 \/ i = 3 \/ i = 4 \/ i = 5
  BY ONLY UpToFive
<1>4. \A i \in 1..5 : do \in Of(t[i]) /\ (t[i] \in {"down", "up"} => recursive)
  BY <1>2, <1>3
<1>5. \A i \in 1..5 - 1 : i = 1 \/ i = 2 \/ i = 3 \/ i = 4
  BY ONLY UpToFive
<1>6. /\ t[1 + 1] \in After(t[1], recursive) /\ t[2 + 1] \in After(t[2], recursive)
      /\ t[3 + 1] \in After(t[3], recursive) /\ t[4 + 1] \in After(t[4], recursive)
  BY <1>2
<1>7. \A i \in 1..5 - 1 : t[i + 1] \in After(t[i], recursive)
  BY ONLY <1>5, <1>6
<1>8. t[Len(t)] \in Lasts
  BY <1>2
<1>9. Len(t) > 0
  BY <1>2
<1>10. Way(t, do, recursive)
  BY ONLY <1>2, <1>4, <1>7, <1>8, <1>9 DEF Way
<1> QED
  BY <1>1, <1>10

LEMMA PlanIs ==
  ASSUME NEW r \in GRequest, GPlan(r) # <<>>
  PROVE  /\ Way(GPlan(r), r.do, r.recursive)
         /\ Head(GPlan(r)) \in {"free", "gtext", "type", "known", "direct"}
<1>0. PICK p : p = GPlan(r)
  OBVIOUS
<1>1. CASE r.do = "create"
  <2>1. p = <<"free", "sam", "gadd">>
    BY <1>0, <1>1 DEF GPlan
  <2>2. Way(<<"free", "sam", "gadd">>, r.do, r.recursive)
    <3>1. "free" \in Words /\ "sam" \in Words /\ "gadd" \in Words
      BY DEF Words
    <3>2. r.do \in Of("free") /\ r.do \in Of("sam") /\ r.do \in Of("gadd")
      BY <1>1 DEF Of
    <3>3. /\ ("free" \in {"down", "up"} => r.recursive) /\ ("sam" \in {"down", "up"} => r.recursive)
          /\ ("gadd" \in {"down", "up"} => r.recursive)
      OBVIOUS
    <3>4. "sam" \in After("free", r.recursive) /\ "gadd" \in After("sam", r.recursive)
      BY DEF After
    <3>5. "gadd" \in Lasts
      BY DEF Lasts
    <3> QED
      BY ONLY <3>1, <3>2, <3>3, <3>4, <3>5, ThreeWay
  <2> QED
    BY <1>0, <2>1, <2>2
<1>2. CASE r.do = "add"
  <2>1. p = <<"known", "there", "join">>
    BY <1>0, <1>2 DEF GPlan
  <2>2. Way(<<"known", "there", "join">>, r.do, r.recursive)
    <3>1. "known" \in Words /\ "there" \in Words /\ "join" \in Words
      BY DEF Words
    <3>2. r.do \in Of("known") /\ r.do \in Of("there") /\ r.do \in Of("join")
      BY <1>2 DEF Of
    <3>3. /\ ("known" \in {"down", "up"} => r.recursive) /\ ("there" \in {"down", "up"} => r.recursive)
          /\ ("join" \in {"down", "up"} => r.recursive)
      OBVIOUS
    <3>4. "there" \in After("known", r.recursive) /\ "join" \in After("there", r.recursive)
      BY DEF After
    <3>5. "join" \in Lasts
      BY DEF Lasts
    <3> QED
      BY ONLY <3>1, <3>2, <3>3, <3>4, <3>5, ThreeWay
  <2> QED
    BY <1>0, <2>1, <2>2
<1>3. CASE r.do = "remove"
  <2>1. p = <<"known", "leave">>
    BY <1>0, <1>3 DEF GPlan
  <2>2. Way(<<"known", "leave">>, r.do, r.recursive)
    <3>1. "known" \in Words /\ "leave" \in Words
      BY DEF Words
    <3>2. r.do \in Of("known") /\ r.do \in Of("leave")
      BY <1>3 DEF Of
    <3>3. ("known" \in {"down", "up"} => r.recursive) /\ ("leave" \in {"down", "up"} => r.recursive)
      OBVIOUS
    <3>4. "leave" \in After("known", r.recursive)
      BY DEF After
    <3>5. "leave" \in Lasts
      BY DEF Lasts
    <3> QED
      BY ONLY <3>1, <3>2, <3>3, <3>4, <3>5, TwoWay
  <2> QED
    BY <1>0, <2>1, <2>2
<1>4. CASE r.do = "update"
  <2>0. PICK s, t : /\ s = IF r.text THEN <<"gtext">> ELSE <<>>
                    /\ t = IF r.scope = "as is" /\ r.security = "as is" THEN <<>> ELSE <<"type", "below", "above", "retype">>
    OBVIOUS
  <2>1. p = s \o t
    BY <1>0, <1>4, <2>0 DEF GPlan
  <2>2. Way(<<"gtext">>, r.do, r.recursive)
    <3>1. "gtext" \in Words
      BY DEF Words
    <3>2. r.do \in Of("gtext")
      BY <1>4 DEF Of
    <3>3. ("gtext" \in {"down", "up"} => r.recursive)
      OBVIOUS
    <3>4. "gtext" \in Lasts
      BY DEF Lasts
    <3> QED
      BY ONLY <3>1, <3>2, <3>3, <3>4, OneWay
  <2>3. Way(<<"type", "below", "above", "retype">>, r.do, r.recursive)
    <3>1. "type" \in Words /\ "below" \in Words /\ "above" \in Words /\ "retype" \in Words
      BY DEF Words
    <3>2. r.do \in Of("type") /\ r.do \in Of("below") /\ r.do \in Of("above") /\ r.do \in Of("retype")
      BY <1>4 DEF Of
    <3>3. /\ ("type" \in {"down", "up"} => r.recursive) /\ ("below" \in {"down", "up"} => r.recursive)
          /\ ("above" \in {"down", "up"} => r.recursive) /\ ("retype" \in {"down", "up"} => r.recursive)
      OBVIOUS
    <3>4. /\ "below" \in After("type", r.recursive) /\ "above" \in After("below", r.recursive)
          /\ "retype" \in After("above", r.recursive)
      BY DEF After
    <3>5. "retype" \in Lasts
      BY DEF Lasts
    <3> QED
      BY ONLY <3>1, <3>2, <3>3, <3>4, <3>5, FourWay
  <2>4. Way(<<"gtext", "type", "below", "above", "retype">>, r.do, r.recursive)
    <3>1. "gtext" \in Words /\ "type" \in Words /\ "below" \in Words /\ "above" \in Words /\ "retype" \in Words
      BY DEF Words
    <3>2. /\ r.do \in Of("gtext") /\ r.do \in Of("type") /\ r.do \in Of("below") /\ r.do \in Of("above")
          /\ r.do \in Of("retype")
      BY <1>4 DEF Of
    <3>3. /\ ("gtext" \in {"down", "up"} => r.recursive) /\ ("type" \in {"down", "up"} => r.recursive)
          /\ ("below" \in {"down", "up"} => r.recursive) /\ ("above" \in {"down", "up"} => r.recursive)
          /\ ("retype" \in {"down", "up"} => r.recursive)
      OBVIOUS
    <3>4. /\ "type" \in After("gtext", r.recursive) /\ "below" \in After("type", r.recursive)
          /\ "above" \in After("below", r.recursive) /\ "retype" \in After("above", r.recursive)
      BY DEF After
    <3>5. "retype" \in Lasts
      BY DEF Lasts
    <3> QED
      BY ONLY <3>1, <3>2, <3>3, <3>4, <3>5, FiveWay
  <2>5. <<"gtext">> \o <<>> = <<"gtext">>
    <3>1. "gtext" \in Words
      BY DEF Words
    <3>2. <<"gtext">> \in Seq(Words)
      BY ONLY <3>1, One
    <3> QED
      BY ONLY <3>2, ConcatEmptySeq
  <2>6. <<>> \o <<"type", "below", "above", "retype">> = <<"type", "below", "above", "retype">>
    <3>1. "type" \in Words /\ "below" \in Words /\ "above" \in Words /\ "retype" \in Words
      BY DEF Words
    <3>2. <<"type", "below", "above", "retype">> \in Seq(Words)
      BY ONLY <3>1, Four
    <3> QED
      BY ONLY <3>2, ConcatEmptySeq
  <2>7. <<"gtext">> \o <<"type", "below", "above", "retype">> = <<"gtext", "type", "below", "above", "retype">>
    <3>1. "gtext" \in Words /\ "type" \in Words /\ "below" \in Words /\ "above" \in Words /\ "retype" \in Words
      BY DEF Words
    <3> QED
      BY ONLY <3>1, JoinsFour
  <2>8. <<>> \o <<>> = <<>>
    BY EmptySeq, ConcatEmptySeq
  <2>9. p \in {<<>>, <<"gtext">>, <<"type", "below", "above", "retype">>, <<"gtext", "type", "below", "above", "retype">>}
    BY ONLY <2>0, <2>1, <2>5, <2>6, <2>7, <2>8
  <2> QED
    BY <1>0, <2>2, <2>3, <2>4, <2>9
<1>5. CASE r.do = "list members"
  <2>0. PICK s, t : /\ s = IF r.primary THEN <<"primaries">> ELSE <<>>
                    /\ t = IF r.recursive THEN <<"down">> ELSE <<>>
    OBVIOUS
  <2>1. p = <<"direct">> \o s \o t \o <<"show">>
    BY <1>0, <1>5, <2>0 DEF GPlan
  <2>2. <<"direct">> \o <<"primaries">> = <<"direct", "primaries">>
    <3>1. "direct" \in Words /\ "primaries" \in Words
      BY DEF Words
    <3> QED
      BY ONLY <3>1, JoinsOne
  <2>3. <<"direct">> \o <<>> = <<"direct">>
    <3>1. "direct" \in Words
      BY DEF Words
    <3>2. <<"direct">> \in Seq(Words)
      BY ONLY <3>1, One
    <3> QED
      BY ONLY <3>2, ConcatEmptySeq
  <2>4. <<"direct", "primaries">> \o <<"down">> = <<"direct", "primaries", "down">>
    <3>1. "direct" \in Words /\ "primaries" \in Words /\ "down" \in Words
      BY DEF Words
    <3> QED
      BY ONLY <3>1, JoinsTwo
  <2>5. <<"direct">> \o <<"down">> = <<"direct", "down">>
    <3>1. "direct" \in Words /\ "down" \in Words
      BY DEF Words
    <3> QED
      BY ONLY <3>1, JoinsOne
  <2>6. <<"direct", "primaries">> \o <<>> = <<"direct", "primaries">>
    <3>1. "direct" \in Words /\ "primaries" \in Words
      BY DEF Words
    <3>2. <<"direct", "primaries">> \in Seq(Words)
      BY ONLY <3>1, Two
    <3> QED
      BY ONLY <3>2, ConcatEmptySeq
  <2>7. <<"direct", "primaries", "down">> \o <<"show">> = <<"direct", "primaries", "down", "show">>
    <3>1. "direct" \in Words /\ "primaries" \in Words /\ "down" \in Words /\ "show" \in Words
      BY DEF Words
    <3> QED
      BY ONLY <3>1, JoinsThree
  <2>8. <<"direct", "primaries">> \o <<"show">> = <<"direct", "primaries", "show">>
    <3>1. "direct" \in Words /\ "primaries" \in Words /\ "show" \in Words
      BY DEF Words
    <3> QED
      BY ONLY <3>1, JoinsTwo
  <2>9. <<"direct", "down">> \o <<"show">> = <<"direct", "down", "show">>
    <3>1. "direct" \in Words /\ "down" \in Words /\ "show" \in Words
      BY DEF Words
    <3> QED
      BY ONLY <3>1, JoinsTwo
  <2>10. <<"direct">> \o <<"show">> = <<"direct", "show">>
    <3>1. "direct" \in Words /\ "show" \in Words
      BY DEF Words
    <3> QED
      BY ONLY <3>1, JoinsOne
  <2>11. <<"direct">> \o s = IF r.primary THEN <<"direct", "primaries">> ELSE <<"direct">>
    BY ONLY <2>0, <2>2, <2>3
  <2>12. <<"direct">> \o s \o t =
           IF r.primary THEN (IF r.recursive THEN <<"direct", "primaries", "down">> ELSE <<"direct", "primaries">>)
                                  ELSE (IF r.recursive THEN <<"direct", "down">> ELSE <<"direct">>)
    BY ONLY <2>0, <2>3, <2>4, <2>5, <2>6, <2>11
  <2>13. p = IF r.primary THEN (IF r.recursive THEN <<"direct", "primaries", "down", "show">>
                                ELSE <<"direct", "primaries", "show">>)
             ELSE (IF r.recursive THEN <<"direct", "down", "show">> ELSE <<"direct", "show">>)
    BY ONLY <2>1, <2>7, <2>8, <2>9, <2>10, <2>12
  <2>14. r.recursive => Way(<<"direct", "primaries", "down", "show">>, r.do, r.recursive)
    <3> SUFFICES ASSUME r.recursive PROVE Way(<<"direct", "primaries", "down", "show">>, r.do, r.recursive)
      OBVIOUS
    <3>1. "direct" \in Words /\ "primaries" \in Words /\ "down" \in Words /\ "show" \in Words
      BY DEF Words
    <3>2. r.do \in Of("direct") /\ r.do \in Of("primaries") /\ r.do \in Of("down") /\ r.do \in Of("show")
      BY <1>5 DEF Of
    <3>3. /\ ("direct" \in {"down", "up"} => r.recursive) /\ ("primaries" \in {"down", "up"} => r.recursive)
          /\ ("down" \in {"down", "up"} => r.recursive) /\ ("show" \in {"down", "up"} => r.recursive)
      OBVIOUS
    <3>4. /\ "primaries" \in After("direct", r.recursive) /\ "down" \in After("primaries", r.recursive)
          /\ "show" \in After("down", r.recursive)
      BY DEF After
    <3>5. "show" \in Lasts
      BY DEF Lasts
    <3> QED
      BY ONLY <3>1, <3>2, <3>3, <3>4, <3>5, FourWay
  <2>15. ~r.recursive => Way(<<"direct", "primaries", "show">>, r.do, r.recursive)
    <3> SUFFICES ASSUME ~r.recursive PROVE Way(<<"direct", "primaries", "show">>, r.do, r.recursive)
      OBVIOUS
    <3>1. "direct" \in Words /\ "primaries" \in Words /\ "show" \in Words
      BY DEF Words
    <3>2. r.do \in Of("direct") /\ r.do \in Of("primaries") /\ r.do \in Of("show")
      BY <1>5 DEF Of
    <3>3. /\ ("direct" \in {"down", "up"} => r.recursive) /\ ("primaries" \in {"down", "up"} => r.recursive)
          /\ ("show" \in {"down", "up"} => r.recursive)
      OBVIOUS
    <3>4. "primaries" \in After("direct", r.recursive) /\ "show" \in After("primaries", r.recursive)
      BY DEF After
    <3>5. "show" \in Lasts
      BY DEF Lasts
    <3> QED
      BY ONLY <3>1, <3>2, <3>3, <3>4, <3>5, ThreeWay
  <2>16. r.recursive => Way(<<"direct", "down", "show">>, r.do, r.recursive)
    <3> SUFFICES ASSUME r.recursive PROVE Way(<<"direct", "down", "show">>, r.do, r.recursive)
      OBVIOUS
    <3>1. "direct" \in Words /\ "down" \in Words /\ "show" \in Words
      BY DEF Words
    <3>2. r.do \in Of("direct") /\ r.do \in Of("down") /\ r.do \in Of("show")
      BY <1>5 DEF Of
    <3>3. /\ ("direct" \in {"down", "up"} => r.recursive) /\ ("down" \in {"down", "up"} => r.recursive)
          /\ ("show" \in {"down", "up"} => r.recursive)
      OBVIOUS
    <3>4. "down" \in After("direct", r.recursive) /\ "show" \in After("down", r.recursive)
      BY DEF After
    <3>5. "show" \in Lasts
      BY DEF Lasts
    <3> QED
      BY ONLY <3>1, <3>2, <3>3, <3>4, <3>5, ThreeWay
  <2>17. ~r.recursive => Way(<<"direct", "show">>, r.do, r.recursive)
    <3> SUFFICES ASSUME ~r.recursive PROVE Way(<<"direct", "show">>, r.do, r.recursive)
      OBVIOUS
    <3>1. "direct" \in Words /\ "show" \in Words
      BY DEF Words
    <3>2. r.do \in Of("direct") /\ r.do \in Of("show")
      BY <1>5 DEF Of
    <3>3. ("direct" \in {"down", "up"} => r.recursive) /\ ("show" \in {"down", "up"} => r.recursive)
      OBVIOUS
    <3>4. "show" \in After("direct", r.recursive)
      BY DEF After
    <3>5. "show" \in Lasts
      BY DEF Lasts
    <3> QED
      BY ONLY <3>1, <3>2, <3>3, <3>4, <3>5, TwoWay
  <2> QED
    BY <1>0, <2>13, <2>14, <2>15, <2>16, <2>17
<1>6. CASE r.do = "list groups"
  <2>0. PICK t : t = IF r.recursive THEN <<"up">> ELSE <<>>
    OBVIOUS
  <2>1. p = <<"direct">> \o t \o <<"show">>
    BY <1>0, <1>6, <2>0 DEF GPlan
  <2>2. <<"direct">> \o <<"up">> = <<"direct", "up">>
    <3>1. "direct" \in Words /\ "up" \in Words
      BY DEF Words
    <3> QED
      BY ONLY <3>1, JoinsOne
  <2>3. <<"direct">> \o <<>> = <<"direct">>
    <3>1. "direct" \in Words
      BY DEF Words
    <3>2. <<"direct">> \in Seq(Words)
      BY ONLY <3>1, One
    <3> QED
      BY ONLY <3>2, ConcatEmptySeq
  <2>4. <<"direct", "up">> \o <<"show">> = <<"direct", "up", "show">>
    <3>1. "direct" \in Words /\ "up" \in Words /\ "show" \in Words
      BY DEF Words
    <3> QED
      BY ONLY <3>1, JoinsTwo
  <2>5. <<"direct">> \o <<"show">> = <<"direct", "show">>
    <3>1. "direct" \in Words /\ "show" \in Words
      BY DEF Words
    <3> QED
      BY ONLY <3>1, JoinsOne
  <2>6. p = IF r.recursive THEN <<"direct", "up", "show">> ELSE <<"direct", "show">>
    BY ONLY <2>0, <2>1, <2>2, <2>3, <2>4, <2>5
  <2>7. r.recursive => Way(<<"direct", "up", "show">>, r.do, r.recursive)
    <3> SUFFICES ASSUME r.recursive PROVE Way(<<"direct", "up", "show">>, r.do, r.recursive)
      OBVIOUS
    <3>1. "direct" \in Words /\ "up" \in Words /\ "show" \in Words
      BY DEF Words
    <3>2. r.do \in Of("direct") /\ r.do \in Of("up") /\ r.do \in Of("show")
      BY <1>6 DEF Of
    <3>3. /\ ("direct" \in {"down", "up"} => r.recursive) /\ ("up" \in {"down", "up"} => r.recursive)
          /\ ("show" \in {"down", "up"} => r.recursive)
      OBVIOUS
    <3>4. "up" \in After("direct", r.recursive) /\ "show" \in After("up", r.recursive)
      BY DEF After
    <3>5. "show" \in Lasts
      BY DEF Lasts
    <3> QED
      BY ONLY <3>1, <3>2, <3>3, <3>4, <3>5, ThreeWay
  <2>8. ~r.recursive => Way(<<"direct", "show">>, r.do, r.recursive)
    <3> SUFFICES ASSUME ~r.recursive PROVE Way(<<"direct", "show">>, r.do, r.recursive)
      OBVIOUS
    <3>1. "direct" \in Words /\ "show" \in Words
      BY DEF Words
    <3>2. r.do \in Of("direct") /\ r.do \in Of("show")
      BY <1>6 DEF Of
    <3>3. ("direct" \in {"down", "up"} => r.recursive) /\ ("show" \in {"down", "up"} => r.recursive)
      OBVIOUS
    <3>4. "show" \in After("direct", r.recursive)
      BY DEF After
    <3>5. "show" \in Lasts
      BY DEF Lasts
    <3> QED
      BY ONLY <3>1, <3>2, <3>3, <3>4, <3>5, TwoWay
  <2> QED
    BY <1>0, <2>6, <2>7, <2>8
<1>7. r.do \in {"create", "update", "add", "remove", "list members", "list groups"}
  BY DEF GRequest
<1> QED
  BY <1>1, <1>2, <1>3, <1>4, <1>5, <1>6, <1>7

---------------------------------------------------------------------------
(* The state.  What the directory says, as functions of its entries.       *)
MembersIn(es, m) == IF m \in DOMAIN es THEN es[m].members ELSE <<>>
ParentsIn(es, m) == {g \in Group \cap DOMAIN es : m \in ToSet(MembersIn(es, g))}
ScopesIn(es, gs) == {GroupScope(es[g].type) : g \in gs \cap (Group \cap DOMAIN es)} \ {"none"}
DownIn(es) == [m \in Member |-> ToSet(MembersIn(es, m))]
UpIn(es) == [m \in Member |-> ParentsIn(es, m)]
AllIn(es, op) ==
  IF op.recursive
  THEN Beyond(ToSet(op.roots), IF op.do = "list members" THEN DownIn(es) ELSE UpIn(es), Cardinality(Member))
  ELSE ToSet(op.roots)

EntriesSound(es) ==
  /\ DOMAIN es \subseteq Member
  /\ \A m \in DOMAIN es : es[m] \in GEntry /\ IsInjective(es[m].members)
  /\ \A g \in Group \cap DOMAIN es : GroupScope(es[g].type) # "none"

LEMMA ReadsAre ==
  /\ \A m : MembersOf(m) = MembersIn(entries, m) /\ ParentsOf(m) = ParentsIn(entries, m)
  /\ \A gs : Scopes(gs) = ScopesIn(entries, gs)
  /\ NextDown = DownIn(entries) /\ NextUp = UpIn(entries)
<1>1. \A m : MembersOf(m) = MembersIn(entries, m)
  BY DEF MembersOf, MembersIn, There
<1>2. \A m : ParentsOf(m) = ParentsIn(entries, m)
  BY <1>1 DEF ParentsOf, ParentsIn, GroupsThere
<1>3. \A gs : Scopes(gs) = ScopesIn(entries, gs)
  BY DEF Scopes, ScopesIn, GroupsThere
<1> QED
  BY <1>1, <1>2, <1>3 DEF NextDown, NextUp, DownIn, UpIn

LEMMA EntriesRead ==
  ASSUME NEW es, EntriesSound(es)
  PROVE  /\ \A m : MembersIn(es, m) \in Seq(Member) /\ IsInjective(MembersIn(es, m))
         /\ \A m : ParentsIn(es, m) \in SUBSET Member /\ IsFiniteSet(ParentsIn(es, m))
         /\ DownIn(es) \in [Member -> SUBSET Member] /\ UpIn(es) \in [Member -> SUBSET Member]
<1>1. ASSUME NEW m PROVE MembersIn(es, m) \in Seq(Member) /\ IsInjective(MembersIn(es, m))
  <2>1. CASE m \in DOMAIN es
    BY <2>1 DEF EntriesSound, GEntry, MembersIn
  <2>2. CASE m \notin DOMAIN es
    <3>1. MembersIn(es, m) = <<>>
      BY <2>2 DEF MembersIn
    <3>2. <<>> \in Seq(Member) /\ DOMAIN <<>> = {}
      OBVIOUS
    <3> QED
      BY <3>1, <3>2 DEF IsInjective
  <2> QED
    BY <2>1, <2>2
<1>2. ASSUME NEW m PROVE ParentsIn(es, m) \in SUBSET Member /\ IsFiniteSet(ParentsIn(es, m))
  <2>1. ParentsIn(es, m) \in SUBSET Member
    BY DEF ParentsIn, Member
  <2> QED
    BY <2>1, GroupConstants, FS_Subset
<1>3. DownIn(es) \in [Member -> SUBSET Member]
  <2>1. \A m : ToSet(MembersIn(es, m)) \in SUBSET Member
    BY <1>1, MembersAre
  <2> QED
    BY <2>1 DEF DownIn
<1>4. UpIn(es) \in [Member -> SUBSET Member]
  BY <1>2 DEF UpIn
<1> QED
  BY <1>1, <1>2, <1>3, <1>4

(* An operation under way.                                                 *)
GFields == {"do", "dn", "members", "text", "scope", "security", "recursive", "primary", "todo", "result", "type",
            "newScope", "newSecurity", "below", "above", "want", "roots", "stack", "shown", "pops", "before",
            "nth", "alone"}
Doing(op) ==
  /\ GFields \subseteq DOMAIN op
  /\ op.dn \in Member /\ op.members \in Seq(Member) /\ op.text \in BOOLEAN
  /\ op.scope \in Scope \cup {"as is"} /\ op.security \in {"yes", "no", "as is"} /\ op.recursive \in BOOLEAN
  /\ op.result = "none" /\ Way(op.todo, op.do, op.recursive)
  /\ op.newScope \in Scope /\ op.newSecurity \in BOOLEAN
  /\ op.want \in Seq(Member) /\ ToSet(op.want) \subseteq ToSet(op.members)
  /\ op.nth \in Nat

(* What an operation nobody crossed knows, by the request it makes next.   *)
TypeKnown(es, op) ==
  /\ op.dn \in DOMAIN es /\ op.type = es[op.dn].type
  /\ op.security = "as is" => op.newSecurity = IsSecurity(op.type)
Rooted(op) ==
  /\ op.roots \in Seq(Member) /\ IsInjective(op.roots) /\ op.shown = op.roots /\ op.pops = 0
  /\ op.stack = [i \in DOMAIN op.roots |-> <<op.roots[i], 0>>]
Walking(es, op) ==
  /\ op.roots \in Seq(Member) /\ op.pops \in Nat
  /\ op.pops = 0 => Rooted(op)
  /\ Walk(op.roots, Seen(op), op.stack, AllIn(es, op))
ShownSound(es, op) ==
  /\ op.roots \in Seq(Member) /\ IsInjective(op.shown) /\ ToSet(op.shown) \subseteq AllIn(es, op)
  /\ op.do = "list members" /\ Cardinality(AllIn(es, op)) <= MaxDepth + 1 => AllIn(es, op) \subseteq ToSet(op.shown)
  /\ op.do = "list groups" /\ Len(op.roots) + Cardinality(Edges(AllIn(es, op), UpIn(es))) <= MaxDepth * (Len(op.roots) + 1)
       => AllIn(es, op) \subseteq ToSet(op.shown)

Learnt(es, op) ==
  LET h == Head(op.todo) IN
  /\ h \in {"known", "there", "join", "leave"} => op.before = MembersIn(es, op.dn)
  /\ h \in {"there", "join", "leave"} => op.want = Needed(op, MembersIn(es, op.dn))
  /\ h \in {"below", "above", "retype"} => TypeKnown(es, op)
  /\ h \in {"above", "retype"} => op.below = ScopesIn(es, ToSet(MembersIn(es, op.dn)))
  /\ h = "retype" => op.above = ScopesIn(es, ParentsIn(es, op.dn))
  /\ h = "direct" => op.pops = 0
  /\ h = "primaries" => Rooted(op)
  /\ h = "down" => Walking(es, op) /\ Downs(Seen(op), op.stack, DownIn(es))
  /\ h = "up" => Walking(es, op) /\ Ups(op.pops, Seen(op), op.stack, op.roots, UpIn(es))
  /\ h = "show" => ShownSound(es, op)

Tasks ==
  /\ task = [a \in MAdmin |-> task[a]]
  /\ \A a \in MAdmin : task[a].result \in {"none", "ok", "refused", "failed"}
  /\ \A a \in MAdmin : AtTask(a) => Doing(task[a]) /\ task[a].nth <= groupOps
Alone ==
  \A a \in MAdmin : AtTask(a) /\ GUndisturbed(a) => (\A b \in MAdmin \ {a} : ~AtTask(b)) /\ Learnt(entries, task[a])
GInv == EntriesSound(entries) /\ groupOps \in 0..MaxGroupOps /\ Tasks /\ Alone

(* A step of a session at work changes its own operation only.             *)
LEMMA GKeeps ==
  ASSUME GInv, NEW a \in MAdmin, AtTask(a), NEW x, task' = [task EXCEPT ![a] = x],
         groupOps' = groupOps, EntriesSound(entries'),
         \/ x.todo = <<>> /\ x.result \in {"ok", "refused", "failed"}
         \/ /\ Doing(x) /\ x.nth = task[a].nth /\ x.alone = task[a].alone
            /\ GUndisturbed(a) => Learnt(entries', x)
  PROVE  GInv'
<1>1. task = [b \in MAdmin |-> task[b]]
  BY DEF GInv, Tasks
<1>2. task'[a] = x /\ \A b \in MAdmin \ {a} : task'[b] = task[b]
  BY <1>1
<1>3. task' = [b \in MAdmin |-> task'[b]]
  BY <1>1
<1>4. Doing(x) => x.result = "none" /\ x.todo # <<>>
  <2> SUFFICES ASSUME Doing(x) PROVE x.result = "none" /\ x.todo # <<>>
    OBVIOUS
  <2>1. x.result = "none" /\ Way(x.todo, x.do, x.recursive)
    BY DEF Doing
  <2> QED
    BY <2>1, WayHead
<1>5. \A b \in MAdmin : task'[b].result \in {"none", "ok", "refused", "failed"}
  <2>1. \A b \in MAdmin \ {a} : task'[b].result \in {"none", "ok", "refused", "failed"}
    BY <1>2 DEF GInv, Tasks
  <2>2. x.result \in {"none", "ok", "refused", "failed"}
    BY <1>4
  <2> QED
    BY <1>2, <2>1, <2>2
<1>6. ASSUME NEW b \in MAdmin, AtTask(b)' PROVE Doing(task'[b]) /\ task'[b].nth <= groupOps'
  <2>1. CASE b = a
    <3>1. Doing(x) /\ x.nth = task[a].nth
      BY <1>2, <1>6, <2>1 DEF AtTask
    <3>2. task[a].nth <= groupOps
      BY DEF GInv, Tasks
    <3> QED
      BY <1>2, <2>1, <3>1, <3>2
  <2>2. CASE b # a
    BY <1>2, <1>6, <2>2 DEF AtTask, GInv, Tasks
  <2> QED
    BY <2>1, <2>2
<1>7. ASSUME NEW b \in MAdmin, AtTask(b)', GUndisturbed(b)'
      PROVE  (\A c \in MAdmin \ {b} : ~AtTask(c)') /\ Learnt(entries', task'[b])
  <2>1. CASE b = a
    <3>1. /\ Doing(x) /\ x.nth = task[a].nth /\ x.alone = task[a].alone
          /\ GUndisturbed(a) => Learnt(entries', x)
      BY <1>2, <1>7, <2>1 DEF AtTask
    <3>2. GUndisturbed(a)
      BY <1>2, <1>7, <2>1, <3>1 DEF GUndisturbed
    <3>3. \A c \in MAdmin \ {a} : ~AtTask(c)
      BY <3>2 DEF GInv, Alone
    <3>4. \A c \in MAdmin \ {a} : ~AtTask(c)'
      BY <1>2, <3>3 DEF AtTask
    <3> QED
      BY <1>2, <2>1, <3>1, <3>2, <3>4
  <2>2. CASE b # a
    <3>1. AtTask(b) /\ GUndisturbed(b)
      BY <1>2, <1>7, <2>2 DEF AtTask, GUndisturbed
    <3>2. ~AtTask(a)
      BY <2>2, <3>1 DEF GInv, Alone
    <3> QED
      BY <3>2
  <2> QED
    BY <2>1, <2>2
<1>8. (EntriesSound(entries) /\ groupOps \in 0..MaxGroupOps)'
  BY DEF GInv
<1>9. Tasks'
  BY <1>3, <1>5, <1>6 DEF Tasks
<1>10. Alone'
  BY <1>7 DEF Alone
<1> QED
  BY <1>8, <1>9, <1>10 DEF GInv

(* A step that goes on to the next request of its plan, or ends with the   *)
(* last one.                                                               *)
GKept(x, op) == DOMAIN x = DOMAIN op /\ \A f \in DOMAIN op \ {"todo"} : x[f] = op[f]
LEMMA GMoves ==
  ASSUME GInv, NEW a \in MAdmin, AtTask(a), NEW op, Doing(op), op.todo = task[a].todo,
         op.nth = task[a].nth, op.alone = task[a].alone, GGoes(a, op), groupOps' = groupOps, EntriesSound(entries'),
         \A x : /\ GKept(x, op) /\ Doing(x) /\ Head(x.todo) \in After(Head(op.todo), op.recursive) /\ GUndisturbed(a)
                => Learnt(entries', x)
  PROVE  GInv'
<1>1. CASE ~(Len(op.todo) > 1)
  <2>1. task' = [task EXCEPT ![a] = GIdle("ok")]
    BY <1>1 DEF GGoes
  <2>2. GIdle("ok").todo = <<>> /\ GIdle("ok").result = "ok"
    BY DEF GIdle
  <2> QED
    BY <2>1, <2>2, GKeeps
<1>2. CASE Len(op.todo) > 1
  <2>1. PICK x : x = [op EXCEPT !.todo = Tail(@)]
    OBVIOUS
  <2>2. task' = [task EXCEPT ![a] = x]
    BY <1>2, <2>1 DEF GGoes
  <2>3. GFields \subseteq DOMAIN op /\ Way(op.todo, op.do, op.recursive)
    BY DEF Doing
  <2>4. GKept(x, op) /\ x.todo = Tail(op.todo)
    BY <2>1, <2>3 DEF GKept, GFields
  <2>5. Way(Tail(op.todo), op.do, op.recursive) /\ Head(Tail(op.todo)) \in After(Head(op.todo), op.recursive)
    BY <1>2, <2>3, WayGoes
  <2>6. /\ x.do = op.do /\ x.dn = op.dn /\ x.members = op.members /\ x.text = op.text /\ x.scope = op.scope
        /\ x.security = op.security /\ x.recursive = op.recursive /\ x.result = op.result
        /\ x.newScope = op.newScope /\ x.newSecurity = op.newSecurity /\ x.want = op.want /\ x.nth = op.nth
        /\ x.alone = op.alone /\ DOMAIN x = DOMAIN op
    BY ONLY <2>3, <2>4 DEF GKept, GFields
  <2>7. Doing(x)
    BY <2>4, <2>5, <2>6 DEF Doing
  <2>8. GUndisturbed(a) => Learnt(entries', x)
    BY <2>4, <2>5, <2>7
  <2> QED
    BY <2>2, <2>6, <2>7, <2>8, GKeeps
<1> QED
  BY <1>1, <1>2

(* A step that ends an operation without a change.                         *)
LEMMA GStopKeeps ==
  ASSUME GInv, NEW a \in MAdmin, AtTask(a), NEW why \in {"ok", "refused", "failed"}, GStops(a, why)
  PROVE  GInv'
<1>1. task' = [task EXCEPT ![a] = GIdle(why)] /\ entries' = entries /\ groupOps' = groupOps
  BY DEF GStops, GEnds
<1>2. GIdle(why).todo = <<>> /\ GIdle(why).result = why
  BY DEF GIdle
<1>3. EntriesSound(entries')
  BY <1>1 DEF GInv
<1> QED
  BY <1>1, <1>2, <1>3, GKeeps

---------------------------------------------------------------------------
(* Each step keeps the invariant.                                          *)
GBegun(r, before, n, alone) == Extended(r,
  [todo |-> GPlan(r), result |-> "none", type |-> 0, newScope |-> "global", newSecurity |-> FALSE,
   below |-> {}, above |-> {}, want |-> <<>>,
   roots |-> <<>>, stack |-> <<>>, shown |-> <<>>, pops |-> 0, before |-> before,
   nth |-> n, alone |-> alone])
LEMMA GBegunIs ==
  ASSUME NEW r \in GRequest, GPlan(r) # <<>>, NEW before, NEW n \in Nat, NEW alone,
         NEW op, op = GBegun(r, before, n, alone)
  PROVE  /\ Doing(op) /\ op.nth = n /\ op.alone = alone /\ op.before = before /\ op.dn = r.dn
         /\ Head(op.todo) \in {"free", "gtext", "type", "known", "direct"} /\ op.todo # <<>> /\ op.pops = 0
<1>1. PICK f : f = [todo |-> GPlan(r), result |-> "none", type |-> 0, newScope |-> "global", newSecurity |-> FALSE,
            below |-> {}, above |-> {}, want |-> <<>>,
            roots |-> <<>>, stack |-> <<>>, shown |-> <<>>, pops |-> 0, before |-> before,
            nth |-> n, alone |-> alone]
  OBVIOUS
<1>2. DOMAIN r = {"do", "dn", "members", "text", "scope", "security", "recursive", "primary"}
  BY DEF GRequest
<1>3. /\ r.dn \in Member /\ r.members \in Seq(Member) /\ r.text \in BOOLEAN
      /\ r.scope \in Scope \cup {"as is"} /\ r.security \in {"yes", "no", "as is"} /\ r.recursive \in BOOLEAN
  BY DEF GRequest
<1>4. /\ DOMAIN f = {"todo", "result", "type", "newScope", "newSecurity", "below", "above", "want", "roots", "stack",
                     "shown", "pops", "before", "nth", "alone"}
      /\ f.todo = GPlan(r) /\ f.result = "none" /\ f.newScope = "global" /\ f.newSecurity = FALSE
      /\ f.want = <<>> /\ f.before = before /\ f.nth = n /\ f.alone = alone /\ f.pops = 0
  BY <1>1
<1>5. op = Extended(r, f)
  BY <1>1 DEF GBegun
<1>6. /\ DOMAIN op = DOMAIN r \cup DOMAIN f
      /\ \A x \in DOMAIN r : op[x] = r[x]
      /\ \A x \in DOMAIN f \ DOMAIN r : op[x] = f[x]
  BY ONLY <1>5 DEF Extended
<1>7. /\ op.do = r.do /\ op.dn = r.dn /\ op.members = r.members /\ op.text = r.text /\ op.scope = r.scope
      /\ op.security = r.security /\ op.recursive = r.recursive
  <2>1. \A x \in {"do", "dn", "members", "text", "scope", "security", "recursive"} : x \in DOMAIN r
    BY <1>2
  <2> QED
    BY <1>6, <2>1
<1>8. /\ op.todo = GPlan(r) /\ op.result = "none" /\ op.newScope = "global" /\ op.newSecurity = FALSE
      /\ op.want = <<>> /\ op.before = before /\ op.nth = n /\ op.alone = alone /\ op.pops = 0
  <2>1. \A x \in {"todo", "result", "newScope", "newSecurity", "want", "before", "nth", "alone", "pops"} :
           x \in DOMAIN f \ DOMAIN r
    BY <1>2, <1>4
  <2> QED
    BY <1>4, <1>6, <2>1
<1>9. /\ Way(GPlan(r), r.do, r.recursive)
      /\ Head(GPlan(r)) \in {"free", "gtext", "type", "known", "direct"}
  BY PlanIs
<1>10. GFields \subseteq DOMAIN op
  BY <1>2, <1>4, <1>6 DEF GFields
<1>11. op.want \in Seq(Member) /\ ToSet(op.want) \subseteq ToSet(op.members)
  <2>1. <<>> \in Seq(Member) /\ ToSet(<<>>) = {}
    BY DEF ToSet
  <2> QED
    BY <1>8, <2>1
<1>12. op.newScope \in Scope /\ op.newSecurity \in BOOLEAN
  BY <1>8 DEF Scope
<1>13. Doing(op)
  BY <1>3, <1>7, <1>8, <1>9, <1>10, <1>11, <1>12 DEF Doing
<1> QED
  BY <1>7, <1>8, <1>9, <1>13

LEMMA GBeginKeeps ==
  ASSUME GInv, NEW a \in MAdmin, GBegin(a)
  PROVE  GInv'
<1>1. PICK r \in MAsked :
        /\ GPlan(r) # <<>>
        /\ task' = [task EXCEPT ![a] = Extended(r,
           [todo |-> GPlan(r), result |-> "none", type |-> 0, newScope |-> "global", newSecurity |-> FALSE,
            below |-> {}, above |-> {}, want |-> <<>>,
            roots |-> <<>>, stack |-> <<>>, shown |-> <<>>, pops |-> 0, before |-> MembersOf(r.dn),
            nth |-> groupOps + 1, alone |-> \A b \in MAdmin \ {a} : ~AtTask(b)])]
  BY DEF GBegin
<1>2. /\ ~AtTask(a) /\ groupOps < MaxGroupOps /\ groupOps' = groupOps + 1 /\ entries' = entries
  BY DEF GBegin
<1>3. groupOps \in Nat /\ groupOps' \in 0..MaxGroupOps /\ groupOps + 1 \in Nat
  BY <1>2, GroupConstants DEF GInv
<1>4. PICK alone : alone = \A b \in MAdmin \ {a} : ~AtTask(b)
  OBVIOUS
<1>5. PICK before : before = MembersOf(r.dn)
  OBVIOUS
<1>6. PICK n \in Nat : n = groupOps + 1
  BY <1>3
<1>7. GPlan(r) # <<>>
  BY <1>1
<1>8. PICK op : op = GBegun(r, before, n, alone)
  OBVIOUS
<1>9. r \in GRequest
  BY GroupConstants
<1>10. /\ Doing(op) /\ op.nth = groupOps + 1 /\ op.alone = alone /\ op.before = MembersOf(r.dn) /\ op.dn = r.dn
       /\ Head(op.todo) \in {"free", "gtext", "type", "known", "direct"} /\ op.todo # <<>> /\ op.pops = 0
  <2>1. /\ Doing(op) /\ op.nth = n /\ op.alone = alone /\ op.before = before /\ op.dn = r.dn
        /\ Head(op.todo) \in {"free", "gtext", "type", "known", "direct"} /\ op.todo # <<>> /\ op.pops = 0
    BY ONLY <1>7, <1>8, <1>9, n \in Nat, GBegunIs
  <2> QED
    BY <1>5, <1>6, <2>1
<1>11. task' = [task EXCEPT ![a] = op]
  BY <1>1, <1>4, <1>5, <1>6, <1>8 DEF GBegun
<1>12. task = [b \in MAdmin |-> task[b]]
  BY DEF GInv, Tasks
<1>13. task'[a] = op /\ (\A b \in MAdmin \ {a} : task'[b] = task[b]) /\ task' = [b \in MAdmin |-> task'[b]]
  BY <1>11, <1>12
<1>14. \A b \in MAdmin : task'[b].result \in {"none", "ok", "refused", "failed"}
  <2>1. op.result = "none"
    BY <1>10 DEF Doing
  <2> QED
    BY <1>13, <2>1 DEF GInv, Tasks
<1>15. ASSUME NEW b \in MAdmin, AtTask(b)' PROVE Doing(task'[b]) /\ task'[b].nth <= groupOps'
  <2>1. CASE b = a
    BY <1>2, <1>3, <1>10, <1>13, <2>1
  <2>2. CASE b # a
    <3>1. Doing(task[b]) /\ task[b].nth <= groupOps
      BY <1>13, <1>15, <2>2 DEF AtTask, GInv, Tasks
    <3>2. PICK m \in Nat : m = task[b].nth
      BY <3>1 DEF Doing
    <3>3. m <= groupOps + 1
      <4>1. groupOps \in Nat /\ m <= groupOps
        BY <1>3, <3>1, <3>2
      <4> QED
        BY ONLY <4>1, m \in Nat
    <3>4. task[b].nth <= groupOps'
      BY <1>2, <3>2, <3>3
    <3>5. task'[b] = task[b]
      BY <1>13, <2>2
    <3> QED
      BY <3>1, <3>4, <3>5
  <2> QED
    BY <2>1, <2>2
<1>16. ASSUME NEW b \in MAdmin, AtTask(b)', GUndisturbed(b)'
       PROVE  (\A c \in MAdmin \ {b} : ~AtTask(c)') /\ Learnt(entries', task'[b])
  <2>1. CASE b = a
    <3>1. op.alone
      BY <1>13, <1>16, <2>1 DEF GUndisturbed
    <3>2. \A c \in MAdmin \ {a} : ~AtTask(c)
      BY <1>4, <1>10, <3>1
    <3>3. \A c \in MAdmin \ {a} : ~AtTask(c)'
      BY <1>13, <3>2 DEF AtTask
    <3>4. op.before = MembersIn(entries, op.dn)
      BY <1>10, ReadsAre
    <3>5. Learnt(entries, op)
      BY <1>10, <3>4 DEF Learnt
    <3> QED
      BY <1>2, <1>13, <2>1, <3>3, <3>5
  <2>2. CASE b # a
    <3>1. Doing(task[b]) /\ task[b].nth <= groupOps
      BY <1>13, <1>16, <2>2 DEF AtTask, GInv, Tasks
    <3>2. PICK m \in Nat : m = task[b].nth
      BY <3>1 DEF Doing
    <3>3. groupOps + 1 = task[b].nth
      BY <1>2, <1>13, <1>16, <2>2 DEF GUndisturbed
    <3>4. FALSE
      BY <1>3, <3>1, <3>2, <3>3
    <3> QED
      BY <3>4
  <2> QED
    BY <2>1, <2>2
<1>17. EntriesSound(entries)'
  BY <1>2 DEF GInv
<1>18. Tasks'
  BY <1>13, <1>14, <1>15 DEF Tasks
<1>19. Alone'
  BY <1>16 DEF Alone
<1> QED
  BY <1>3, <1>17, <1>18, <1>19 DEF GInv

LEMMA GAtIs ==
  ASSUME GInv, NEW a \in MAdmin, NEW s, GAt(a, s)
  PROVE  /\ AtTask(a) /\ Doing(task[a]) /\ Head(task[a].todo) = s
         /\ (GUndisturbed(a) => Learnt(entries, task[a])) /\ EntriesSound(entries)
         /\ task[a].do \in Of(s) /\ (s \in {"down", "up"} => task[a].recursive)
<1>1. AtTask(a) /\ Head(task[a].todo) = s
  BY DEF GAt
<1>2. Doing(task[a]) /\ (GUndisturbed(a) => Learnt(entries, task[a])) /\ EntriesSound(entries)
  BY <1>1 DEF GInv, Tasks, Alone
<1>3. Way(task[a].todo, task[a].do, task[a].recursive)
  BY <1>2 DEF Doing
<1> QED
  BY <1>1, <1>2, <1>3, WayHead

(* What an operation with its next request taken off its plan still says.  *)
LEMMA KeptIs ==
  ASSUME NEW op, GFields \subseteq DOMAIN op, NEW x, GKept(x, op)
  PROVE  /\ x.do = op.do /\ x.dn = op.dn /\ x.members = op.members /\ x.recursive = op.recursive
         /\ x.security = op.security /\ x.type = op.type /\ x.newScope = op.newScope /\ x.newSecurity = op.newSecurity
         /\ x.below = op.below /\ x.above = op.above /\ x.want = op.want /\ x.roots = op.roots
         /\ x.stack = op.stack /\ x.shown = op.shown /\ x.pops = op.pops /\ x.before = op.before
         /\ x.nth = op.nth /\ x.alone = op.alone
  BY DEF GKept, GFields

(* Reads that learn nothing, and what the last write of a plan leaves.     *)
LEMMA GReadKeeps ==
  ASSUME GInv, NEW a \in MAdmin, NEW s \in {"free", "sam", "there", "show"}, GAt(a, s), GReads(a, task[a])
  PROVE  GInv'
<1>1. PICK op : op = task[a]
  OBVIOUS
<1>2. /\ AtTask(a) /\ Doing(op) /\ Head(op.todo) = s /\ EntriesSound(entries)
      /\ GUndisturbed(a) => Learnt(entries, op)
  BY <1>1, GAtIs
<1>3. GGoes(a, op) /\ entries' = entries /\ groupOps' = groupOps
  BY <1>1 DEF GReads
<1>4. ASSUME NEW x, GKept(x, op), Doing(x), Head(x.todo) \in After(Head(op.todo), op.recursive), GUndisturbed(a)
      PROVE  Learnt(entries', x)
  <2>1. GFields \subseteq DOMAIN op
    BY <1>2 DEF Doing
  <2>2. x.before = op.before /\ x.want = op.want /\ x.dn = op.dn /\ x.members = op.members /\ x.do = op.do
    BY <1>4, <2>1, KeptIs
  <2>3. Head(x.todo) \in {"sam", "gadd", "join"} /\ (Head(x.todo) = "join" => s = "there")
    BY <1>2, <1>4 DEF After
  <2>4. s = "there" => op.before = MembersIn(entries, op.dn) /\ op.want = Needed(op, MembersIn(entries, op.dn))
    BY <1>2, <1>4 DEF Learnt
  <2>5. \A ms : Needed(x, ms) = Needed(op, ms)
    BY <2>2 DEF Needed
  <2>6. Head(x.todo) = "join" =>
          x.before = MembersIn(entries', x.dn) /\ x.want = Needed(x, MembersIn(entries', x.dn))
    BY <1>3, <2>2, <2>3, <2>4, <2>5
  <2> QED
    BY ONLY <2>3, <2>6 DEF Learnt
<1>5. EntriesSound(entries')
  BY <1>2, <1>3
<1> QED
  BY <1>1, <1>2, <1>3, <1>4, <1>5, GMoves

LEMMA WrittenIs ==
  ASSUME NEW es, EntriesSound(es), NEW m \in Member, NEW e \in GEntry, IsInjective(e.members),
         m \in Group => GroupScope(e.type) # "none",
         NEW es2, es2 = Extended([x \in {m} |-> e], es)
  PROVE  /\ EntriesSound(es2) /\ DOMAIN es2 = DOMAIN es \cup {m} /\ es2[m] = e
         /\ \A x \in DOMAIN es \ {m} : es2[x] = es[x]
<1>1. /\ DOMAIN es2 = DOMAIN es \cup {m} /\ es2[m] = e
      /\ \A x \in DOMAIN es \ {m} : es2[x] = es[x]
  BY DEF Extended
<1>2. EntriesSound(es2)
  BY <1>1 DEF EntriesSound
<1> QED
  BY <1>1, <1>2

LEMMA GWriteKeeps ==
  ASSUME GInv, NEW a \in MAdmin, NEW s \in {"gadd", "gtext", "retype", "join", "leave"}, GAt(a, s),
         NEW e \in GEntry, IsInjective(e.members), task[a].dn \in Group => GroupScope(e.type) # "none",
         GWrites(a, task[a].dn, e)
  PROVE  GInv'
<1>1. PICK op : op = task[a]
  OBVIOUS
<1>2. AtTask(a) /\ Doing(op) /\ Head(op.todo) = s /\ EntriesSound(entries)
  BY <1>1, GAtIs
<1>3. op.dn \in Member
  BY <1>2 DEF Doing
<1>4. GGoes(a, op) /\ entries' = Extended([x \in {op.dn} |-> e], entries) /\ groupOps' = groupOps
  BY <1>1 DEF GWrites
<1>5. EntriesSound(entries')
  <2>1. PICK es, es2, dn : es = entries /\ es2 = entries' /\ dn = op.dn
    OBVIOUS
  <2>2. es2 = Extended([x \in {dn} |-> e], es) /\ EntriesSound(es) /\ dn \in Member
    BY <1>2, <1>3, <1>4, <2>1
  <2>3. dn \in Group => GroupScope(e.type) # "none"
    BY <1>1, <2>1
  <2>4. EntriesSound(es2)
    BY ONLY <2>2, <2>3, e \in GEntry, IsInjective(e.members), WrittenIs
  <2> QED
    BY <2>1, <2>4
<1>6. ASSUME NEW x, Head(x.todo) \in After(Head(op.todo), op.recursive)
      PROVE  Learnt(entries', x)
  <2>1. Head(x.todo) = "type"
    BY <1>2, <1>6 DEF After
  <2> QED
    BY <2>1 DEF Learnt
<1> QED
  BY <1>1, <1>2, <1>4, <1>5, <1>6, GMoves

LEMMA FreeKeeps ==
  ASSUME GInv, NEW a \in MAdmin, GFree(a) \/ FreeSam(a) \/ AllThere(a) \/ Show(a)
  PROVE  GInv'
<1>1. PICK s \in {"free", "sam", "there", "show"} : GAt(a, s) /\ (GStops(a, "refused") \/ GReads(a, task[a]))
  BY DEF GFree, FreeSam, AllThere, Show
<1>2. AtTask(a)
  BY <1>1, GAtIs
<1>3. CASE GStops(a, "refused")
  BY <1>2, <1>3, GStopKeeps
<1>4. CASE GReads(a, task[a])
  BY <1>1, <1>4, GReadKeeps
<1> QED
  BY <1>1, <1>3, <1>4

LEMMA LostKeeps ==
  ASSUME GInv, NEW a \in MAdmin, GLost(a)
  PROVE  GInv'
BY GStopKeeps DEF GLost

LEMMA AddKeeps ==
  ASSUME GInv, NEW a \in MAdmin, GAdd(a)
  PROVE  GInv'
<1>1. PICK op : op = task[a]
  OBVIOUS
<1>2. GAt(a, "gadd") /\ (GStops(a, "failed") \/ GWrites(a, op.dn, NewGroup(op)))
  BY <1>1 DEF GAdd
<1>3. AtTask(a) /\ Doing(op)
  BY <1>1, <1>2, GAtIs
<1>4. PICK s, sec : /\ s = IF op.scope = "as is" THEN "global" ELSE op.scope
                    /\ sec = (op.security # "no")
  OBVIOUS
<1>5. s \in Scope /\ sec \in BOOLEAN /\ op.text \in BOOLEAN
  BY <1>3, <1>4 DEF Doing, Scope
<1>6. PICK e : e = NewGroup(op)
  OBVIOUS
<1>7. e = [type |-> GroupTypeValue(s, sec), members |-> <<>>, primary |-> Nobody, text |-> op.text]
  BY <1>4, <1>6 DEF NewGroup
<1>8. GroupTypeValue(s, sec) \in -TopBit..TopBit - 1 /\ GroupScope(GroupTypeValue(s, sec)) = s
  BY <1>5, TypeReads
<1>9. <<>> \in Seq(Member) /\ IsInjective(<<>>)
  <2>1. DOMAIN <<>> = {}
    OBVIOUS
  <2> QED
    BY <2>1 DEF IsInjective
<1>10. e \in GEntry /\ IsInjective(e.members) /\ GroupScope(e.type) # "none"
  <2>1. "none" \notin Scope
    BY DEF Scope
  <2>2. e \in GEntry
    BY ONLY <1>5, <1>7, <1>8, <1>9 DEF GEntry
  <2> QED
    BY <1>5, <1>7, <1>8, <1>9, <2>1, <2>2
<1>11. CASE GStops(a, "failed")
  BY <1>3, <1>11, GStopKeeps
<1>12. CASE GWrites(a, op.dn, NewGroup(op))
  BY <1>1, <1>2, <1>6, <1>10, <1>12, GWriteKeeps
<1> QED
  BY <1>2, <1>11, <1>12

LEMMA TextKeeps ==
  ASSUME GInv, NEW a \in MAdmin, GText(a)
  PROVE  GInv'
<1>1. PICK op : op = task[a]
  OBVIOUS
<1>2. /\ GAt(a, "gtext")
      /\ IF ~There(op.dn) THEN GStops(a, "failed")
         ELSE GWrites(a, op.dn, [entries[op.dn] EXCEPT !.text = TRUE])
  BY <1>1 DEF GText
<1>3. AtTask(a) /\ Doing(op) /\ EntriesSound(entries)
  BY <1>1, <1>2, GAtIs
<1>4. CASE ~There(op.dn)
  BY <1>2, <1>3, <1>4, GStopKeeps
<1>5. CASE There(op.dn)
  <2>1. PICK e, f : e = entries[op.dn] /\ f = [e EXCEPT !.text = TRUE]
    OBVIOUS
  <2>2. e \in GEntry /\ IsInjective(e.members) /\ (op.dn \in Group => GroupScope(e.type) # "none")
    BY <1>3, <1>5, <2>1 DEF EntriesSound, There
  <2>3. f \in GEntry /\ f.members = e.members /\ f.type = e.type
    BY <2>1, <2>2 DEF GEntry
  <2>4. GWrites(a, op.dn, f)
    BY <1>2, <1>5, <2>1
  <2> QED
    BY <1>1, <1>2, <2>2, <2>3, <2>4, GWriteKeeps
<1> QED
  BY <1>4, <1>5

LEMMA ReadTypeKeeps ==
  ASSUME GInv, NEW a \in MAdmin, ReadType(a)
  PROVE  GInv'
<1>1. PICK op, read : op = task[a] /\ read = entries[op.dn].type
  OBVIOUS
<1>2. PICK scope, sec :
        /\ scope = IF op.scope # "as is" THEN op.scope
                   ELSE IF GroupScope(read) = "none" THEN "global" ELSE GroupScope(read)
        /\ sec = IF op.security = "as is" THEN IsSecurity(read) ELSE op.security = "yes"
  OBVIOUS
<1>3. PICK to : to = [op EXCEPT !.type = read, !.newScope = scope, !.newSecurity = sec]
  OBVIOUS
<1>4. /\ GAt(a, "type")
      /\ GStops(a, "refused") \/ GStops(a, "ok") \/ (There(op.dn) /\ GReads(a, to))
  BY <1>1, <1>2, <1>3 DEF ReadType
<1>5. AtTask(a) /\ Doing(op) /\ Head(op.todo) = "type" /\ EntriesSound(entries)
  BY <1>1, <1>4, GAtIs
<1>6. CASE GStops(a, "refused") \/ GStops(a, "ok")
  BY <1>5, <1>6, GStopKeeps
<1>7. CASE There(op.dn) /\ GReads(a, to)
  <2>1. GFields \subseteq DOMAIN op
    BY <1>5 DEF Doing
  <2>2. /\ DOMAIN to = DOMAIN op /\ to.type = read /\ to.newScope = scope /\ to.newSecurity = sec
        /\ to.do = op.do /\ to.dn = op.dn /\ to.members = op.members /\ to.text = op.text /\ to.scope = op.scope
        /\ to.security = op.security /\ to.recursive = op.recursive /\ to.result = op.result
        /\ to.want = op.want /\ to.nth = op.nth /\ to.alone = op.alone /\ to.todo = op.todo
    BY <1>3, <2>1 DEF GFields
  <2>3. scope \in Scope
    BY <1>2, <1>5 DEF Doing, Scope, GroupScope
  <2>4. sec \in BOOLEAN
    BY <1>2, <1>5 DEF Doing, IsSecurity, Bit
  <2>5. Doing(to)
    BY <1>5, <2>1, <2>2, <2>3, <2>4 DEF Doing
  <2>6. op.dn \in DOMAIN entries
    BY <1>7 DEF There
  <2>7. GGoes(a, to) /\ entries' = entries /\ groupOps' = groupOps
    BY <1>7 DEF GReads
  <2>8. ASSUME NEW x, GKept(x, to), Doing(x), Head(x.todo) \in After(Head(to.todo), to.recursive), GUndisturbed(a)
        PROVE  Learnt(entries', x)
    <3>1. GFields \subseteq DOMAIN to
      BY <2>1, <2>2
    <3>2. x.dn = to.dn /\ x.type = to.type /\ x.security = to.security /\ x.newSecurity = to.newSecurity
      BY <2>8, <3>1, KeptIs
    <3>3. Head(x.todo) = "below"
      BY <1>5, <2>2, <2>8 DEF After
    <3>4. op.security = "as is" => sec = IsSecurity(read)
      BY <1>2
    <3>5. TypeKnown(entries', x)
      BY ONLY <1>1, <2>2, <2>6, <2>7, <3>2, <3>4 DEF TypeKnown
    <3> QED
      BY ONLY <3>3, <3>5 DEF Learnt
  <2>9. EntriesSound(entries')
    BY <1>5, <2>7
  <2> QED
    BY <1>1, <1>5, <2>2, <2>5, <2>7, <2>8, <2>9, GMoves
<1> QED
  BY <1>4, <1>6, <1>7

LEMMA BelowKeeps ==
  ASSUME GInv, NEW a \in MAdmin, ReadBelow(a)
  PROVE  GInv'
<1>1. PICK op : op = task[a]
  OBVIOUS
<1>2. PICK q : q = [op EXCEPT !.below = Scopes(ToSet(MembersOf(op.dn)))]
  OBVIOUS
<1>3. GAt(a, "below") /\ GReads(a, q)
  BY <1>1, <1>2 DEF ReadBelow
<1>4. /\ AtTask(a) /\ Doing(op) /\ Head(op.todo) = "below" /\ EntriesSound(entries)
      /\ GUndisturbed(a) => Learnt(entries, op)
  BY <1>1, <1>3, GAtIs
<1>5. GFields \subseteq DOMAIN op
  BY <1>4 DEF Doing
<1>6. /\ DOMAIN q = DOMAIN op /\ q.below = Scopes(ToSet(MembersOf(op.dn)))
      /\ q.type = op.type /\ q.newScope = op.newScope /\ q.newSecurity = op.newSecurity
      /\ q.do = op.do /\ q.dn = op.dn /\ q.members = op.members /\ q.text = op.text /\ q.scope = op.scope
      /\ q.security = op.security /\ q.recursive = op.recursive /\ q.result = op.result
      /\ q.want = op.want /\ q.nth = op.nth /\ q.alone = op.alone /\ q.todo = op.todo
  BY <1>2, <1>5 DEF GFields
<1>7. Doing(q)
  BY <1>4, <1>5, <1>6 DEF Doing
<1>8. GGoes(a, q) /\ entries' = entries /\ groupOps' = groupOps
  BY <1>3 DEF GReads
<1>9. ASSUME NEW x, GKept(x, q), Doing(x), Head(x.todo) \in After(Head(q.todo), q.recursive), GUndisturbed(a)
      PROVE  Learnt(entries', x)
  <2>1. GFields \subseteq DOMAIN q
    BY <1>5, <1>6
  <2>2. x.dn = q.dn /\ x.type = q.type /\ x.security = q.security /\ x.newSecurity = q.newSecurity /\ x.below = q.below
    BY <1>9, <2>1, KeptIs
  <2>3. Head(x.todo) = "above"
    BY <1>4, <1>6, <1>9 DEF After
  <2>4. TypeKnown(entries, op)
    BY <1>4, <1>9 DEF Learnt
  <2>5. TypeKnown(entries', x)
    BY ONLY <1>6, <1>8, <2>2, <2>4 DEF TypeKnown
  <2>6. x.below = ScopesIn(entries', ToSet(MembersIn(entries', x.dn)))
    BY <1>6, <1>8, <2>2, ReadsAre
  <2> QED
    BY ONLY <2>3, <2>5, <2>6 DEF Learnt
<1>10. EntriesSound(entries')
  BY <1>4, <1>8
<1> QED
  BY <1>1, <1>4, <1>6, <1>7, <1>8, <1>9, <1>10, GMoves

LEMMA AboveKeeps ==
  ASSUME GInv, NEW a \in MAdmin, ReadAbove(a)
  PROVE  GInv'
<1>1. PICK op : op = task[a]
  OBVIOUS
<1>2. PICK q : q = [op EXCEPT !.above = Scopes(ParentsOf(op.dn))]
  OBVIOUS
<1>3. GAt(a, "above") /\ GReads(a, q)
  BY <1>1, <1>2 DEF ReadAbove
<1>4. /\ AtTask(a) /\ Doing(op) /\ Head(op.todo) = "above" /\ EntriesSound(entries)
      /\ GUndisturbed(a) => Learnt(entries, op)
  BY <1>1, <1>3, GAtIs
<1>5. GFields \subseteq DOMAIN op
  BY <1>4 DEF Doing
<1>6. /\ DOMAIN q = DOMAIN op /\ q.above = Scopes(ParentsOf(op.dn)) /\ q.below = op.below
      /\ q.type = op.type /\ q.newScope = op.newScope /\ q.newSecurity = op.newSecurity
      /\ q.do = op.do /\ q.dn = op.dn /\ q.members = op.members /\ q.text = op.text /\ q.scope = op.scope
      /\ q.security = op.security /\ q.recursive = op.recursive /\ q.result = op.result
      /\ q.want = op.want /\ q.nth = op.nth /\ q.alone = op.alone /\ q.todo = op.todo
  BY <1>2, <1>5 DEF GFields
<1>7. Doing(q)
  BY <1>4, <1>5, <1>6 DEF Doing
<1>8. GGoes(a, q) /\ entries' = entries /\ groupOps' = groupOps
  BY <1>3 DEF GReads
<1>9. ASSUME NEW x, GKept(x, q), Doing(x), Head(x.todo) \in After(Head(q.todo), q.recursive), GUndisturbed(a)
      PROVE  Learnt(entries', x)
  <2>1. GFields \subseteq DOMAIN q
    BY <1>5, <1>6
  <2>2. /\ x.dn = q.dn /\ x.type = q.type /\ x.security = q.security /\ x.newSecurity = q.newSecurity
        /\ x.below = q.below /\ x.above = q.above
    BY <1>9, <2>1, KeptIs
  <2>3. Head(x.todo) = "retype"
    BY <1>4, <1>6, <1>9 DEF After
  <2>4. TypeKnown(entries, op) /\ op.below = ScopesIn(entries, ToSet(MembersIn(entries, op.dn)))
    BY <1>4, <1>9 DEF Learnt
  <2>5. TypeKnown(entries', x)
    BY ONLY <1>6, <1>8, <2>2, <2>4 DEF TypeKnown
  <2>6. x.below = ScopesIn(entries', ToSet(MembersIn(entries', x.dn)))
    BY <1>6, <1>8, <2>2, <2>4
  <2>7. x.above = ScopesIn(entries', ParentsIn(entries', x.dn))
    BY <1>6, <1>8, <2>2, ReadsAre
  <2> QED
    BY ONLY <2>3, <2>5, <2>6, <2>7 DEF Learnt
<1>10. EntriesSound(entries')
  BY <1>4, <1>8
<1> QED
  BY <1>1, <1>4, <1>6, <1>7, <1>8, <1>9, <1>10, GMoves

LEMMA RetypeKeeps ==
  ASSUME GInv, NEW a \in MAdmin, Retype(a)
  PROVE  GInv'
<1>1. PICK op : op = task[a]
  OBVIOUS
<1>2. /\ GAt(a, "retype")
      /\ \/ GStops(a, "refused") \/ GStops(a, "failed")
         \/ /\ There(op.dn)
            /\ GWrites(a, op.dn, [entries[op.dn] EXCEPT !.type = GroupTypeValue(op.newScope, op.newSecurity)])
  BY <1>1 DEF Retype
<1>3. AtTask(a) /\ Doing(op) /\ EntriesSound(entries)
  BY <1>1, <1>2, GAtIs
<1>4. CASE GStops(a, "refused") \/ GStops(a, "failed")
  BY <1>3, <1>4, GStopKeeps
<1>5. CASE /\ There(op.dn)
           /\ GWrites(a, op.dn, [entries[op.dn] EXCEPT !.type = GroupTypeValue(op.newScope, op.newSecurity)])
  <2>1. PICK e, t : e = entries[op.dn] /\ t = GroupTypeValue(op.newScope, op.newSecurity)
    OBVIOUS
  <2>2. PICK f : f = [e EXCEPT !.type = t]
    OBVIOUS
  <2>3. e \in GEntry /\ IsInjective(e.members)
    BY <1>3, <1>5, <2>1 DEF EntriesSound, There
  <2>4. op.newScope \in Scope /\ op.newSecurity \in BOOLEAN
    BY <1>3 DEF Doing
  <2>5. t \in -TopBit..TopBit - 1 /\ GroupScope(t) = op.newScope
    BY <2>1, <2>4, TypeReads
  <2>6. f \in GEntry /\ f.members = e.members /\ f.type = t
    BY ONLY <2>2, <2>3, <2>5 DEF GEntry
  <2>7. GroupScope(f.type) # "none"
    BY <2>4, <2>5, <2>6 DEF Scope
  <2>8. GWrites(a, op.dn, f)
    BY <1>5, <2>1, <2>2
  <2> QED
    BY <1>1, <1>2, <2>3, <2>6, <2>7, <2>8, GWriteKeeps
<1> QED
  BY <1>2, <1>4, <1>5

LEMMA NeededIs ==
  ASSUME NEW op, op.members \in Seq(Member), NEW current
  PROVE  /\ Needed(op, current) \in Seq(Member)
         /\ ToSet(Needed(op, current)) =
              ToSet(op.members) \cap (IF op.do = "remove" THEN ToSet(current) ELSE Member \ ToSet(current))
         /\ IsInjective(op.members) => IsInjective(Needed(op, current))
<1>1. PICK S : S = IF op.do = "remove" THEN ToSet(current) ELSE Member \ ToSet(current)
  OBVIOUS
<1>2. Needed(op, current) = Those(op.members, S)
  BY <1>1 DEF Needed
<1> QED
  BY <1>1, <1>2, ThoseOnce

LEMMA KnownKeeps ==
  ASSUME GInv, NEW a \in MAdmin, Known(a)
  PROVE  GInv'
<1>1. PICK op, want : op = task[a] /\ want = Needed(op, MembersOf(op.dn))
  OBVIOUS
<1>2. PICK q : q = [op EXCEPT !.want = want]
  OBVIOUS
<1>3. GAt(a, "known") /\ (GStops(a, "refused") \/ GStops(a, "ok") \/ GReads(a, q))
  BY <1>1, <1>2 DEF Known
<1>4. /\ AtTask(a) /\ Doing(op) /\ Head(op.todo) = "known" /\ EntriesSound(entries)
      /\ GUndisturbed(a) => Learnt(entries, op)
  BY <1>1, <1>3, GAtIs
<1>5. CASE GStops(a, "refused") \/ GStops(a, "ok")
  BY <1>4, <1>5, GStopKeeps
<1>6. CASE GReads(a, q)
  <2>1. GFields \subseteq DOMAIN op /\ op.members \in Seq(Member)
    BY <1>4 DEF Doing
  <2>2. want \in Seq(Member) /\ ToSet(want) \subseteq ToSet(op.members)
    BY <1>1, <2>1, NeededIs
  <2>3. /\ DOMAIN q = DOMAIN op /\ q.want = want /\ q.before = op.before
        /\ q.newScope = op.newScope /\ q.newSecurity = op.newSecurity
        /\ q.do = op.do /\ q.dn = op.dn /\ q.members = op.members /\ q.text = op.text /\ q.scope = op.scope
        /\ q.security = op.security /\ q.recursive = op.recursive /\ q.result = op.result
        /\ q.nth = op.nth /\ q.alone = op.alone /\ q.todo = op.todo
    BY <1>2, <2>1 DEF GFields
  <2>4. Doing(q)
    BY <1>4, <2>1, <2>2, <2>3 DEF Doing
  <2>5. GGoes(a, q) /\ entries' = entries /\ groupOps' = groupOps
    BY <1>6 DEF GReads
  <2>6. ASSUME NEW x, GKept(x, q), Doing(x), Head(x.todo) \in After(Head(q.todo), q.recursive), GUndisturbed(a)
        PROVE  Learnt(entries', x)
    <3>1. GFields \subseteq DOMAIN q
      BY <2>1, <2>3
    <3>2. x.dn = q.dn /\ x.do = q.do /\ x.members = q.members /\ x.want = q.want /\ x.before = q.before
      BY <2>6, <3>1, KeptIs
    <3>3. Head(x.todo) \in {"there", "leave"}
      BY <1>4, <2>3, <2>6 DEF After
    <3>4. op.before = MembersIn(entries, op.dn)
      BY <1>4, <2>6 DEF Learnt
    <3>5. \A ms : Needed(x, ms) = Needed(op, ms)
      BY <2>3, <3>2 DEF Needed
    <3>6. x.want = Needed(x, MembersIn(entries', x.dn)) /\ x.before = MembersIn(entries', x.dn)
      BY <1>1, <2>3, <2>5, <3>2, <3>4, <3>5, ReadsAre
    <3> QED
      BY ONLY <3>3, <3>6 DEF Learnt
  <2>7. EntriesSound(entries')
    BY <1>4, <2>5
  <2> QED
    BY <1>1, <1>4, <2>3, <2>4, <2>5, <2>6, <2>7, GMoves
<1> QED
  BY <1>3, <1>5, <1>6

(* The entry an addition or a removal writes.                              *)
LEMMA JoinIs ==
  ASSUME GInv, NEW a \in MAdmin, AddMembers(a)
  PROVE  \/ /\ GStops(a, "failed")
            /\ ~ /\ There(task[a].dn) /\ IsInjective(task[a].want)
                 /\ \A m \in ToSet(task[a].want) : m \notin ToSet(MembersOf(task[a].dn)) /\ There(m)
         \/ /\ There(task[a].dn)
            /\ \E f \in GEntry : /\ GWrites(a, task[a].dn, f) /\ IsInjective(f.members)
                                 /\ f.type = entries[task[a].dn].type
                                 /\ ToSet(f.members) = ToSet(MembersOf(task[a].dn)) \cup ToSet(task[a].want)
<1>1. PICK op, current : op = task[a] /\ current = MembersOf(op.dn)
  OBVIOUS
<1>2. GAt(a, "join")
  BY DEF AddMembers
<1>3. Doing(op) /\ EntriesSound(entries)
  BY <1>1, <1>2, GAtIs
<1>4. CASE ~(~There(op.dn) \/ ~IsInjective(op.want) \/ \E m \in ToSet(op.want) : m \in ToSet(current) \/ ~There(m))
  <2>1. PICK e, f : e = entries[op.dn] /\ f = [e EXCEPT !.members = current \o op.want]
    OBVIOUS
  <2>2. There(op.dn) /\ IsInjective(op.want) /\ ToSet(current) \cap ToSet(op.want) = {}
    BY <1>4
  <2>3. e \in GEntry
    BY <1>3, <2>1, <2>2 DEF EntriesSound, There
  <2>4. current \in Seq(Member) /\ IsInjective(current)
    BY <1>1, <1>3, EntriesRead, ReadsAre
  <2>5. op.want \in Seq(Member)
    BY <1>3 DEF Doing
  <2>6. PICK ms : ms = current \o op.want
    OBVIOUS
  <2>7. /\ ms \in Seq(Member) /\ ToSet(ms) = ToSet(current) \cup ToSet(op.want)
        /\ IsInjective(current) /\ IsInjective(op.want) /\ ToSet(current) \cap ToSet(op.want) = {} => IsInjective(ms)
    BY ONLY <2>4, <2>5, <2>6, JoinedOnce
  <2>8. f \in GEntry /\ f.members = ms /\ f.type = e.type
    BY ONLY <2>1, <2>3, <2>6, <2>7 DEF GEntry
  <2>9. GWrites(a, op.dn, f)
    BY <1>1, <1>4, <2>1 DEF AddMembers
  <2> QED
    BY <1>1, <2>1, <2>2, <2>4, <2>7, <2>8, <2>9
<1>5. CASE ~There(op.dn) \/ ~IsInjective(op.want) \/ \E m \in ToSet(op.want) : m \in ToSet(current) \/ ~There(m)
  BY <1>1, <1>5 DEF AddMembers
<1> QED
  BY <1>4, <1>5

LEMMA LeaveIs ==
  ASSUME GInv, NEW a \in MAdmin, RemoveMembers(a)
  PROVE  \/ /\ GStops(a, "failed")
            /\ ~(There(task[a].dn) /\ ToSet(task[a].want) \subseteq ToSet(MembersOf(task[a].dn)))
         \/ /\ There(task[a].dn)
            /\ \E f \in GEntry : /\ GWrites(a, task[a].dn, f) /\ IsInjective(f.members)
                                 /\ f.type = entries[task[a].dn].type
                                 /\ ToSet(f.members) = ToSet(MembersOf(task[a].dn)) \ ToSet(task[a].want)
<1>1. PICK op, current : op = task[a] /\ current = MembersOf(op.dn)
  OBVIOUS
<1>2. GAt(a, "leave")
  BY DEF RemoveMembers
<1>3. Doing(op) /\ EntriesSound(entries)
  BY <1>1, <1>2, GAtIs
<1>4. CASE There(op.dn) /\ ToSet(op.want) \subseteq ToSet(current)
  <2>1. PICK e, ms : e = entries[op.dn] /\ ms = Those(current, Member \ ToSet(op.want))
    OBVIOUS
  <2>2. PICK f : f = [e EXCEPT !.members = ms]
    OBVIOUS
  <2>3. e \in GEntry
    BY <1>3, <1>4, <2>1 DEF EntriesSound, There
  <2>4. current \in Seq(Member) /\ IsInjective(current)
    BY <1>1, <1>3, EntriesRead, ReadsAre
  <2>5. ms \in Seq(Member) /\ ToSet(ms) = ToSet(current) \cap (Member \ ToSet(op.want)) /\ IsInjective(ms)
    BY <2>1, <2>4, ThoseOnce
  <2>6. ToSet(ms) = ToSet(current) \ ToSet(op.want)
    BY <2>4, <2>5, MembersAre
  <2>7. f \in GEntry /\ f.members = ms /\ f.type = e.type
    BY ONLY <2>2, <2>3, <2>5 DEF GEntry
  <2>8. GWrites(a, op.dn, f)
    BY <1>1, <1>4, <2>1, <2>2 DEF RemoveMembers
  <2> QED
    BY <1>1, <1>4, <2>1, <2>5, <2>6, <2>7, <2>8
<1>5. CASE ~(There(op.dn) /\ ToSet(op.want) \subseteq ToSet(current))
  BY <1>1, <1>5 DEF RemoveMembers
<1> QED
  BY <1>4, <1>5

LEMMA MembersKeep ==
  ASSUME GInv, NEW a \in MAdmin, AddMembers(a) \/ RemoveMembers(a)
  PROVE  GInv'
<1>1. PICK s \in {"join", "leave"} : GAt(a, s)
  BY DEF AddMembers, RemoveMembers
<1>2. AtTask(a) /\ EntriesSound(entries)
  BY <1>1, GAtIs
<1>3. CASE GStops(a, "failed")
  BY <1>2, <1>3, GStopKeeps
<1>4. CASE ~GStops(a, "failed")
  <2>1. PICK f \in GEntry : /\ GWrites(a, task[a].dn, f) /\ IsInjective(f.members)
                            /\ f.type = entries[task[a].dn].type /\ There(task[a].dn)
    BY <1>4, JoinIs, LeaveIs
  <2>2. task[a].dn \in Group => GroupScope(f.type) # "none"
    BY <1>2, <2>1 DEF EntriesSound, There
  <2> QED
    BY <1>1, <2>1, <2>2, GWriteKeeps
<1> QED
  BY <1>3, <1>4

---------------------------------------------------------------------------
(* Walks: one object off the stack.                                        *)
LEMMA TailIs ==
  ASSUME NEW E, NEW s \in Seq(E), s # <<>>
  PROVE  /\ Tail(s) \in Seq(E) /\ Len(Tail(s)) = Len(s) - 1 /\ Head(s) = s[1] /\ 1 \in 1..Len(s)
         /\ \A i \in 1..Len(Tail(s)) : \E j \in 2..Len(s) : Tail(s)[i] = s[j]
         /\ \A j \in 2..Len(s) : \E i \in 1..Len(Tail(s)) : Tail(s)[i] = s[j]
         /\ \A j \in 1..Len(s) : j = 1 \/ j \in 2..Len(s)
<1>0. PICK n \in Nat : n = Len(s)
  OBVIOUS
<1>1. PICK t : t = Tail(s) /\ n = Len(s)
  BY <1>0
<1>2. n > 0 /\ Head(s) = s[1]
  BY <1>1
<1>3. /\ t \in Seq(E) /\ Len(t) = n - 1 /\ \A i \in 1..n - 1 : t[i] = s[i + 1]
  BY <1>1, HeadTailProperties
<1>4. ASSUME NEW i \in 1..n - 1 PROVE \E j \in 2..n : t[i] = s[j]
  <2>1. i + 1 \in 2..n
    BY <1>4
  <2> QED
    BY <1>3, <2>1
<1>5. ASSUME NEW j \in 2..n PROVE \E i \in 1..n - 1 : t[i] = s[j]
  <2>1. j - 1 \in 1..n - 1 /\ (j - 1) + 1 = j
    BY <1>5
  <2>2. t[j - 1] = s[(j - 1) + 1]
    BY <1>3, <2>1
  <2>3. t[j - 1] = s[j]
    BY <2>1, <2>2
  <2> QED
    BY <2>1, <2>3
<1>6. \A j \in 1..n : j = 1 \/ j \in 2..n
  OBVIOUS
<1>7. 1 \in 1..n
  BY <1>2
<1> QED
  BY <1>1, <1>2, <1>3, <1>4, <1>5, <1>6, <1>7

LEMMA WalkTops ==
  ASSUME NEW roots, NEW seen, NEW stack, NEW all, Walk(roots, seen, stack, all), stack # <<>>
  PROVE  /\ Head(stack)[1] \in all /\ Head(stack)[2] \in Nat /\ Head(stack) = stack[1] /\ 1 \in 1..Len(stack)
         /\ stack \in Seq(Member \X Nat) /\ seen \in Seq(Member) /\ Head(stack)[1] \in Member
<1>1. stack \in Seq(Member \X Nat) /\ seen \in Seq(Member) /\ \A i \in 1..Len(stack) : stack[i][1] \in all
  BY DEF Walk
<1>2. Head(stack) = stack[1] /\ 1 \in 1..Len(stack)
  BY <1>1, TailIs
<1>3. stack[1] \in Member \X Nat
  BY <1>1, <1>2, ElementOfSeq
<1> QED
  BY <1>1, <1>2, <1>3

LEMMA WalkDrops ==
  ASSUME NEW roots, NEW seen, NEW stack, NEW all, Walk(roots, seen, stack, all), stack # <<>>, NEW next,
         Head(stack)[1] \in ToSet(seen)
  PROVE  /\ Walk(roots, seen, Tail(stack), all)
         /\ Opened(seen, stack, next) => Opened(seen, Tail(stack), next)
<1>1. PICK top, rest : top = Head(stack)[1] /\ rest = Tail(stack)
  OBVIOUS
<1>2. stack \in Seq(Member \X Nat) /\ seen \in Seq(Member) /\ top \in all /\ top \in ToSet(seen) /\ stack[1][1] = top
  BY <1>1, WalkTops
<1>3. /\ rest \in Seq(Member \X Nat)
      /\ \A i \in 1..Len(rest) : \E j \in 2..Len(stack) : rest[i] = stack[j]
      /\ \A j \in 2..Len(stack) : \E i \in 1..Len(rest) : rest[i] = stack[j]
      /\ \A j \in 1..Len(stack) : j = 1 \/ j \in 2..Len(stack)
  BY <1>1, <1>2, TailIs
<1>4. \A i \in 1..Len(stack) : stack[i][1] = top \/ \E j \in 1..Len(rest) : rest[j][1] = stack[i][1]
  BY ONLY <1>2, <1>3
<1>5. \A i \in 1..Len(rest) : rest[i][1] \in all
  <2>1. \A j \in 2..Len(stack) : j \in 1..Len(stack)
    BY <1>2
  <2>2. \A j \in 1..Len(stack) : stack[j][1] \in all
    BY DEF Walk
  <2> QED
    BY ONLY <1>3, <2>1, <2>2
<1>6. IsInjective(seen) /\ ToSet(seen) = ToSet(seen) \cup {top}
  BY <1>2 DEF Walk
<1>7. /\ Walk(roots, seen, rest, all)
      /\ Opened(seen, stack, next) /\ (top \in ToSet(seen) \/ \A x \in next[top] : Met(x, seen, rest))
           => Opened(seen, rest, next)
  <2>1. Taken(seen, stack, all, top, seen, rest)
    BY ONLY <1>2, <1>3, <1>4, <1>5, <1>6 DEF Taken
  <2> QED
    BY ONLY Walk(roots, seen, stack, all), <2>1, WalkGoes
<1> QED
  BY <1>1, <1>2, <1>7

LEMMA WalkTakes ==
  ASSUME NEW roots, NEW seen, NEW stack, NEW all, Walk(roots, seen, stack, all), stack # <<>>, NEW next,
         Head(stack)[1] \notin ToSet(seen)
  PROVE  /\ Walk(roots, Append(seen, Head(stack)[1]), Tail(stack), all)
         /\ Len(Append(seen, Head(stack)[1])) = Len(seen) + 1
         /\ ToSet(Append(seen, Head(stack)[1])) = ToSet(seen) \cup {Head(stack)[1]}
<1>1. PICK top, rest, seen2 : top = Head(stack)[1] /\ rest = Tail(stack) /\ seen2 = Append(seen, top)
  OBVIOUS
<1>2. stack \in Seq(Member \X Nat) /\ seen \in Seq(Member) /\ top \in all /\ top \in Member /\ stack[1][1] = top
  BY <1>1, WalkTops
<1>3. /\ rest \in Seq(Member \X Nat)
      /\ \A i \in 1..Len(rest) : \E j \in 2..Len(stack) : rest[i] = stack[j]
      /\ \A j \in 2..Len(stack) : \E i \in 1..Len(rest) : rest[i] = stack[j]
      /\ \A j \in 1..Len(stack) : j = 1 \/ j \in 2..Len(stack)
  BY <1>1, <1>2, TailIs
<1>4. \A i \in 1..Len(stack) : stack[i][1] = top \/ \E j \in 1..Len(rest) : rest[j][1] = stack[i][1]
  BY ONLY <1>2, <1>3
<1>5. \A i \in 1..Len(rest) : rest[i][1] \in all
  <2>1. \A j \in 2..Len(stack) : j \in 1..Len(stack)
    BY <1>2
  <2>2. \A j \in 1..Len(stack) : stack[j][1] \in all
    BY DEF Walk
  <2> QED
    BY ONLY <1>3, <2>1, <2>2
<1>6. /\ seen2 \in Seq(Member) /\ Len(seen2) = Len(seen) + 1 /\ ToSet(seen2) = ToSet(seen) \cup {top}
      /\ IsInjective(seen) /\ top \notin ToSet(seen) => IsInjective(seen2)
  BY <1>1, <1>2, AppendedOnce
<1>7. IsInjective(seen2)
  BY <1>1, <1>6 DEF Walk
<1>8. Walk(roots, seen2, rest, all)
  <2>1. Taken(seen, stack, all, top, seen2, rest)
    BY ONLY <1>2, <1>3, <1>4, <1>5, <1>6, <1>7 DEF Taken
  <2> QED
    BY ONLY Walk(roots, seen, stack, all), <2>1, WalkGoes
<1> QED
  BY <1>1, <1>6, <1>8

OpensOne(seen, stack, all, next, ms, op) ==
  /\ stack # <<>> /\ Head(stack)[1] \notin ToSet(seen)
  /\ ms \in Seq(Member) /\ ToSet(ms) = next[Head(stack)[1]] /\ ToSet(ms) \subseteq all
  /\ op.shown = Append(seen, Head(stack)[1]) /\ op.stack = stack
LEMMA WalkOpens ==
  ASSUME NEW roots, NEW seen, NEW stack, NEW all, Walk(roots, seen, stack, all), NEW next, NEW ms, NEW op,
         OpensOne(seen, stack, all, next, ms, op), NEW depth \in Nat
  PROVE  /\ Walk(roots, op.shown, Pushed(ms, depth, op), all)
         /\ Opened(seen, stack, next) => Opened(op.shown, Pushed(ms, depth, op), next)
         /\ \A i \in 1..Len(Pushed(ms, depth, op)) :
              \/ Pushed(ms, depth, op)[i][2] = depth
              \/ \E j \in 2..Len(stack) : Pushed(ms, depth, op)[i] = stack[j]
         /\ IsInjective(ms) => Len(Pushed(ms, depth, op)) <= Len(stack) - 1 + Cardinality(ToSet(ms))
<1>0. /\ stack # <<>> /\ Head(stack)[1] \notin ToSet(seen)
      /\ ms \in Seq(Member) /\ ToSet(ms) = next[Head(stack)[1]] /\ ToSet(ms) \subseteq all
      /\ op.shown = Append(seen, Head(stack)[1]) /\ op.stack = stack
  BY DEF OpensOne
<1>1. PICK top, P, seen2 : top = Head(stack)[1] /\ P = Pushed(ms, depth, op) /\ seen2 = op.shown
  OBVIOUS
<1>2. stack \in Seq(Member \X Nat) /\ seen \in Seq(Member) /\ top \in all /\ top \in Member /\ stack[1][1] = top
  BY <1>0, <1>1, WalkTops
<1>3. /\ seen2 \in Seq(Member) /\ ToSet(seen2) = ToSet(seen) \cup {top}
      /\ IsInjective(seen) /\ top \notin ToSet(seen) => IsInjective(seen2)
  BY <1>0, <1>1, <1>2, AppendedOnce
<1>4. IsInjective(seen2)
  BY <1>0, <1>1, <1>3 DEF Walk
<1>5. OnTop(P, ms, depth, seen2, stack)
  <2>1. op.shown \in Seq(Member) /\ op.stack \in Seq(Member \X Nat) /\ op.stack # <<>> /\ ms \in Seq(Member)
    BY <1>0, <1>1, <1>2, <1>3
  <2>2. OnTop(Pushed(ms, depth, op), ms, depth, op.shown, op.stack)
    BY ONLY <2>1, depth \in Nat, PushedIs
  <2> QED
    BY ONLY <1>0, <1>1, <2>2
<1>6. \A j \in 1..Len(stack) : j = 1 \/ j \in 2..Len(stack)
  BY <1>0, <1>2, TailIs
<1>7. \A i \in 1..Len(stack) : stack[i][1] = top \/ \E j \in 1..Len(P) : P[j][1] = stack[i][1]
  BY ONLY <1>2, <1>5, <1>6 DEF OnTop
<1>8. \A i \in 1..Len(P) : P[i][1] \in all
  <2>1. \A j \in 2..Len(stack) : j \in 1..Len(stack)
    BY <1>2
  <2>2. \A j \in 1..Len(stack) : stack[j][1] \in all
    BY DEF Walk
  <2>3. \A j \in 2..Len(stack) : stack[j][1] \in all
    BY ONLY <2>1, <2>2
  <2>4. \A x \in ToSet(ms) : x \in all
    BY ONLY <1>0
  <2>5. \A i \in 1..Len(P) : P[i][1] \in ToSet(ms) \/ \E j \in 2..Len(stack) : P[i] = stack[j]
    BY ONLY <1>5 DEF OnTop
  <2> QED
    BY ONLY <2>3, <2>4, <2>5
<1>9. /\ Walk(roots, seen2, P, all)
      /\ Opened(seen, stack, next) /\ (top \in ToSet(seen) \/ \A x \in next[top] : Met(x, seen2, P))
           => Opened(seen2, P, next)
  <2>1. Taken(seen, stack, all, top, seen2, P)
    BY ONLY <1>2, <1>3, <1>4, <1>5, <1>7, <1>8 DEF Taken, OnTop
  <2> QED
    BY ONLY Walk(roots, seen, stack, all), <2>1, WalkGoes
<1>10. \A x \in next[top] : Met(x, seen2, P)
  BY <1>0, <1>1, <1>5 DEF Met, OnTop
<1>11. OnTop(P, ms, depth, seen2, stack)
  BY <1>5
<1> QED
  BY <1>1, <1>9, <1>10, <1>11 DEF OnTop

LEMMA DownGoes ==
  ASSUME NEW roots, NEW seen, NEW stack, NEW all, Walk(roots, seen, stack, all), stack # <<>>,
         NEW next, Downs(seen, stack, next)
  PROVE  /\ Head(stack)[1] \in ToSet(seen) => Downs(seen, Tail(stack), next)
         /\ Head(stack)[1] \notin ToSet(seen) /\ Head(stack)[2] >= MaxDepth
              => Downs(Append(seen, Head(stack)[1]), Tail(stack), next)
         /\ \A ms, op : OpensOne(seen, stack, all, next, ms, op) =>
              Downs(op.shown, Pushed(ms, Head(stack)[2] + 1, op), next)
<1>1. PICK top : top = Head(stack)
  OBVIOUS
<1>2. /\ stack \in Seq(Member \X Nat) /\ seen \in Seq(Member) /\ top[2] \in Nat /\ top = stack[1] /\ 1 \in 1..Len(stack)
      /\ top[1] \in Member
  BY <1>1, WalkTops
<1>3. PICK n \in Nat, m \in Nat : n = Len(seen) /\ m = MaxDepth
  BY <1>2, GroupConstants
<1>4. /\ \A i \in 1..Len(stack) : stack[i][2] <= n
      /\ n > m \/ Opened(seen, stack, next)
  BY <1>3 DEF Downs
<1>5. top[2] <= n /\ \A j \in 2..Len(stack) : j \in 1..Len(stack) /\ stack[j][2] <= n /\ stack[j][2] \in Nat
  <2>1. \A j \in 2..Len(stack) : j \in 1..Len(stack)
    BY <1>2
  <2>2. \A j \in 1..Len(stack) : stack[j] \in Member \X Nat
    BY <1>2, ElementOfSeq
  <2> QED
    BY <1>2, <1>4, <2>1, <2>2
<1>6. \A i \in 1..Len(Tail(stack)) : Tail(stack)[i][2] <= n /\ Tail(stack)[i][2] \in Nat
  <2>1. \A i \in 1..Len(Tail(stack)) : \E j \in 2..Len(stack) : Tail(stack)[i] = stack[j]
    BY <1>2, TailIs
  <2> QED
    BY ONLY <1>5, <2>1
<1>7. ASSUME top[1] \in ToSet(seen) PROVE Downs(seen, Tail(stack), next)
  <2>1. Opened(seen, stack, next) => Opened(seen, Tail(stack), next)
    BY <1>1, <1>7, WalkDrops
  <2> QED
    BY <1>3, <1>4, <1>6, <2>1 DEF Downs
<1>8. ASSUME top[1] \notin ToSet(seen), top[2] >= MaxDepth PROVE Downs(Append(seen, top[1]), Tail(stack), next)
  <2>1. Len(Append(seen, top[1])) = n + 1
    BY <1>1, <1>3, <1>8, WalkTakes
  <2>2. n + 1 > m
    BY <1>2, <1>3, <1>5, <1>8
  <2>3. \A k \in Nat : k <= n => k <= n + 1
    OBVIOUS
  <2>4. \A i \in 1..Len(Tail(stack)) : Tail(stack)[i][2] <= n + 1
    BY ONLY <1>6, <2>3
  <2> QED
    BY ONLY <1>3, <2>1, <2>2, <2>4 DEF Downs
<1>9. ASSUME NEW ms, NEW op, OpensOne(seen, stack, all, next, ms, op)
      PROVE  Downs(op.shown, Pushed(ms, top[2] + 1, op), next)
  <2>0. PICK depth \in Nat : depth = top[2] + 1
    BY <1>2
  <2>1. PICK P : depth = top[2] + 1 /\ P = Pushed(ms, depth, op)
    BY <2>0
  <2>2. /\ Opened(seen, stack, next) => Opened(op.shown, P, next)
        /\ \A i \in 1..Len(P) : P[i][2] = depth \/ \E j \in 2..Len(stack) : P[i] = stack[j]
    BY ONLY Walk(roots, seen, stack, all), <1>9, <2>1, depth \in Nat, WalkOpens
  <2>3. Len(op.shown) = n + 1
    BY <1>1, <1>3, <1>9, WalkTakes DEF OpensOne
  <2>4. depth <= n + 1
    BY <1>2, <1>3, <1>5, <2>1
  <2>5. \A k \in Nat : k <= n => k <= n + 1
    OBVIOUS
  <2>6. \A i \in 1..Len(P) : P[i][2] <= n + 1
    BY ONLY <1>5, <2>2, <2>4, <2>5
  <2>7. n > m => n + 1 > m
    BY <1>3
  <2>8. n + 1 > m \/ Opened(op.shown, P, next)
    BY ONLY <1>4, <2>2, <2>7
  <2> QED
    BY ONLY <1>3, <2>1, <2>3, <2>6, <2>8 DEF Downs
<1> QED
  BY <1>1, <1>7, <1>8, <1>9

LEMMA UpGoes ==
  ASSUME NEW roots \in Seq(Member), NEW seen, NEW stack, NEW all, all \subseteq Member,
         Walk(roots, seen, stack, all), stack # <<>>,
         NEW next \in [Member -> SUBSET Member], NEW pops \in Nat, Ups(pops, seen, stack, roots, next)
  PROVE  /\ Head(stack)[1] \in ToSet(seen) => Ups(pops + 1, seen, Tail(stack), roots, next)
         /\ \A ms, op : OpensOne(seen, stack, all, next, ms, op) /\ IsInjective(ms) =>
              Ups(pops + 1, op.shown, Pushed(ms, 0, op), roots, next)
<1>1. PICK top, rest : top = Head(stack)[1] /\ rest = Tail(stack)
  OBVIOUS
<1>2. stack \in Seq(Member \X Nat) /\ seen \in Seq(Member) /\ top \in Member /\ ToSet(seen) \in SUBSET Member
  BY <1>1, WalkTops DEF Walk
<1>3. PICK n, k, e \in Nat : n = Len(roots) /\ k = Len(stack) /\ e = Cardinality(Edges(ToSet(seen), next))
  BY <1>2, EdgesFinite
<1>4. Opened(seen, stack, next) /\ pops + k <= n + e
  BY <1>3 DEF Ups
<1>5. Len(rest) = k - 1 /\ k > 0
  <2>1. Len(rest) = k - 1 /\ 1 \in 1..k
    BY <1>1, <1>2, <1>3, TailIs
  <2> QED
    BY <2>1
<1>6. ASSUME top \in ToSet(seen) PROVE Ups(pops + 1, seen, rest, roots, next)
  <2>1. Opened(seen, rest, next)
    BY <1>1, <1>4, <1>6, WalkDrops
  <2>2. pops + 1 + (k - 1) <= n + e
    BY <1>4
  <2> QED
    BY ONLY <1>3, <1>5, <2>1, <2>2 DEF Ups
<1>7. ASSUME NEW ms, NEW op, OpensOne(seen, stack, all, next, ms, op), IsInjective(ms)
      PROVE  Ups(pops + 1, op.shown, Pushed(ms, 0, op), roots, next)
  <2>1. PICK P : P = Pushed(ms, 0, op)
    OBVIOUS
  <2>2. /\ Opened(op.shown, P, next) /\ Len(P) <= Len(stack) - 1 + Cardinality(ToSet(ms)) /\ P \in Seq(Member \X Nat)
    <3>1. 0 \in Nat
      OBVIOUS
    <3>2. /\ Walk(roots, op.shown, P, all)
          /\ Opened(seen, stack, next) => Opened(op.shown, P, next)
          /\ IsInjective(ms) => Len(P) <= Len(stack) - 1 + Cardinality(ToSet(ms))
      BY ONLY Walk(roots, seen, stack, all), <1>7, <2>1, <3>1, WalkOpens
    <3> QED
      BY <1>4, <1>7, <3>2 DEF Walk
  <2>3. ToSet(op.shown) = ToSet(seen) \cup {top} /\ top \notin ToSet(seen) /\ ToSet(ms) = next[top]
    BY <1>1, <1>7, WalkTakes DEF OpensOne
  <2>4. PICK f, p \in Nat : f = Cardinality(next[top]) /\ p = Len(P)
    <3>1. next[top] \in SUBSET Member
      BY <1>2
    <3>2. Cardinality(next[top]) \in Nat
      BY <3>1, GroupConstants, FS_Subset, FS_CardinalityType
    <3>3. Len(P) \in Nat
      BY <2>2
    <3> QED
      BY <3>2, <3>3
  <2>5. Cardinality(Edges(ToSet(op.shown), next)) = e + f
    <3>1. top \in Member \ ToSet(seen)
      BY <1>2, <2>3
    <3> QED
      BY <1>2, <1>3, <2>3, <2>4, <3>1, EdgesGrow
  <2>6. p <= k - 1 + f
    BY <1>3, <2>2, <2>3, <2>4
  <2>7. pops + 1 + p <= n + (e + f)
    BY ONLY <1>4, <2>6, pops \in Nat, n \in Nat, k \in Nat, e \in Nat, f \in Nat, p \in Nat
  <2> QED
    BY ONLY <1>3, <2>1, <2>2, <2>4, <2>5, <2>7 DEF Ups
<1> QED
  BY <1>1, <1>6, <1>7

(* A walk at its roots.                                                    *)
LEMMA ClosingAll ==
  ASSUME NEW es, EntriesSound(es), NEW op, op.roots \in Seq(Member), op.recursive
  PROVE  Closing(ToSet(op.roots), IF op.do = "list members" THEN DownIn(es) ELSE UpIn(es), AllIn(es, op))
<1>1. PICK next : next = IF op.do = "list members" THEN DownIn(es) ELSE UpIn(es)
  OBVIOUS
<1>2. next \in [Member -> SUBSET Member]
  <2>1. DownIn(es) \in [Member -> SUBSET Member] /\ UpIn(es) \in [Member -> SUBSET Member]
    BY EntriesRead
  <2> QED
    BY <1>1, <2>1
<1>3. ToSet(op.roots) \in SUBSET Member
  BY MembersAre
<1>4. AllIn(es, op) = Beyond(ToSet(op.roots), next, Cardinality(Member))
  BY <1>1 DEF AllIn
<1>5. Closing(ToSet(op.roots), next, Beyond(ToSet(op.roots), next, Cardinality(Member)))
  BY ONLY <1>2, <1>3, BeyondCloses
<1> QED
  BY <1>1, <1>4, <1>5

LEMMA RootsHeld ==
  ASSUME NEW es, EntriesSound(es), NEW op, op.roots \in Seq(Member)
  PROVE  ToSet(op.roots) \subseteq AllIn(es, op) /\ AllIn(es, op) \subseteq Member
<1>1. CASE op.recursive
  BY <1>1, ClosingAll DEF Closing
<1>2. CASE ~op.recursive
  BY <1>2, MembersAre DEF AllIn
<1> QED
  BY <1>1, <1>2

LEMMA RootedLearns ==
  ASSUME NEW es, EntriesSound(es), NEW op, Rooted(op)
  PROVE  /\ Walking(es, op) /\ Downs(Seen(op), op.stack, DownIn(es))
         /\ Ups(op.pops, Seen(op), op.stack, op.roots, UpIn(es))
         /\ ~op.recursive => ShownSound(es, op)
<1>1. PICK roots, stack, all : roots = op.roots /\ stack = op.stack /\ all = AllIn(es, op)
  OBVIOUS
<1>2. /\ roots \in Seq(Member) /\ IsInjective(roots) /\ op.shown = roots /\ op.pops = 0
      /\ stack = [i \in DOMAIN roots |-> <<roots[i], 0>>]
  BY <1>1 DEF Rooted
<1>3. Seen(op) = <<>>
  BY <1>2 DEF Seen
<1>4. ToSet(roots) \subseteq all /\ all \subseteq Member
  BY <1>1, <1>2, RootsHeld
<1>5. <<>> \in Seq(Member) /\ IsInjective(<<>>) /\ ToSet(<<>>) = {} /\ Len(<<>>) = 0
  <2>1. DOMAIN <<>> = {}
    OBVIOUS
  <2> QED
    BY <2>1 DEF IsInjective, ToSet
<1>6. PICK n \in Nat : n = Len(roots) /\ DOMAIN roots = 1..n
  BY <1>2
<1>7. /\ stack \in Seq(Member \X Nat) /\ Len(stack) = n
      /\ \A i \in 1..n : stack[i] = <<roots[i], 0>>
  BY <1>2, <1>6
<1>8. \A x : x \in ToSet(roots) <=> \E i \in 1..n : roots[i] = x
  BY <1>2, <1>6, MembersAre
<1>9. \A i \in 1..n : stack[i][1] = roots[i] /\ stack[i][2] = 0
  BY <1>7
<1>10. Walk(roots, <<>>, stack, all)
  BY ONLY <1>4, <1>5, <1>7, <1>8, <1>9 DEF Walk, Met
<1>11. Walking(es, op)
  BY <1>1, <1>2, <1>3, <1>10 DEF Walking
<1>12. \A next : Opened(<<>>, stack, next)
  BY <1>5 DEF Opened
<1>13. Downs(<<>>, stack, DownIn(es))
  <2>1. \A i \in 1..Len(stack) : stack[i][2] <= Len(<<>>)
    BY <1>5, <1>7, <1>9
  <2> QED
    BY <1>12, <2>1 DEF Downs
<1>14. Ups(0, <<>>, stack, roots, UpIn(es))
  <2>1. PICK e : e = Cardinality(Edges(ToSet(<<>>), UpIn(es)))
    OBVIOUS
  <2>2. {} \in SUBSET Member
    OBVIOUS
  <2>3. e \in Nat
    BY <1>5, <2>1, <2>2, EdgesFinite
  <2>4. 0 + n <= n + e
    BY <2>3
  <2> QED
    BY ONLY <1>6, <1>7, <1>12, <2>1, <2>4 DEF Ups
<1>15. ASSUME ~op.recursive PROVE ShownSound(es, op)
  <2>1. all = ToSet(roots)
    BY <1>1, <1>15 DEF AllIn
  <2> QED
    BY ONLY <1>1, <1>2, <2>1 DEF ShownSound
<1> QED
  BY <1>1, <1>2, <1>3, <1>11, <1>13, <1>14, <1>15

LEMMA RootsKeep ==
  ASSUME GInv, NEW a \in MAdmin, NEW s \in {"direct", "primaries"}, GAt(a, s), NEW roots,
         GUndisturbed(a) => roots \in Seq(Member) /\ IsInjective(roots) /\ task[a].pops = 0,
         GReads(a, [task[a] EXCEPT !.roots = roots, !.shown = roots,
                                   !.stack = [i \in DOMAIN roots |-> <<roots[i], 0>>]])
  PROVE  GInv'
<1>1. PICK op, stack : op = task[a] /\ stack = [i \in DOMAIN roots |-> <<roots[i], 0>>]
  OBVIOUS
<1>2. PICK q : q = [op EXCEPT !.roots = roots, !.shown = roots, !.stack = stack]
  OBVIOUS
<1>3. GReads(a, q)
  BY <1>1, <1>2
<1>4. /\ AtTask(a) /\ Doing(op) /\ Head(op.todo) = s /\ EntriesSound(entries)
      /\ GUndisturbed(a) => Learnt(entries, op)
  BY <1>1, GAtIs
<1>5. GFields \subseteq DOMAIN op
  BY <1>4 DEF Doing
<1>6. /\ DOMAIN q = DOMAIN op /\ q.roots = roots /\ q.shown = roots /\ q.stack = stack /\ q.pops = op.pops
      /\ q.type = op.type /\ q.newScope = op.newScope /\ q.newSecurity = op.newSecurity
      /\ q.do = op.do /\ q.dn = op.dn /\ q.members = op.members /\ q.text = op.text /\ q.scope = op.scope
      /\ q.security = op.security /\ q.recursive = op.recursive /\ q.result = op.result
      /\ q.want = op.want /\ q.nth = op.nth /\ q.alone = op.alone /\ q.todo = op.todo
  BY <1>2, <1>5 DEF GFields
<1>7. Doing(q)
  BY <1>4, <1>5, <1>6 DEF Doing
<1>8. GGoes(a, q) /\ entries' = entries /\ groupOps' = groupOps
  BY <1>3 DEF GReads
<1>9. ASSUME NEW x, GKept(x, q), Doing(x), Head(x.todo) \in After(Head(q.todo), q.recursive), GUndisturbed(a)
      PROVE  Learnt(entries', x)
  <2>1. GFields \subseteq DOMAIN q
    BY <1>5, <1>6
  <2>2. /\ x.roots = q.roots /\ x.shown = q.shown /\ x.stack = q.stack /\ x.pops = q.pops /\ x.recursive = q.recursive
    BY <1>9, <2>1, KeptIs
  <2>3. /\ Head(x.todo) \in {"primaries", "down", "up", "show"}
        /\ Head(x.todo) = "show" => ~x.recursive
    BY <1>4, <1>6, <1>9, <2>2 DEF After
  <2>4. Rooted(x)
    BY <1>1, <1>6, <1>9, <2>2 DEF Rooted
  <2>5. /\ Walking(entries', x) /\ Downs(Seen(x), x.stack, DownIn(entries'))
        /\ Ups(x.pops, Seen(x), x.stack, x.roots, UpIn(entries'))
        /\ ~x.recursive => ShownSound(entries', x)
    BY <1>4, <1>8, <2>4, RootedLearns
  <2> QED
    BY ONLY <2>3, <2>4, <2>5 DEF Learnt
<1>10. EntriesSound(entries')
  BY <1>4, <1>8
<1> QED
  BY <1>1, <1>4, <1>6, <1>7, <1>8, <1>9, <1>10, GMoves

LEMMA DirectKeeps ==
  ASSUME GInv, NEW a \in MAdmin, Direct(a)
  PROVE  GInv'
<1>1. PICK op, above, roots :
        /\ op = task[a]
        /\ above = Extra(Listed(ParentsOf(op.dn)), {entries[op.dn].primary} \ {Nobody})
        /\ roots = IF op.do = "list members" THEN MembersOf(op.dn) ELSE above
  OBVIOUS
<1>2. /\ GAt(a, "direct")
      /\ IF ~There(op.dn) THEN GStops(a, "refused")
         ELSE GReads(a, [op EXCEPT !.roots = roots, !.shown = roots,
                                   !.stack = [i \in DOMAIN roots |-> <<roots[i], 0>>]])
  BY <1>1 DEF Direct
<1>3. /\ AtTask(a) /\ Head(op.todo) = "direct" /\ EntriesSound(entries)
      /\ GUndisturbed(a) => Learnt(entries, op)
  BY <1>1, <1>2, GAtIs
<1>4. CASE ~There(op.dn)
  BY <1>2, <1>3, <1>4, GStopKeeps
<1>5. CASE There(op.dn)
  <2>1. GUndisturbed(a) => op.pops = 0
    BY <1>3 DEF Learnt
  <2>2. MembersOf(op.dn) \in Seq(Member) /\ IsInjective(MembersOf(op.dn))
    BY <1>3, EntriesRead, ReadsAre
  <2>3. PICK parents : parents = ParentsOf(op.dn)
    OBVIOUS
  <2>4. parents \in SUBSET Member /\ IsFiniteSet(parents)
    BY <1>3, <2>3, EntriesRead, ReadsAre
  <2>5. Listed(parents) \in Seq(Member) /\ IsInjective(Listed(parents))
    BY <2>4, ListedIs
  <2>6. PICK primary : primary = {entries[op.dn].primary} \ {Nobody}
    OBVIOUS
  <2>7. entries[op.dn] \in GEntry
    BY <1>3, <1>5 DEF EntriesSound, There
  <2>8. primary \in SUBSET Member
    BY <2>6, <2>7 DEF GEntry, Member
  <2>9. IsFiniteSet(primary)
    BY <2>8, GroupConstants, FS_Subset
  <2>10. above \in Seq(Member) /\ IsInjective(above)
    BY <1>1, <2>3, <2>5, <2>6, <2>8, <2>9, ExtraIs
  <2>11. roots \in Seq(Member) /\ IsInjective(roots)
    BY <1>1, <2>2, <2>10
  <2> QED
    BY <1>1, <1>2, <1>5, <2>1, <2>11, RootsKeep
<1> QED
  BY <1>4, <1>5

LEMMA PrimariesKeep ==
  ASSUME GInv, NEW a \in MAdmin, Primaries(a)
  PROVE  GInv'
<1>1. PICK op, ms, roots :
        /\ op = task[a] /\ ms = {m \in DOMAIN entries : entries[m].primary = op.dn}
        /\ roots = Extra(op.roots, ms)
  OBVIOUS
<1>2. /\ GAt(a, "primaries")
      /\ GReads(a, [op EXCEPT !.roots = roots, !.shown = roots,
                              !.stack = [i \in DOMAIN roots |-> <<roots[i], 0>>]])
  BY <1>1 DEF Primaries
<1>3. /\ AtTask(a) /\ Head(op.todo) = "primaries" /\ EntriesSound(entries)
      /\ GUndisturbed(a) => Learnt(entries, op)
  BY <1>1, <1>2, GAtIs
<1>4. ms \in SUBSET Member
  BY <1>1, <1>3 DEF EntriesSound
<1>5. IsFiniteSet(ms)
  BY <1>4, GroupConstants, FS_Subset
<1>6. ASSUME GUndisturbed(a) PROVE roots \in Seq(Member) /\ IsInjective(roots) /\ op.pops = 0
  <2>1. op.roots \in Seq(Member) /\ IsInjective(op.roots) /\ op.pops = 0
    BY <1>3, <1>6 DEF Learnt, Rooted
  <2> QED
    BY <1>1, <1>4, <1>5, <2>1, ExtraIs
<1> QED
  BY <1>1, <1>2, <1>6, RootsKeep

LEMMA WalkShown ==
  ASSUME NEW es, NEW op, Walking(es, op), op.stack = <<>> \/ op.pops # 0
  PROVE  op.shown = Seen(op)
<1>1. CASE op.pops # 0
  BY <1>1 DEF Seen
<1>2. CASE op.pops = 0 /\ op.stack = <<>>
  <2>1. /\ op.roots \in Seq(Member) /\ op.shown = op.roots
        /\ op.stack = [i \in DOMAIN op.roots |-> <<op.roots[i], 0>>]
    BY <1>2 DEF Walking, Rooted
  <2>2. DOMAIN <<>> = {}
    OBVIOUS
  <2>3. DOMAIN op.roots = {}
    BY <1>2, <2>1, <2>2
  <2>4. op.roots = <<>>
    <3>1. PICK r \in Seq(Member), n \in Nat : r = op.roots /\ n = Len(r) /\ DOMAIN r = 1..n
      BY <2>1
    <3>2. 1..n = {}
      BY ONLY <2>3, <3>1
    <3>3. n > 0 => 1 \in 1..n
      BY <3>1
    <3>4. n = 0
      BY <3>2, <3>3
    <3>5. r = <<>>
      BY <3>1, <3>4, EmptySeq
    <3> QED
      BY <3>1, <3>5
  <2> QED
    BY <1>2, <2>1, <2>4 DEF Seen
<1> QED
  BY <1>1, <1>2

(* One object of a walk: what the operation is afterwards.                 *)
Turns(op, q, deep, ms, depth) ==
  LET top == Head(op.stack)[1] IN
  /\ q.roots = op.roots /\ q.do = op.do /\ q.recursive = op.recursive /\ q.pops \in Nat /\ q.pops # 0
  /\ \/ top \in ToSet(Seen(op)) /\ q.shown = Seen(op) /\ q.stack = Tail(op.stack)
     \/ deep /\ top \notin ToSet(Seen(op)) /\ q.shown = Append(Seen(op), top) /\ q.stack = Tail(op.stack)
     \/ /\ top \notin ToSet(Seen(op)) /\ q.shown = Append(Seen(op), top)
        /\ \E taken : /\ taken.shown = q.shown /\ taken.stack = op.stack
                      /\ q.stack = Pushed(ms, depth, taken)

Going(es, op, q, deep, ms, depth, next) ==
  /\ EntriesSound(es) /\ op.recursive /\ Walking(es, op) /\ op.stack # <<>>
  /\ next = IF op.do = "list members" THEN DownIn(es) ELSE UpIn(es)
  /\ ms \in Seq(Member) /\ ToSet(ms) = next[Head(op.stack)[1]] /\ depth \in Nat
  /\ Turns(op, q, deep, ms, depth)

LEMMA WalkGoesOn ==
  ASSUME NEW es, NEW op, NEW q, NEW deep, NEW ms, NEW depth, NEW next, Going(es, op, q, deep, ms, depth, next)
  PROVE  /\ Walking(es, q) /\ Seen(q) = q.shown
         /\ \/ Head(op.stack)[1] \in ToSet(Seen(op)) /\ q.shown = Seen(op) /\ q.stack = Tail(op.stack)
            \/ /\ deep /\ Head(op.stack)[1] \notin ToSet(Seen(op))
               /\ q.shown = Append(Seen(op), Head(op.stack)[1]) /\ q.stack = Tail(op.stack)
            \/ \E taken : /\ taken.shown = q.shown /\ q.stack = Pushed(ms, depth, taken)
                          /\ OpensOne(Seen(op), op.stack, AllIn(es, op), next, ms, taken)
<1>0. /\ EntriesSound(es) /\ op.recursive /\ Walking(es, op) /\ op.stack # <<>>
      /\ next = IF op.do = "list members" THEN DownIn(es) ELSE UpIn(es)
      /\ ms \in Seq(Member) /\ ToSet(ms) = next[Head(op.stack)[1]] /\ depth \in Nat
      /\ Turns(op, q, deep, ms, depth)
  BY DEF Going
<1>1. PICK seen, stack, all, top : seen = Seen(op) /\ stack = op.stack /\ all = AllIn(es, op) /\ top = Head(stack)[1]
  OBVIOUS
<1>2. Walk(op.roots, seen, stack, all) /\ op.roots \in Seq(Member) /\ stack # <<>>
  BY <1>0, <1>1 DEF Walking
<1>3. q.roots = op.roots /\ q.do = op.do /\ q.recursive = op.recursive /\ q.pops \in Nat /\ q.pops # 0
  BY <1>0 DEF Turns
<1>4. AllIn(es, q) = all /\ Seen(q) = q.shown
  BY <1>1, <1>3 DEF AllIn, Seen
<1>5. Walk(op.roots, q.shown, q.stack, all) => Walking(es, q)
  BY <1>2, <1>3, <1>4 DEF Walking
<1>6. Closing(ToSet(op.roots), next, all)
  BY <1>0, <1>1, <1>2, ClosingAll
<1>7. top \in all
  BY <1>1, <1>2, WalkTops
<1>8. ToSet(ms) \subseteq all
  BY <1>0, <1>1, <1>6, <1>7 DEF Closing, Closed
<1>9. CASE top \in ToSet(seen) /\ q.shown = seen /\ q.stack = Tail(stack)
  <2>1. Walk(op.roots, seen, Tail(stack), all)
    BY <1>1, <1>2, <1>9, WalkDrops
  <2> QED
    BY <1>1, <1>4, <1>5, <1>9, <2>1
<1>10. CASE deep /\ top \notin ToSet(seen) /\ q.shown = Append(seen, top) /\ q.stack = Tail(stack)
  <2>1. Walk(op.roots, Append(seen, top), Tail(stack), all)
    BY <1>1, <1>2, <1>10, WalkTakes
  <2> QED
    BY <1>1, <1>4, <1>5, <1>10, <2>1
<1>11. CASE /\ top \notin ToSet(seen) /\ q.shown = Append(seen, top)
            /\ \E taken : taken.shown = q.shown /\ taken.stack = stack /\ q.stack = Pushed(ms, depth, taken)
  <2>1. PICK taken : taken.shown = q.shown /\ taken.stack = stack /\ q.stack = Pushed(ms, depth, taken)
    BY <1>11
  <2>2. OpensOne(seen, stack, all, next, ms, taken)
    BY <1>0, <1>1, <1>2, <1>8, <1>11, <2>1 DEF OpensOne
  <2>3. Walk(op.roots, taken.shown, Pushed(ms, depth, taken), all)
    BY ONLY <1>0, <1>2, <2>2, WalkOpens
  <2>4. Walk(op.roots, q.shown, q.stack, all)
    BY <2>1, <2>3
  <2> QED
    BY <1>1, <1>4, <1>5, <2>1, <2>2, <2>4
<1> QED
  BY <1>0, <1>1, <1>9, <1>10, <1>11 DEF Turns

LEMMA DownGoesOn ==
  ASSUME NEW es, EntriesSound(es), NEW op, op.recursive, op.do = "list members", Walking(es, op), op.stack # <<>>,
         Downs(Seen(op), op.stack, DownIn(es)), NEW q,
         Turns(op, q, Head(op.stack)[2] >= MaxDepth, MembersIn(es, Head(op.stack)[1]), Head(op.stack)[2] + 1)
  PROVE  Walking(es, q) /\ Downs(Seen(q), q.stack, DownIn(es))
<1>1. PICK seen, stack, all, top, next :
        seen = Seen(op) /\ stack = op.stack /\ all = AllIn(es, op) /\ top = Head(stack) /\ next = DownIn(es)
  OBVIOUS
<1>2. Walk(op.roots, seen, stack, all) /\ stack # <<>>
  BY <1>1 DEF Walking
<1>3. top[1] \in Member /\ top[2] \in Nat
  BY <1>1, <1>2, WalkTops
<1>4. PICK depth \in Nat : depth = top[2] + 1
  <2>1. top[2] \in Nat
    BY <1>3
  <2>2. top[2] + 1 \in Nat
    BY ONLY <2>1
  <2> QED
    BY ONLY <2>2
<1>5. PICK ms, deep : ms = MembersIn(es, top[1]) /\ depth = top[2] + 1 /\ deep = (top[2] >= MaxDepth)
  BY <1>4
<1>6. ms \in Seq(Member) /\ ToSet(ms) = next[top[1]] /\ depth \in Nat
  <2>1. ms \in Seq(Member)
    BY <1>5, EntriesRead
  <2>2. next[top[1]] = ToSet(ms)
    BY <1>1, <1>3, <1>5 DEF DownIn
  <2>3. depth \in Nat
    OBVIOUS
  <2> QED
    BY <2>1, <2>2, <2>3
<1>7. next = IF op.do = "list members" THEN DownIn(es) ELSE UpIn(es)
  BY <1>1
<1>8. Turns(op, q, deep, ms, depth)
  BY <1>1, <1>5
<1>9. /\ Walking(es, q) /\ Seen(q) = q.shown
      /\ \/ Head(op.stack)[1] \in ToSet(Seen(op)) /\ q.shown = Seen(op) /\ q.stack = Tail(op.stack)
         \/ /\ deep /\ Head(op.stack)[1] \notin ToSet(Seen(op))
            /\ q.shown = Append(Seen(op), Head(op.stack)[1]) /\ q.stack = Tail(op.stack)
         \/ \E taken : /\ taken.shown = q.shown /\ q.stack = Pushed(ms, depth, taken)
                       /\ OpensOne(Seen(op), op.stack, AllIn(es, op), next, ms, taken)
  <2>1. Going(es, op, q, deep, ms, depth, next)
    BY <1>1, <1>6, <1>7, <1>8 DEF Going
  <2> QED
    BY ONLY <2>1, WalkGoesOn
<1>10. /\ top[1] \in ToSet(seen) => Downs(seen, Tail(stack), next)
       /\ top[1] \notin ToSet(seen) /\ deep => Downs(Append(seen, top[1]), Tail(stack), next)
       /\ \A w, taken : OpensOne(seen, stack, all, next, w, taken) => Downs(taken.shown, Pushed(w, depth, taken), next)
  BY <1>1, <1>2, <1>5, DownGoes
<1>11. Downs(q.shown, q.stack, next)
  BY ONLY <1>1, <1>9, <1>10
<1> QED
  BY <1>1, <1>9, <1>11

LEMMA UpGoesOn ==
  ASSUME NEW es, EntriesSound(es), NEW op, op.recursive, op.do = "list groups", Walking(es, op), op.stack # <<>>,
         Ups(op.pops, Seen(op), op.stack, op.roots, UpIn(es)), NEW q, q.pops = op.pops + 1,
         Turns(op, q, FALSE, Listed(ParentsIn(es, Head(op.stack)[1])), 0)
  PROVE  Walking(es, q) /\ Ups(q.pops, Seen(q), q.stack, q.roots, UpIn(es))
<1>1. PICK seen, stack, all, top, next, roots :
        /\ seen = Seen(op) /\ stack = op.stack /\ all = AllIn(es, op) /\ top = Head(stack) /\ next = UpIn(es)
        /\ roots = op.roots
  OBVIOUS
<1>2. Walk(roots, seen, stack, all) /\ stack # <<>> /\ roots \in Seq(Member) /\ op.pops \in Nat
  BY <1>1 DEF Walking
<1>3. top[1] \in Member
  BY <1>1, <1>2, WalkTops
<1>4. PICK parents, ms : parents = ParentsIn(es, top[1]) /\ ms = Listed(parents)
  OBVIOUS
<1>5. parents \in SUBSET Member /\ IsFiniteSet(parents) /\ next \in [Member -> SUBSET Member] /\ next[top[1]] = parents
  BY <1>1, <1>3, <1>4, EntriesRead DEF UpIn
<1>6. ms \in Seq(Member) /\ IsInjective(ms) /\ ToSet(ms) = next[top[1]]
  BY <1>4, <1>5, ListedIs
<1>7. next = IF op.do = "list members" THEN DownIn(es) ELSE UpIn(es)
  BY <1>1
<1>8. PICK depth \in Nat : depth = 0
  OBVIOUS
<1>9. Turns(op, q, FALSE, ms, depth)
  BY <1>1, <1>4, <1>8
<1>10. /\ Walking(es, q) /\ Seen(q) = q.shown
       /\ \/ Head(op.stack)[1] \in ToSet(Seen(op)) /\ q.shown = Seen(op) /\ q.stack = Tail(op.stack)
          \/ \E taken : /\ taken.shown = q.shown /\ q.stack = Pushed(ms, depth, taken)
                        /\ OpensOne(Seen(op), op.stack, AllIn(es, op), next, ms, taken)
  <2>1. PICK deep : deep = FALSE
    OBVIOUS
  <2>2. Going(es, op, q, deep, ms, depth, next)
    BY <1>1, <1>6, <1>7, <1>9, <2>1 DEF Going
  <2>3. /\ Walking(es, q) /\ Seen(q) = q.shown
        /\ \/ Head(op.stack)[1] \in ToSet(Seen(op)) /\ q.shown = Seen(op) /\ q.stack = Tail(op.stack)
           \/ /\ deep /\ Head(op.stack)[1] \notin ToSet(Seen(op))
              /\ q.shown = Append(Seen(op), Head(op.stack)[1]) /\ q.stack = Tail(op.stack)
           \/ \E taken : /\ taken.shown = q.shown /\ q.stack = Pushed(ms, depth, taken)
                         /\ OpensOne(Seen(op), op.stack, AllIn(es, op), next, ms, taken)
    BY ONLY <2>2, WalkGoesOn
  <2> QED
    BY ONLY <2>1, <2>3
<1>11. all \subseteq Member
  BY <1>1, <1>2, RootsHeld
<1>12. PICK pops \in Nat : pops = op.pops
  BY <1>2
<1>13. Ups(pops, seen, stack, roots, next)
  BY <1>1, <1>12
<1>14. /\ top[1] \in ToSet(seen) => Ups(pops + 1, seen, Tail(stack), roots, next)
       /\ \A w, taken : OpensOne(seen, stack, all, next, w, taken) /\ IsInjective(w)
                          => Ups(pops + 1, taken.shown, Pushed(w, 0, taken), roots, next)
  BY <1>1, <1>2, <1>5, <1>11, <1>13, UpGoes
<1>15. Ups(pops + 1, q.shown, q.stack, roots, next)
  BY ONLY <1>1, <1>6, <1>8, <1>10, <1>14
<1>16. q.roots = roots
  BY <1>1, <1>9 DEF Turns
<1> QED
  BY <1>1, <1>10, <1>12, <1>15, <1>16

(* A walk that is over.                                                    *)
LEMMA BudgetIs == \A n \in Nat : ~(0 >= MaxDepth * n + MaxDepth)
<1>1. PICK m \in Nat : m = MaxDepth /\ m > 0
  BY GroupConstants
<1>2. ASSUME NEW n \in Nat PROVE ~(0 >= m * n + m)
  <2>1. m * n \in Nat
    OBVIOUS
  <2> QED
    BY <1>1, <2>1
<1> QED
  BY <1>1, <1>2

LEMMA WalkEnds ==
  ASSUME NEW es, EntriesSound(es), NEW op, op.recursive, Walking(es, op),
         \/ op.do = "list members" /\ op.stack = <<>> /\ Downs(Seen(op), op.stack, DownIn(es))
         \/ /\ op.do = "list groups" /\ Ups(op.pops, Seen(op), op.stack, op.roots, UpIn(es))
            /\ op.stack = <<>> \/ op.pops >= MaxDepth * Len(op.roots) + MaxDepth
  PROVE  ShownSound(es, op)
<1>1. PICK roots, seen, stack, all, pops :
        roots = op.roots /\ seen = Seen(op) /\ stack = op.stack /\ all = AllIn(es, op) /\ pops = op.pops
  OBVIOUS
<1>2. Walk(roots, seen, stack, all) /\ roots \in Seq(Member) /\ pops \in Nat
  BY <1>1 DEF Walking
<1>3. ToSet(roots) \subseteq Member
  BY <1>2, MembersAre
<1>4. op.shown = seen
  <2>1. ASSUME pops = 0, pops >= MaxDepth * Len(roots) + MaxDepth PROVE FALSE
    <3>1. Len(roots) \in Nat
      BY ONLY <1>2
    <3>2. 0 >= MaxDepth * Len(roots) + MaxDepth
      BY ONLY <2>1
    <3> QED
      BY ONLY <3>1, <3>2, BudgetIs
  <2> QED
    BY <1>1, <2>1, WalkShown
<1>5. roots \in Seq(Member) /\ IsInjective(seen) /\ ToSet(seen) \subseteq all
  BY <1>2 DEF Walk
<1>6. DownIn(es) \in [Member -> SUBSET Member] /\ UpIn(es) \in [Member -> SUBSET Member]
  BY EntriesRead
<1>7. ASSUME op.do = "list members", Cardinality(all) <= MaxDepth + 1 PROVE all \subseteq ToSet(seen)
  <2>1. stack = <<>> /\ Downs(seen, stack, DownIn(es))
    BY <1>1, <1>7
  <2>2. Closing(ToSet(roots), DownIn(es), all)
    BY <1>1, <1>2, <1>7, ClosingAll
  <2> QED
    BY ONLY <1>2, <1>3, <1>6, <1>7, <2>1, <2>2, DownEnds
<1>8. ASSUME op.do = "list groups", Len(roots) + Cardinality(Edges(all, UpIn(es))) <= MaxDepth * (Len(roots) + 1)
      PROVE  all \subseteq ToSet(seen)
  <2>1. /\ Ups(pops, seen, stack, roots, UpIn(es))
        /\ stack = <<>> \/ pops >= MaxDepth * Len(roots) + MaxDepth
    BY <1>1, <1>8
  <2>2. Closing(ToSet(roots), UpIn(es), all)
    BY <1>1, <1>2, <1>8, ClosingAll
  <2> QED
    BY ONLY <1>2, <1>6, <1>8, <2>1, <2>2, UpEnds
<1> QED
  BY ONLY <1>1, <1>4, <1>5, <1>7, <1>8 DEF ShownSound

LEMMA ShownStays ==
  ASSUME NEW es, NEW op, NEW x, ShownSound(es, op),
         x.do = op.do, x.roots = op.roots, x.recursive = op.recursive, x.shown = op.shown
  PROVE  ShownSound(es, x)
<1>1. AllIn(es, x) = AllIn(es, op)
  BY DEF AllIn
<1> QED
  BY <1>1 DEF ShownSound

(* A step that turns to the next object of a walk.                         *)
Turned(q, op) == DOMAIN q = DOMAIN op /\ \A f \in DOMAIN op \ {"stack", "shown", "pops"} : q[f] = op[f]
LEMMA TurnKeeps ==
  ASSUME GInv, NEW a \in MAdmin, NEW h \in {"down", "up"}, GAt(a, h), NEW q, Turned(q, task[a]), GoesOn(a, q),
         GUndisturbed(a) =>
           /\ h = "down" => Walking(entries, q) /\ Downs(Seen(q), q.stack, DownIn(entries))
           /\ h = "up" => Walking(entries, q) /\ Ups(q.pops, Seen(q), q.stack, q.roots, UpIn(entries))
  PROVE  GInv'
<1>1. PICK op : op = task[a]
  OBVIOUS
<1>2. AtTask(a) /\ Doing(op) /\ Head(op.todo) = h /\ EntriesSound(entries)
  BY <1>1, GAtIs
<1>3. GFields \subseteq DOMAIN op
  BY <1>2 DEF Doing
<1>4. /\ q.newScope = op.newScope /\ q.newSecurity = op.newSecurity
      /\ q.do = op.do /\ q.dn = op.dn /\ q.members = op.members /\ q.text = op.text /\ q.scope = op.scope
      /\ q.security = op.security /\ q.recursive = op.recursive /\ q.result = op.result
      /\ q.want = op.want /\ q.nth = op.nth /\ q.alone = op.alone /\ q.todo = op.todo /\ DOMAIN q = DOMAIN op
  BY <1>1, <1>3 DEF Turned, GFields
<1>5. Doing(q)
  BY <1>2, <1>3, <1>4 DEF Doing
<1>6. task' = [task EXCEPT ![a] = q] /\ entries' = entries /\ groupOps' = groupOps
  BY DEF GoesOn
<1>7. Head(q.todo) = h
  BY <1>2, <1>4
<1>8. GUndisturbed(a) => Learnt(entries, q)
  BY <1>7 DEF Learnt
<1>9. EntriesSound(entries')
  BY <1>2, <1>6
<1> QED
  BY <1>1, <1>2, <1>4, <1>5, <1>6, <1>8, <1>9, GKeeps

LEMMA DownKeeps ==
  ASSUME GInv, NEW a \in MAdmin, Down(a)
  PROVE  GInv'
<1>1. PICK op, top, seen : op = task[a] /\ top = Head(op.stack) /\ seen = Seen(op)
  OBVIOUS
<1>2. PICK first : first = [op EXCEPT !.shown = seen, !.pops = 1]
  OBVIOUS
<1>3. PICK taken : taken = [first EXCEPT !.shown = Append(@, top[1])]
  OBVIOUS
<1>4. PICK ms, depth, deep : ms = MembersOf(top[1]) /\ depth = top[2] + 1 /\ deep = (top[2] >= MaxDepth)
  OBVIOUS
<1>5. /\ GAt(a, "down")
      /\ IF op.stack = <<>> THEN GReads(a, op)
         ELSE IF top[1] \in ToSet(first.shown) THEN GoesOn(a, [first EXCEPT !.stack = Tail(@)])
         ELSE IF deep THEN GoesOn(a, [taken EXCEPT !.stack = Tail(@)])
         ELSE GoesOn(a, [taken EXCEPT !.stack = Pushed(ms, depth, taken)])
  BY <1>1, <1>2, <1>3, <1>4 DEF Down
<1>6. /\ AtTask(a) /\ Doing(op) /\ Head(op.todo) = "down" /\ EntriesSound(entries)
      /\ GUndisturbed(a) => Learnt(entries, op)
      /\ op.do = "list members" /\ op.recursive
  BY <1>1, <1>5, GAtIs DEF Of
<1>7. GFields \subseteq DOMAIN op
  BY <1>6 DEF Doing
<1>8. GUndisturbed(a) => Walking(entries, op) /\ Downs(Seen(op), op.stack, DownIn(entries))
  BY <1>6 DEF Learnt
<1>9. CASE op.stack = <<>>
  <2>1. GGoes(a, op) /\ entries' = entries /\ groupOps' = groupOps
    BY <1>5, <1>9 DEF GReads
  <2>2. ASSUME NEW x, GKept(x, op), Doing(x), Head(x.todo) \in After(Head(op.todo), op.recursive), GUndisturbed(a)
        PROVE  Learnt(entries', x)
    <3>1. x.do = op.do /\ x.roots = op.roots /\ x.recursive = op.recursive /\ x.shown = op.shown
      BY <1>7, <2>2, KeptIs
    <3>2. Head(x.todo) = "show"
      BY <1>6, <2>2 DEF After
    <3>3. ShownSound(entries', op)
      BY <1>6, <1>8, <1>9, <2>1, <2>2, WalkEnds
    <3>4. ShownSound(entries', x)
      BY <3>1, <3>3, ShownStays
    <3> QED
      BY ONLY <3>2, <3>4 DEF Learnt
  <2>3. EntriesSound(entries')
    BY <1>6, <2>1
  <2> QED
    BY <1>1, <1>6, <2>1, <2>2, <2>3, GMoves
<1>10. CASE op.stack # <<>>
  <2>1. /\ DOMAIN first = DOMAIN op /\ first.shown = seen /\ first.pops = 1 /\ first.stack = op.stack
        /\ \A f \in DOMAIN op \ {"shown", "pops"} : first[f] = op[f]
    BY <1>2, <1>7 DEF GFields
  <2>2. /\ DOMAIN taken = DOMAIN op /\ taken.shown = Append(seen, top[1]) /\ taken.pops = 1 /\ taken.stack = op.stack
        /\ \A f \in DOMAIN op \ {"shown", "pops"} : taken[f] = op[f]
    BY <1>3, <1>7, <2>1 DEF GFields
  <2>3. PICK q :
          /\ GoesOn(a, q)
          /\ \/ top[1] \in ToSet(seen) /\ q = [first EXCEPT !.stack = Tail(@)]
             \/ deep /\ top[1] \notin ToSet(seen) /\ q = [taken EXCEPT !.stack = Tail(@)]
             \/ top[1] \notin ToSet(seen) /\ q = [taken EXCEPT !.stack = Pushed(ms, depth, taken)]
    BY <1>5, <1>10, <2>1
  <2>4. /\ Turned(q, op) /\ q.pops = 1
        /\ \/ top[1] \in ToSet(seen) /\ q.shown = seen /\ q.stack = Tail(op.stack)
           \/ deep /\ top[1] \notin ToSet(seen) /\ q.shown = Append(seen, top[1]) /\ q.stack = Tail(op.stack)
           \/ /\ top[1] \notin ToSet(seen) /\ q.shown = Append(seen, top[1])
              /\ q.stack = Pushed(ms, depth, taken)
    <3>1. CASE top[1] \in ToSet(seen) /\ q = [first EXCEPT !.stack = Tail(@)]
      BY <1>7, <2>1, <3>1 DEF Turned, GFields
    <3>2. CASE deep /\ top[1] \notin ToSet(seen) /\ q = [taken EXCEPT !.stack = Tail(@)]
      BY <1>7, <2>2, <3>2 DEF Turned, GFields
    <3>3. CASE top[1] \notin ToSet(seen) /\ q = [taken EXCEPT !.stack = Pushed(ms, depth, taken)]
      BY <1>7, <2>2, <3>3 DEF Turned, GFields
    <3> QED
      BY <2>3, <3>1, <3>2, <3>3
  <2>5. q.roots = op.roots /\ q.do = op.do /\ q.recursive = op.recursive
    BY <1>7, <2>4 DEF Turned, GFields
  <2>6. Turns(op, q, deep, ms, depth)
    <3>1. q.pops \in Nat /\ q.pops # 0
      BY <2>4
    <3>2. taken.stack = op.stack /\ taken.shown = Append(seen, top[1])
      BY <2>2
    <3> QED
      BY ONLY <1>1, <2>4, <2>5, <3>1, <3>2 DEF Turns
  <2>7. ASSUME GUndisturbed(a) PROVE Walking(entries, q) /\ Downs(Seen(q), q.stack, DownIn(entries))
    <3>1. Turns(op, q, Head(op.stack)[2] >= MaxDepth, MembersIn(entries, Head(op.stack)[1]), Head(op.stack)[2] + 1)
      BY <1>1, <1>4, <2>6, ReadsAre
    <3> QED
      BY <1>6, <1>8, <1>10, <2>7, <3>1, DownGoesOn
  <2> QED
    BY <1>1, <1>5, <2>3, <2>4, <2>7, TurnKeeps
<1> QED
  BY <1>9, <1>10

LEMMA UpKeeps ==
  ASSUME GInv, NEW a \in MAdmin, Up(a)
  PROVE  GInv'
<1>1. PICK op, top, seen : op = task[a] /\ top = Head(op.stack) /\ seen = Seen(op)
  OBVIOUS
<1>2. PICK first : first = [op EXCEPT !.shown = seen, !.pops = @ + 1]
  OBVIOUS
<1>3. PICK taken : taken = [first EXCEPT !.shown = Append(@, top[1])]
  OBVIOUS
<1>4. PICK ms, over : /\ ms = Listed(ParentsOf(top[1]))
                      /\ over = (op.stack = <<>> \/ op.pops >= MaxDepth * Len(op.roots) + MaxDepth)
  OBVIOUS
<1>5. /\ GAt(a, "up")
      /\ IF over THEN GReads(a, op)
         ELSE IF top[1] \in ToSet(first.shown) THEN GoesOn(a, [first EXCEPT !.stack = Tail(@)])
         ELSE GoesOn(a, [taken EXCEPT !.stack = Pushed(ms, 0, taken)])
  BY <1>1, <1>2, <1>3, <1>4 DEF Up
<1>6. /\ AtTask(a) /\ Doing(op) /\ Head(op.todo) = "up" /\ EntriesSound(entries)
      /\ GUndisturbed(a) => Learnt(entries, op)
      /\ op.do = "list groups" /\ op.recursive
  BY <1>1, <1>5, GAtIs DEF Of
<1>7. GFields \subseteq DOMAIN op
  BY <1>6 DEF Doing
<1>8. GUndisturbed(a) => Walking(entries, op) /\ Ups(op.pops, Seen(op), op.stack, op.roots, UpIn(entries))
  BY <1>6 DEF Learnt
<1>9. CASE over
  <2>1. GGoes(a, op) /\ entries' = entries /\ groupOps' = groupOps
    BY <1>5, <1>9 DEF GReads
  <2>2. ASSUME NEW x, GKept(x, op), Doing(x), Head(x.todo) \in After(Head(op.todo), op.recursive), GUndisturbed(a)
        PROVE  Learnt(entries', x)
    <3>1. x.do = op.do /\ x.roots = op.roots /\ x.recursive = op.recursive /\ x.shown = op.shown
      BY <1>7, <2>2, KeptIs
    <3>2. Head(x.todo) = "show"
      BY <1>6, <2>2 DEF After
    <3>3. ShownSound(entries', op)
      BY <1>4, <1>6, <1>8, <1>9, <2>1, <2>2, WalkEnds
    <3>4. ShownSound(entries', x)
      BY <3>1, <3>3, ShownStays
    <3> QED
      BY ONLY <3>2, <3>4 DEF Learnt
  <2>3. EntriesSound(entries')
    BY <1>6, <2>1
  <2> QED
    BY <1>1, <1>6, <2>1, <2>2, <2>3, GMoves
<1>10. CASE ~over
  <2>1. /\ DOMAIN first = DOMAIN op /\ first.shown = seen /\ first.pops = op.pops + 1 /\ first.stack = op.stack
        /\ \A f \in DOMAIN op \ {"shown", "pops"} : first[f] = op[f]
    BY <1>2, <1>7 DEF GFields
  <2>2. /\ DOMAIN taken = DOMAIN op /\ taken.shown = Append(seen, top[1]) /\ taken.pops = op.pops + 1
        /\ taken.stack = op.stack
        /\ \A f \in DOMAIN op \ {"shown", "pops"} : taken[f] = op[f]
    BY <1>3, <1>7, <2>1 DEF GFields
  <2>3. PICK q :
          /\ GoesOn(a, q)
          /\ \/ top[1] \in ToSet(seen) /\ q = [first EXCEPT !.stack = Tail(@)]
             \/ top[1] \notin ToSet(seen) /\ q = [taken EXCEPT !.stack = Pushed(ms, 0, taken)]
    BY <1>5, <1>10, <2>1
  <2>4. /\ Turned(q, op) /\ q.pops = op.pops + 1
        /\ \/ top[1] \in ToSet(seen) /\ q.shown = seen /\ q.stack = Tail(op.stack)
           \/ /\ top[1] \notin ToSet(seen) /\ q.shown = Append(seen, top[1])
              /\ q.stack = Pushed(ms, 0, taken)
    <3>1. CASE top[1] \in ToSet(seen) /\ q = [first EXCEPT !.stack = Tail(@)]
      BY <1>7, <2>1, <3>1 DEF Turned, GFields
    <3>2. CASE top[1] \notin ToSet(seen) /\ q = [taken EXCEPT !.stack = Pushed(ms, 0, taken)]
      BY <1>7, <2>2, <3>2 DEF Turned, GFields
    <3> QED
      BY <2>3, <3>1, <3>2
  <2>5. q.roots = op.roots /\ q.do = op.do /\ q.recursive = op.recursive
    BY <1>7, <2>4 DEF Turned, GFields
  <2>6. ASSUME GUndisturbed(a)
        PROVE  Walking(entries, q) /\ Ups(q.pops, Seen(q), q.stack, q.roots, UpIn(entries))
    <3>1. PICK pops \in Nat : pops = op.pops
      BY <1>8, <2>6 DEF Walking
    <3>2. q.pops \in Nat /\ q.pops # 0 /\ q.pops = op.pops + 1
      BY <2>4, <3>1
    <3>3. taken.stack = op.stack /\ taken.shown = Append(seen, top[1])
      BY <2>2
    <3>4. Turns(op, q, FALSE, ms, 0)
      BY ONLY <1>1, <2>4, <2>5, <3>2, <3>3 DEF Turns
    <3>5. Turns(op, q, FALSE, Listed(ParentsIn(entries, Head(op.stack)[1])), 0)
      BY <1>1, <1>4, <3>4, ReadsAre
    <3>6. op.stack # <<>>
      BY <1>4, <1>10
    <3> QED
      BY <1>6, <1>8, <2>6, <3>2, <3>5, <3>6, UpGoesOn
  <2> QED
    BY <1>1, <1>5, <2>3, <2>4, <2>6, TurnKeeps
<1> QED
  BY <1>9, <1>10

---------------------------------------------------------------------------
(* The invariant, and what follows from it.                                *)
LEMMA GInitHolds == GroupsInit => GInv
<1> SUFFICES ASSUME GroupsInit PROVE GInv
  OBVIOUS
<1>1. entries = Formed /\ task = [a \in MAdmin |-> GIdle("ok")] /\ groupOps = 0
  BY DEF GroupsInit
<1>2. EntriesSound(entries)
  BY <1>1, FormedSound DEF EntriesSound
<1>3. groupOps \in 0..MaxGroupOps
  BY <1>1, GroupConstants
<1>4. \A a \in MAdmin : task[a].result = "ok" /\ task[a].todo = <<>>
  BY <1>1 DEF GIdle
<1>5. task = [a \in MAdmin |-> task[a]]
  BY <1>1
<1>6. \A a \in MAdmin : ~AtTask(a)
  BY <1>4 DEF AtTask
<1>7. Tasks
  BY <1>4, <1>5, <1>6 DEF Tasks
<1>8. Alone
  BY <1>6 DEF Alone
<1> QED
  BY <1>2, <1>3, <1>7, <1>8 DEF GInv

LEMMA GStepKeeps == GInv /\ [GroupsNext]_groupVars => GInv'
<1> SUFFICES ASSUME GInv, [GroupsNext]_groupVars PROVE GInv'
  OBVIOUS
<1>1. CASE GroupsNext
  <2>1. PICK a \in MAdmin : GroupStep(a)
    BY <1>1 DEF GroupsNext
  <2>2. CASE GBegin(a)
    BY <2>2, GBeginKeeps
  <2>3. CASE GFree(a) \/ FreeSam(a) \/ AllThere(a) \/ Show(a)
    BY <2>3, FreeKeeps
  <2>4. CASE GAdd(a)
    BY <2>4, AddKeeps
  <2>5. CASE GText(a)
    BY <2>5, TextKeeps
  <2>6. CASE ReadType(a)
    BY <2>6, ReadTypeKeeps
  <2>7. CASE ReadBelow(a)
    BY <2>7, BelowKeeps
  <2>8. CASE ReadAbove(a)
    BY <2>8, AboveKeeps
  <2>9. CASE Retype(a)
    BY <2>9, RetypeKeeps
  <2>10. CASE Known(a)
    BY <2>10, KnownKeeps
  <2>11. CASE AddMembers(a) \/ RemoveMembers(a)
    BY <2>11, MembersKeep
  <2>12. CASE Direct(a)
    BY <2>12, DirectKeeps
  <2>13. CASE Primaries(a)
    BY <2>13, PrimariesKeep
  <2>14. CASE Down(a)
    BY <2>14, DownKeeps
  <2>15. CASE Up(a)
    BY <2>15, UpKeeps
  <2>16. CASE GLost(a)
    BY <2>16, LostKeeps
  <2> QED
    BY <2>1, <2>2, <2>3, <2>4, <2>5, <2>6, <2>7, <2>8, <2>9, <2>10, <2>11, <2>12, <2>13, <2>14, <2>15, <2>16
       DEF GroupStep
<1>2. CASE UNCHANGED groupVars
  <2>1. entries' = entries /\ task' = task /\ groupOps' = groupOps
    BY <1>2 DEF groupVars
  <2> QED
    BY <2>1 DEF GInv, Tasks, Alone, AtTask, GUndisturbed
<1> QED
  BY <1>1, <1>2

(* The inductive invariant: the directory is sound, every operation under  *)
(* way is on a plan of its kind, and an operation nobody crosses is alone  *)
(* and knows what the directory says.                                      *)
THEOREM GInvAlways == GroupsSpec => []GInv
BY GInitHolds, GStepKeeps, PTL DEF GroupsSpec

LEMMA EverythingIs ==
  ASSUME GInv, NEW op, op.roots \in Seq(Member)
  PROVE  /\ Everything(op) = AllIn(entries, op)
         /\ MembershipsMet(op) = Len(op.roots) + Cardinality(Edges(AllIn(entries, op), UpIn(entries)))
<1>1. EntriesSound(entries)
  BY DEF GInv
<1>2. Everything(op) = AllIn(entries, op)
  BY ReadsAre DEF Everything, Reached, AllIn
<1>3. AllIn(entries, op) \subseteq Member
  BY <1>1, RootsHeld
<1>4. PICK all, met, edges :
        /\ all = AllIn(entries, op) /\ met = {p \in all \X GroupsThere : p[2] \in ParentsOf(p[1])}
        /\ edges = Edges(all, UpIn(entries))
  OBVIOUS
<1>5. ASSUME NEW m \in all, NEW g
      PROVE  g \in GroupsThere /\ g \in ParentsOf(m) <=> g \in Member /\ g \in UpIn(entries)[m]
  <2>1. m \in Member
    BY <1>3, <1>4
  <2>2. UpIn(entries)[m] = ParentsOf(m)
    BY <2>1, ReadsAre DEF UpIn
  <2>3. g \in ParentsOf(m) => g \in GroupsThere /\ g \in Member
    BY DEF ParentsOf, GroupsThere, Member
  <2> QED
    BY <2>2, <2>3
<1>6. met = edges
  <2>1. \A p \in all \X GroupsThere : p[2] \in ParentsOf(p[1]) => p \in edges
    BY <1>4, <1>5 DEF Edges
  <2>2. \A p \in edges : p \in all \X GroupsThere /\ p[2] \in ParentsOf(p[1])
    BY <1>4, <1>5 DEF Edges
  <2> QED
    BY <1>4, <2>1, <2>2 DEF Edges
<1> QED
  BY <1>2, <1>4, <1>6 DEF MembershipsMet

LEMMA ShowsSound == GInv => WalkShows
<1> SUFFICES ASSUME GInv, NEW a \in MAdmin, GAt(a, "show"), GUndisturbed(a), NEW op, op = task[a]
             PROVE  /\ IsInjective(op.shown)
                    /\ ToSet(op.shown) \subseteq Everything(op)
                    /\ op.do = "list members" /\ Cardinality(Everything(op)) <= MaxDepth + 1
                         => Everything(op) \subseteq ToSet(op.shown)
                    /\ op.do = "list groups" /\ MembershipsMet(op) <= MaxDepth * (Len(op.roots) + 1)
                         => Everything(op) \subseteq ToSet(op.shown)
  BY DEF WalkShows
<1>1. Learnt(entries, op) /\ Head(op.todo) = "show"
  BY GAtIs
<1>2. ShownSound(entries, op)
  BY <1>1 DEF Learnt
<1>3. op.roots \in Seq(Member)
  BY <1>2 DEF ShownSound
<1>4. /\ Everything(op) = AllIn(entries, op)
      /\ MembershipsMet(op) = Len(op.roots) + Cardinality(Edges(AllIn(entries, op), UpIn(entries)))
  BY <1>3, EverythingIs
<1> QED
  BY ONLY <1>2, <1>4 DEF ShownSound

(* A recursive listing no other session crosses shows each object once,    *)
(* nothing that is not reachable, and everything that is within the guard  *)
(* (_expand_nested, _expand_parents).                                      *)
THEOREM WalkShowsHolds == GroupsSpec => []WalkShows
BY GInvAlways, ShowsSound, PTL

(* Every groupType is one the domain controller takes, and no group has a  *)
(* member twice (create_group, update_group, add_members).                 *)
THEOREM GroupsTyped == GroupsSpec => []GroupsTypeOK
<1>1. GInv => GroupsTypeOK
  BY DEF GInv, Tasks, EntriesSound, GroupsTypeOK
<1> QED
  BY <1>1, GInvAlways, PTL

---------------------------------------------------------------------------
(* What a change of scope that is not refused leaves legal.                *)
LEMMA ScopeRules ==
  ASSUME NEW old \in Scope, NEW new \in Scope, NEW below, NEW above,
         old = new \/ ScopeChangeProblem(old, new, below, above) = "none"
  PROVE  /\ {old, new} # {"global", "domain_local"}
         /\ \A s \in Scope : s \in below /\ MayHold(old, s) => MayHold(new, s)
         /\ new # "domain_local" => \A s \in Scope : s \in above /\ MayHold(s, old) => MayHold(s, new)
         /\ MayHold(new, new)
<1>1. old \in {"global", "domain_local", "universal"} /\ new \in {"global", "domain_local", "universal"}
  BY DEF Scope
<1>2. \A s : s \in Scope <=> s = "global" \/ s = "domain_local" \/ s = "universal"
  BY DEF Scope
<1>3. /\ \A s : MayHold("global", s) <=> s = "global"
      /\ \A s : MayHold("universal", s) <=> s # "domain_local"
      /\ \A s : MayHold("domain_local", s)
  BY DEF MayHold
<1>4. MayHold(new, new)
  BY <1>1, <1>3
<1>5. CASE old = new
  <2>1. {old, new} # {"global", "domain_local"}
    BY <1>5
  <2> QED
    BY <1>4, <1>5, <2>1
<1>6. CASE old # new /\ ScopeChangeProblem(old, new, below, above) = "none"
  <2>1. {old, new} # {"global", "domain_local"}
    BY <1>1, <1>6 DEF ScopeChangeProblem
  <2>2. old # new /\ ~(old = "global" /\ new = "domain_local") /\ ~(old = "domain_local" /\ new = "global")
    BY <1>6, <2>1
  <2>3. new = "universal" /\ old = "global" => "global" \notin above
    BY <1>6 DEF ScopeChangeProblem
  <2>4. new = "universal" /\ old = "domain_local" => "domain_local" \notin below
    BY <1>6 DEF ScopeChangeProblem
  <2>5. new = "global" /\ old = "universal" => "universal" \notin below
    BY <1>6 DEF ScopeChangeProblem
  <2>6. \A s \in Scope : s \in below /\ MayHold(old, s) => MayHold(new, s)
    BY <1>1, <1>2, <1>3, <2>2, <2>4, <2>5
  <2>7. new # "domain_local" => \A s \in Scope : s \in above /\ MayHold(s, old) => MayHold(s, new)
    BY <1>1, <1>2, <1>3, <2>2, <2>3
  <2> QED
    BY <1>4, <2>1, <2>6, <2>7
<1> QED
  BY <1>5, <1>6

(* An operation is changed by a step of its own session.                   *)
LEMMA ActsAlone ==
  ASSUME GInv, GroupsNext, NEW a \in MAdmin, task'[a] # task[a]
  PROVE  GroupStep(a)
<1>1. PICK b \in MAdmin : GroupStep(b)
  BY DEF GroupsNext
<1>2. \E x : task' = [task EXCEPT ![b] = x]
  <2>1. CASE GBegin(b)
    BY <2>1 DEF GBegin
  <2>2. CASE GFree(b) \/ FreeSam(b) \/ AllThere(b) \/ Show(b)
    BY <2>2 DEF GFree, FreeSam, AllThere, Show, GStops, GEnds, GReads, GGoes
  <2>3. CASE GAdd(b) \/ GText(b) \/ Retype(b)
    BY <2>3 DEF GAdd, GText, Retype, GStops, GEnds, GWrites, GGoes
  <2>4. CASE ReadType(b) \/ ReadBelow(b) \/ ReadAbove(b) \/ Known(b)
    BY <2>4 DEF ReadType, ReadBelow, ReadAbove, Known, GStops, GEnds, GReads, GGoes
  <2>5. CASE AddMembers(b) \/ RemoveMembers(b)
    BY <2>5 DEF AddMembers, RemoveMembers, GStops, GEnds, GWrites, GGoes
  <2>6. CASE Direct(b) \/ Primaries(b)
    BY <2>6 DEF Direct, Primaries, GStops, GEnds, GReads, GGoes
  <2>7. CASE Down(b) \/ Up(b)
    BY <2>7 DEF Down, Up, GoesOn, GReads, GGoes
  <2>8. CASE GLost(b)
    BY <2>8 DEF GLost, GStops, GEnds
  <2> QED
    BY <1>1, <2>1, <2>2, <2>3, <2>4, <2>5, <2>6, <2>7, <2>8 DEF GroupStep
<1>3. a # b => task'[a] = task[a]
  BY <1>2 DEF GInv, Tasks
<1> QED
  BY <1>1, <1>3

(* The step of a session at one of the requests that matter here.          *)
LEMMA ActsAs ==
  ASSUME GInv, GroupsNext, NEW a \in MAdmin, task'[a] # task[a], AtTask(a)
  PROVE  /\ GAt(a, "retype") => Retype(a) \/ GLost(a)
         /\ GAt(a, "known") => Known(a) \/ GLost(a)
         /\ GAt(a, "there") => AllThere(a) \/ GLost(a)
         /\ GAt(a, "join") => AddMembers(a) \/ GLost(a)
         /\ GAt(a, "leave") => RemoveMembers(a) \/ GLost(a)
<1>1. GroupStep(a)
  BY ActsAlone
<1>2. ASSUME NEW s \in {"retype", "known", "there", "join", "leave"}, GAt(a, s)
      PROVE  /\ ~GBegin(a) /\ ~GFree(a) /\ ~FreeSam(a) /\ ~GAdd(a) /\ ~GText(a) /\ ~ReadType(a) /\ ~ReadBelow(a)
             /\ ~ReadAbove(a) /\ ~Direct(a) /\ ~Primaries(a) /\ ~Down(a) /\ ~Up(a) /\ ~Show(a)
             /\ s # "retype" => ~Retype(a)
             /\ s # "known" => ~Known(a)
             /\ s # "there" => ~AllThere(a)
             /\ s # "join" => ~AddMembers(a)
             /\ s # "leave" => ~RemoveMembers(a)
  <2>1. Head(task[a].todo) = s
    BY <1>2 DEF GAt
  <2>2. /\ ~GAt(a, "free") /\ ~GAt(a, "sam") /\ ~GAt(a, "gadd") /\ ~GAt(a, "gtext") /\ ~GAt(a, "type")
        /\ ~GAt(a, "below") /\ ~GAt(a, "above") /\ ~GAt(a, "direct") /\ ~GAt(a, "primaries")
        /\ ~GAt(a, "down") /\ ~GAt(a, "up") /\ ~GAt(a, "show")
    BY <2>1 DEF GAt
  <2>3. /\ s # "retype" => ~GAt(a, "retype")
        /\ s # "known" => ~GAt(a, "known")
        /\ s # "there" => ~GAt(a, "there")
        /\ s # "join" => ~GAt(a, "join")
        /\ s # "leave" => ~GAt(a, "leave")
    BY <2>1 DEF GAt
  <2>4. ~GBegin(a)
    BY DEF GBegin
  <2>5. /\ ~GFree(a) /\ ~FreeSam(a) /\ ~GAdd(a) /\ ~GText(a) /\ ~ReadType(a) /\ ~ReadBelow(a)
        /\ ~ReadAbove(a) /\ ~Direct(a) /\ ~Primaries(a) /\ ~Down(a) /\ ~Up(a) /\ ~Show(a)
    BY <2>2 DEF GFree, FreeSam, GAdd, GText, ReadType, ReadBelow, ReadAbove, Direct, Primaries, Down, Up, Show
  <2>6. /\ s # "retype" => ~Retype(a)
        /\ s # "known" => ~Known(a)
        /\ s # "there" => ~AllThere(a)
        /\ s # "join" => ~AddMembers(a)
        /\ s # "leave" => ~RemoveMembers(a)
    BY <2>3 DEF Retype, Known, AllThere, AddMembers, RemoveMembers
  <2> QED
    BY <2>4, <2>5, <2>6
<1>3. ASSUME GAt(a, "retype") PROVE Retype(a) \/ GLost(a)
  BY <1>1, <1>2, <1>3 DEF GroupStep
<1>4. ASSUME GAt(a, "known") PROVE Known(a) \/ GLost(a)
  BY <1>1, <1>2, <1>4 DEF GroupStep
<1>5. ASSUME GAt(a, "there") PROVE AllThere(a) \/ GLost(a)
  BY <1>1, <1>2, <1>5 DEF GroupStep
<1>6. ASSUME GAt(a, "join") PROVE AddMembers(a) \/ GLost(a)
  BY <1>1, <1>2, <1>6 DEF GroupStep
<1>7. ASSUME GAt(a, "leave") PROVE RemoveMembers(a) \/ GLost(a)
  BY <1>1, <1>2, <1>7 DEF GroupStep
<1> QED
  BY <1>3, <1>4, <1>5, <1>6, <1>7

(* What a write leaves in the directory.                                   *)
LEMMA EntryIs ==
  ASSUME NEW a, NEW m, NEW e, GWrites(a, m, e)
  PROVE  /\ DOMAIN entries' = DOMAIN entries \cup {m} /\ entries'[m] = e
         /\ \A x \in DOMAIN entries \ {m} : entries'[x] = entries[x]
<1>1. entries' = Extended([x \in {m} |-> e], entries)
  BY DEF GWrites
<1>2. PICK es, es2 : es = entries /\ es2 = entries'
  OBVIOUS
<1>3. es2 = Extended([x \in {m} |-> e], es)
  BY <1>1, <1>2
<1>4. DOMAIN es2 = DOMAIN es \cup {m} /\ es2[m] = e /\ \A x \in DOMAIN es \ {m} : es2[x] = es[x]
  BY ONLY <1>3 DEF Extended
<1> QED
  BY <1>2, <1>4

LEMMA RescopedStep ==
  ASSUME GInv, GroupsNext, NEW a \in MAdmin, NEW g \in GroupsThere, GAt(a, "retype"), task[a].dn = g,
         task'[a] # task[a], entries'[g] # entries[g], GUndisturbed(a), NEW op, op = task[a]
  PROVE  LET old == GScope(entries, g)
             new == GScope(entries', g)
         IN /\ {old, new} # {"global", "domain_local"}
            /\ IsSystem(entries[g].type) => new = old
            /\ op.security = "as is" => IsSecurity(entries'[g].type) = IsSecurity(entries[g].type)
            /\ \A h \in GroupsThere :
                 /\ h \in ToSet(MembersOf(g)) /\ LegalIn(entries, g, h) => LegalIn(entries', g, h)
                 /\ new # "domain_local" /\ g \in ToSet(MembersOf(h)) /\ LegalIn(entries, h, g)
                      => LegalIn(entries', h, g)
<1>1. PICK old, new : old = GScope(entries, g) /\ new = GScope(entries', g)
  OBVIOUS
<1>2. Doing(op) /\ Learnt(entries, op) /\ Head(op.todo) = "retype" /\ EntriesSound(entries) /\ AtTask(a)
  BY GAtIs
<1>3. /\ TypeKnown(entries, op) /\ op.below = ScopesIn(entries, ToSet(MembersIn(entries, g)))
      /\ op.above = ScopesIn(entries, ParentsIn(entries, g))
  BY <1>2 DEF Learnt
<1>4. Retype(a)
  <2>1. GLost(a) => entries' = entries
    BY DEF GLost, GStops
  <2> QED
    BY <1>2, <2>1, ActsAs
<1>5. PICK V : V = GroupTypeValue(op.newScope, op.newSecurity)
  OBVIOUS
<1>6. ~ScopeChangeRefused(op) /\ GWrites(a, g, [entries[g] EXCEPT !.type = V])
  <2>1. GStops(a, "refused") \/ GStops(a, "failed") => entries' = entries
    BY DEF GStops
  <2> QED
    BY <1>4, <1>5, <2>1 DEF Retype
<1>7. g \in Group /\ g \in DOMAIN entries /\ entries[g] \in GEntry
  BY <1>2 DEF GroupsThere, EntriesSound
<1>8. PICK e, f : e = entries[g] /\ f = [e EXCEPT !.type = V]
  OBVIOUS
<1>9. f.type = V
  BY <1>7, <1>8 DEF GEntry
<1>10. /\ entries'[g] = f /\ \A x \in DOMAIN entries \ {g} : entries'[x] = entries[x]
  BY <1>6, <1>8, EntryIs
<1>11. op.newScope \in Scope /\ op.newSecurity \in BOOLEAN
  BY <1>2 DEF Doing
<1>12. GroupScope(V) = op.newScope /\ (IsSecurity(V) <=> op.newSecurity)
  BY <1>5, <1>11, TypeReads
<1>13. new = op.newScope /\ new \in Scope
  BY <1>1, <1>9, <1>10, <1>11, <1>12 DEF GScope
<1>14. op.type = entries[g].type /\ (op.security = "as is" => op.newSecurity = IsSecurity(op.type))
  BY <1>3 DEF TypeKnown
<1>15. old = GroupScope(op.type) /\ old \in Scope
  <2>1. old = GroupScope(op.type)
    BY <1>1, <1>14 DEF GScope
  <2>2. old # "none"
    BY <1>1, <1>2, <1>7 DEF EntriesSound, GScope
  <2> QED
    BY <2>1, <2>2 DEF GroupScope, Scope
<1>16. old = new \/ (~IsSystem(op.type) /\ ScopeChangeProblem(old, new, op.below, op.above) = "none")
  <2>1. old # "none"
    BY <1>15 DEF Scope
  <2> QED
    BY <1>6, <1>13, <1>15, <2>1 DEF ScopeChangeRefused
<1>17. /\ {old, new} # {"global", "domain_local"}
       /\ \A s \in Scope : s \in op.below /\ MayHold(old, s) => MayHold(new, s)
       /\ new # "domain_local" => \A s \in Scope : s \in op.above /\ MayHold(s, old) => MayHold(s, new)
       /\ MayHold(new, new)
  BY <1>13, <1>15, <1>16, ScopeRules
<1>18. IsSystem(entries[g].type) => new = old
  BY <1>14, <1>16
<1>19. op.security = "as is" => IsSecurity(entries'[g].type) = IsSecurity(entries[g].type)
  <2>1. IsSecurity(V) \in BOOLEAN /\ IsSecurity(op.type) \in BOOLEAN
    BY DEF IsSecurity, Bit
  <2> QED
    BY <1>9, <1>10, <1>12, <1>14, <2>1
<1>20. ASSUME NEW h \in GroupsThere
       PROVE  /\ h \in ToSet(MembersOf(g)) /\ LegalIn(entries, g, h) => LegalIn(entries', g, h)
              /\ new # "domain_local" /\ g \in ToSet(MembersOf(h)) /\ LegalIn(entries, h, g)
                   => LegalIn(entries', h, g)
  <2>1. CASE h = g
    BY <1>1, <1>17, <2>1 DEF LegalIn
  <2>2. CASE h # g
    <3>1. PICK s : s = GScope(entries, h)
      OBVIOUS
    <3>2. h \in Group /\ h \in DOMAIN entries
      BY DEF GroupsThere
    <3>3. s = GScope(entries', h)
      BY <1>10, <2>2, <3>1, <3>2 DEF GScope
    <3>4. s # "none" /\ s = GroupScope(entries[h].type)
      BY <1>2, <3>1, <3>2 DEF EntriesSound, GScope
    <3>5. s \in Scope
      BY <3>4 DEF GroupScope, Scope
    <3>6. h \in ToSet(MembersOf(g)) => s \in op.below
      BY <1>3, <3>2, <3>4, ReadsAre DEF ScopesIn
    <3>7. g \in ToSet(MembersOf(h)) => s \in op.above
      BY <1>3, <3>2, <3>4, ReadsAre DEF ScopesIn, ParentsIn
    <3>8. /\ LegalIn(entries, g, h) <=> MayHold(old, s)
          /\ LegalIn(entries', g, h) <=> MayHold(new, s)
          /\ LegalIn(entries, h, g) <=> MayHold(s, old)
          /\ LegalIn(entries', h, g) <=> MayHold(s, new)
      BY <1>1, <3>1, <3>3 DEF LegalIn
    <3> QED
      BY <1>17, <3>5, <3>6, <3>7, <3>8
  <2> QED
    BY <2>1, <2>2
<1> QED
  BY <1>1, <1>17, <1>18, <1>19, <1>20

LEMMA RescopedHolds == GInv /\ GroupsNext => Rescoped
BY RescopedStep DEF Rescoped

LEMMA JoinedStep ==
  ASSUME GInv, GroupsNext, NEW a \in MAdmin, GAt(a, "join") \/ GAt(a, "leave"), task'[a] # task[a],
         entries' # entries, NEW op, op = task[a]
  PROVE  LET asked == ToSet(op.members)
             old == ToSet(MembersOf(op.dn))
             now == ToSet(entries'[op.dn].members)
         IN IF op.do = "add" THEN old \subseteq now /\ now \subseteq old \cup asked
            ELSE now \subseteq old /\ old \ asked \subseteq now
<1>1. GLost(a) => entries' = entries
  BY DEF GLost, GStops
<1>2. GStops(a, "failed") => entries' = entries
  BY DEF GStops
<1>3. ToSet(op.want) \subseteq ToSet(op.members)
  <2>1. Doing(op)
    BY GAtIs
  <2> QED
    BY <2>1 DEF Doing
<1>4. CASE GAt(a, "join")
  <2>1. AddMembers(a) /\ op.do = "add"
    <3>1. AtTask(a) /\ op.do \in Of("join")
      BY <1>4, GAtIs
    <3> QED
      BY <1>1, <1>4, <3>1, ActsAs DEF Of
  <2>2. PICK f \in GEntry : GWrites(a, op.dn, f) /\ ToSet(f.members) = ToSet(MembersOf(op.dn)) \cup ToSet(op.want)
    BY <1>2, <2>1, JoinIs
  <2>3. entries'[op.dn] = f
    BY <2>2, EntryIs
  <2> QED
    BY <1>3, <2>1, <2>2, <2>3
<1>5. CASE GAt(a, "leave")
  <2>1. RemoveMembers(a) /\ op.do = "remove"
    <3>1. AtTask(a) /\ op.do \in Of("leave")
      BY <1>5, GAtIs
    <3> QED
      BY <1>1, <1>5, <3>1, ActsAs DEF Of
  <2>2. PICK f \in GEntry : GWrites(a, op.dn, f) /\ ToSet(f.members) = ToSet(MembersOf(op.dn)) \ ToSet(op.want)
    BY <1>2, <2>1, LeaveIs
  <2>3. entries'[op.dn] = f
    BY <2>2, EntryIs
  <2> QED
    BY <1>3, <2>1, <2>2, <2>3
<1> QED
  BY <1>4, <1>5

(* What a step that moves on answers, when it is the last.                 *)
LEMMA GoesLast ==
  ASSUME GInv, NEW a \in MAdmin, NEW op, Doing(op), GGoes(a, op)
  PROVE  IF Head(op.todo) \in Lasts THEN task'[a].todo = <<>> => task'[a].result = "ok"
         ELSE task'[a].todo # <<>>
<1>1. Way(op.todo, op.do, op.recursive) /\ GFields \subseteq DOMAIN op
  BY DEF Doing
<1>2. CASE Len(op.todo) > 1
  <2>1. PICK x : x = [op EXCEPT !.todo = Tail(@)]
    OBVIOUS
  <2>2. task'[a] = x
    BY <1>2, <2>1 DEF GGoes, GInv, Tasks
  <2>3. x.todo = Tail(op.todo)
    BY <1>1, <2>1 DEF GFields
  <2>4. Way(Tail(op.todo), op.do, op.recursive)
    BY <1>1, <1>2, WayGoes
  <2>5. Tail(op.todo) # <<>>
    BY <2>4, WayHead
  <2> QED
    BY <2>2, <2>3, <2>5
<1>3. CASE ~(Len(op.todo) > 1)
  <2>1. Head(op.todo) \in Lasts
    BY <1>1, <1>3, WayHead
  <2>2. task'[a] = GIdle("ok")
    BY <1>3 DEF GGoes, GInv, Tasks
  <2>3. GIdle("ok").result = "ok"
    BY DEF GIdle
  <2> QED
    BY <2>1, <2>2, <2>3
<1> QED
  BY <1>2, <1>3

(* An addition or a removal that nobody crosses and no failure ends.       *)
LEMMA CarriedOut ==
  ASSUME GInv, GroupsNext, NEW a \in MAdmin, AtTask(a), NEW op, op = task[a], op.do \in {"add", "remove"},
         task'[a].todo = <<>>, MFailing = {}, GUndisturbed(a),
         ToSet(op.members) \cup {op.dn} \subseteq DOMAIN entries, IsInjective(op.members)
  PROVE  /\ task'[a].result = "ok"
         /\ ToSet(entries'[op.dn].members) =
              IF op.do = "add" THEN ToSet(op.before) \cup ToSet(op.members) ELSE ToSet(op.before) \ ToSet(op.members)
<1>1. task'[a] # task[a] /\ ~GLost(a)
  BY DEF AtTask, GLost
<1>2. Doing(op) /\ Learnt(entries, op) /\ EntriesSound(entries)
  BY DEF GInv, Tasks, Alone
<1>3. op.members \in Seq(Member) /\ Way(op.todo, op.do, op.recursive)
  BY <1>2 DEF Doing
<1>4. PICK s \in {"known", "there", "join", "leave"} : Head(op.todo) = s /\ GAt(a, s)
  <2>1. op.do \in Of(Head(op.todo))
    BY <1>3, WayHead
  <2>2. Head(op.todo) \in {"known", "there", "join", "leave"}
    BY <2>1 DEF Of
  <2> QED
    BY <2>2 DEF GAt
<1>5. PICK current, asked : current = MembersOf(op.dn) /\ asked = ToSet(op.members)
  OBVIOUS
<1>6. op.before = current
  BY <1>2, <1>4, <1>5, ReadsAre DEF Learnt
<1>7. There(op.dn) /\ asked \subseteq DOMAIN entries /\ asked \subseteq Member
  BY <1>3, <1>5, MembersAre DEF There
<1>8. s # "known" => /\ op.want = Needed(op, current)
                     /\ IsInjective(op.want)
                     /\ ToSet(op.want) = asked \cap (IF op.do = "remove" THEN ToSet(current) ELSE Member \ ToSet(current))
  <2>1. s # "known" => op.want = Needed(op, current)
    BY <1>2, <1>4, <1>5, ReadsAre DEF Learnt
  <2> QED
    BY <1>3, <1>5, <2>1, NeededIs
<1>9. GGoes(a, op) => (s \in Lasts => task'[a].result = "ok") /\ s \in Lasts
  BY <1>2, <1>4, GoesLast
<1>10. CASE s = "known"
  <2>1. Known(a)
    BY <1>1, <1>4, <1>10, ActsAs
  <2>2. PICK want : want = Needed(op, current)
    OBVIOUS
  <2>3. PICK q : q = [op EXCEPT !.want = want]
    OBVIOUS
  <2>4. (want = <<>> /\ GStops(a, "ok")) \/ GReads(a, q)
    BY <1>5, <1>7, <2>1, <2>2, <2>3 DEF Known
  <2>5. ~GReads(a, q)
    <3>1. SUFFICES ASSUME GReads(a, q) PROVE FALSE
      OBVIOUS
    <3>2. GFields \subseteq DOMAIN op
      BY <1>2 DEF Doing
    <3>3. want \in Seq(Member) /\ ToSet(want) \subseteq ToSet(op.members)
      BY <1>3, <2>2, NeededIs
    <3>4. /\ DOMAIN q = DOMAIN op /\ q.want = want /\ q.todo = op.todo
          /\ q.newScope = op.newScope /\ q.newSecurity = op.newSecurity
          /\ q.do = op.do /\ q.dn = op.dn /\ q.members = op.members /\ q.text = op.text /\ q.scope = op.scope
          /\ q.security = op.security /\ q.recursive = op.recursive /\ q.result = op.result /\ q.nth = op.nth
      BY <2>3, <3>2 DEF GFields
    <3>5. Doing(q)
      BY <1>2, <3>2, <3>3, <3>4 DEF Doing
    <3>6. GGoes(a, q) /\ Head(q.todo) \notin Lasts
      BY <1>4, <1>10, <3>1, <3>4 DEF GReads, Lasts
    <3> QED
      BY <3>5, <3>6, GoesLast
  <2>6. want = <<>> /\ task'[a] = GIdle("ok") /\ entries' = entries
    BY <2>4, <2>5 DEF GStops, GEnds, GInv, Tasks
  <2>7. GIdle("ok").result = "ok"
    BY DEF GIdle
  <2>8. asked \cap (IF op.do = "remove" THEN ToSet(current) ELSE Member \ ToSet(current)) = {}
    <3>1. ToSet(want) = asked \cap (IF op.do = "remove" THEN ToSet(current) ELSE Member \ ToSet(current))
      BY <1>3, <1>5, <2>2, NeededIs
    <3>2. ToSet(<<>>) = {}
      BY DEF ToSet
    <3> QED
      BY <2>6, <3>1, <3>2
  <2>9. entries'[op.dn].members = current
    BY <1>5, <1>7, <2>6 DEF MembersOf
  <2>10. CASE op.do = "add"
    <3>1. ToSet(current) \cup asked = ToSet(current)
      BY <1>7, <2>8, <2>10
    <3> QED
      BY <1>5, <1>6, <2>6, <2>7, <2>9, <2>10, <3>1
  <2>11. CASE op.do = "remove"
    <3>1. ToSet(current) \ asked = ToSet(current)
      BY <2>8, <2>11
    <3> QED
      BY <1>5, <1>6, <2>6, <2>7, <2>9, <2>11, <3>1
  <2> QED
    BY <2>10, <2>11
<1>11. CASE s = "there"
  <2>1. AllThere(a)
    BY <1>1, <1>4, <1>11, ActsAs
  <2>2. \A m \in ToSet(op.want) : There(m)
    BY <1>7, <1>8, <1>11 DEF There
  <2>3. GGoes(a, op)
    BY <2>1, <2>2 DEF AllThere, GReads
  <2>4. s \notin Lasts
    BY <1>11 DEF Lasts
  <2> QED
    BY <1>9, <2>3, <2>4
<1>12. CASE s = "join"
  <2>1. AddMembers(a) /\ op.do = "add"
    <3>1. op.do \in Of("join")
      BY <1>4, <1>12, GAtIs
    <3> QED
      BY <1>1, <1>4, <1>12, <3>1, ActsAs DEF Of
  <2>2. ToSet(op.want) = asked \cap (Member \ ToSet(current)) /\ IsInjective(op.want)
    BY <1>8, <1>12, <2>1
  <2>3. \A m \in ToSet(op.want) : m \notin ToSet(current) /\ There(m)
    BY <1>7, <2>2 DEF There
  <2>4. PICK f \in GEntry : GWrites(a, op.dn, f) /\ ToSet(f.members) = ToSet(current) \cup ToSet(op.want)
    BY <1>5, <1>7, <2>1, <2>2, <2>3, JoinIs
  <2>5. entries'[op.dn] = f
    BY <2>4, EntryIs
  <2>6. ToSet(current) \cup ToSet(op.want) = ToSet(current) \cup asked
    BY <1>7, <2>2
  <2>7. task'[a].result = "ok"
    <3>1. GGoes(a, op)
      BY <2>4 DEF GWrites
    <3> QED
      BY <1>9, <3>1
  <2> QED
    BY <1>5, <1>6, <2>1, <2>4, <2>5, <2>6, <2>7
<1>13. CASE s = "leave"
  <2>1. RemoveMembers(a) /\ op.do = "remove"
    <3>1. op.do \in Of("leave")
      BY <1>4, <1>13, GAtIs
    <3> QED
      BY <1>1, <1>4, <1>13, <3>1, ActsAs DEF Of
  <2>2. ToSet(op.want) = asked \cap ToSet(current)
    BY <1>8, <1>13, <2>1
  <2>3. PICK f \in GEntry : GWrites(a, op.dn, f) /\ ToSet(f.members) = ToSet(current) \ ToSet(op.want)
    BY <1>5, <1>7, <2>1, <2>2, LeaveIs
  <2>4. entries'[op.dn] = f
    <3>1. GWrites(a, op.dn, f)
      BY <2>3
    <3> QED
      BY ONLY <3>1, EntryIs
  <2>5. ToSet(current) \ ToSet(op.want) = ToSet(current) \ asked
    BY <2>2
  <2>6. task'[a].result = "ok"
    <3>1. GGoes(a, op)
      BY <2>3 DEF GWrites
    <3> QED
      BY <1>9, <3>1
  <2> QED
    BY <1>5, <1>6, <2>1, <2>3, <2>4, <2>5, <2>6
<1> QED
  BY <1>10, <1>11, <1>12, <1>13

LEMMA MembershipKept == GInv /\ GroupsNext => Membership
<1> SUFFICES ASSUME GInv, GroupsNext, NEW a \in MAdmin
             PROVE  LET op == task[a]
                        asked == ToSet(op.members)
                        old == ToSet(MembersOf(op.dn))
                        now == ToSet(entries'[op.dn].members)
                        begun == ToSet(op.before)
                    IN /\ (GAt(a, "join") \/ GAt(a, "leave")) /\ task'[a] # op /\ entries' # entries =>
                            IF op.do = "add" THEN old \subseteq now /\ now \subseteq old \cup asked
                            ELSE now \subseteq old /\ old \ asked \subseteq now
                       /\ AtTask(a) /\ op.do \in {"add", "remove"} /\ task'[a].todo = <<>> /\ MFailing = {}
                            /\ GUndisturbed(a) /\ asked \cup {op.dn} \subseteq DOMAIN entries /\ IsInjective(op.members)
                          => task'[a].result = "ok" /\ now = IF op.do = "add" THEN begun \cup asked ELSE begun \ asked
  BY DEF Membership
<1> QED
  BY JoinedStep, CarriedOut

(* Whatever is done to a group, the memberships that were there and that   *)
(* nobody asked to end are there.  A change of scope that nobody crosses   *)
(* leaves legal ones legal, but for the groups a new domain-local group is *)
(* in, and an addition or a removal that nobody crosses is carried out     *)
(* whole (scope_change_problem, add_members, remove_members).              *)
THEOREM MembershipsHoldHolds == GroupsSpec => MembershipsHold
<1>1. GInv /\ [GroupsNext]_groupVars => [Rescoped /\ Membership]_groupVars
  BY RescopedHolds, MembershipKept
<1> QED
  BY <1>1, GInvAlways, PTL DEF GroupsSpec, MembershipsHold
=============================================================================
