-------------------------- MODULE CollectionsProofs --------------------------
(* Lemmas about sequences that the proofs of several components share: what  *)
(* filtering, flattening, taking out and putting in leave where.             *)
EXTENDS Collections, SequencesExt, Integers, SequenceTheorems, WellFoundedInduction, TLAPS

---------------------------------------------------------------------------
(* Filtering a sequence.  The induction is over a set of numbers, for which *)
(* the least-element principle is enough.                                   *)
LEMMA NatInd ==
  ASSUME NEW T, 0 \in T, \A n \in Nat : n \in T => n + 1 \in T
  PROVE  Nat \subseteq T
<1> DEFINE U == Nat \ T
<1>1. SUFFICES ASSUME U # {} PROVE FALSE
  OBVIOUS
<1>2. \E x \in U : \A y \in U : <<y, x>> \notin OpToRel(<, Nat)
  <2>1. U \subseteq Nat
    OBVIOUS
  <2> HIDE DEF U
  <2> QED
    BY <1>1, <2>1, NatLessThanWellFounded, WFMin
<1>3. PICK x \in U : \A y \in U : ~(y < x)
  BY <1>2 DEF OpToRel
<1>4. x - 1 \in Nat /\ x - 1 < x /\ (x - 1) + 1 = x
  OBVIOUS
<1>5. x - 1 \in T
  BY <1>3, <1>4
<1> QED
  BY <1>4, <1>5

(* A set of naturals has a least element.                                  *)
LEMMA Least ==
  ASSUME NEW S, S \subseteq Nat, S # {}
  PROVE  \E d \in S : \A e \in S : d <= e
<1>1. PICK d \in S : \A e \in S : ~(<<e, d>> \in OpToRel(<, Nat))
  BY NatLessThanWellFounded, WFMin
<1>2. \A e \in S : ~(e < d)
  BY <1>1 DEF OpToRel
<1> QED
  BY <1>2

Next1(s, S, n, before) == IF s[n] \in S THEN Append(before, s[n]) ELSE before

(* g is what the filter has after each of the first k entries.             *)
Grows(g, s, S, k) ==
  /\ g = [n \in 0..k |-> g[n]]
  /\ g[0] = <<>>
  /\ \A n \in 1..k : g[n] = Next1(s, S, n, g[n - 1])

(* A filter's list after each entry: the recursive function is one.        *)
LEMMA GrowsExists ==
  ASSUME NEW s, NEW S, NEW m \in Nat
  PROVE  \E g : Grows(g, s, S, m)
<1> DEFINE T == {k \in Nat : \E g : Grows(g, s, S, k)}
<1>1. 0 \in T
  <2>1. Grows([n \in 0..0 |-> <<>>], s, S, 0)
    BY DEF Grows
  <2> QED
    BY <2>1
<1>2. ASSUME NEW k \in Nat, k \in T PROVE k + 1 \in T
  <2>1. PICK g : Grows(g, s, S, k)
    BY <1>2
  <2>2. PICK last : last = Next1(s, S, k + 1, g[k])
    OBVIOUS
  <2>3. PICK h : h = [n \in 0..(k + 1) |-> IF n = k + 1 THEN last ELSE g[n]]
    OBVIOUS
  <2>4. h[0] = <<>> /\ h[k + 1] = last /\ \A n \in 0..k : h[n] = g[n]
    BY <2>1, <2>3 DEF Grows
  <2>5. h = [n \in 0..(k + 1) |-> h[n]]
    BY <2>3
  <2>6. ASSUME NEW n \in 1..(k + 1) PROVE h[n] = Next1(s, S, n, h[n - 1])
    <3>1. CASE n = k + 1
      BY <2>2, <2>4, <3>1
    <3>2. CASE n # k + 1
      <4>1. n \in 1..k /\ n - 1 \in 0..k /\ n \in 0..k
        BY <3>2
      <4>2. g[n] = Next1(s, S, n, g[n - 1])
        BY <2>1, <4>1 DEF Grows
      <4> QED
        BY <2>4, <4>1, <4>2
    <3> QED
      BY <3>1, <3>2
  <2>7. Grows(h, s, S, k + 1)
    BY <2>4, <2>5, <2>6 DEF Grows
  <2> QED
    BY <2>7
<1>3. Nat \subseteq T
  <2> HIDE DEF T
  <2> QED
    BY <1>1, <1>2, NatInd
<1> QED
  BY <1>3

(* Those is what the filter has after the last entry.                      *)
LEMMA ThoseIs ==
  ASSUME NEW s, NEW S, Len(s) \in Nat
  PROVE  \E g : Grows(g, s, S, Len(s)) /\ Those(s, S) = g[Len(s)]
<1> DEFINE Is(f) == f = [n \in 0..Len(s) |->
                           IF n = 0 THEN <<>> ELSE IF s[n] \in S THEN Append(f[n - 1], s[n]) ELSE f[n - 1]]
<1>1. PICK h : Grows(h, s, S, Len(s))
  BY GrowsExists
<1>2. Is(h)
  <2> DEFINE r == [n \in 0..Len(s) |->
                     IF n = 0 THEN <<>> ELSE IF s[n] \in S THEN Append(h[n - 1], s[n]) ELSE h[n - 1]]
  <2>1. \A n \in 0..Len(s) : r[n] = h[n]
    BY <1>1 DEF Grows, Next1
  <2>2. r = [n \in 0..Len(s) |-> r[n]]
    OBVIOUS
  <2>3. h = [n \in 0..Len(s) |-> h[n]]
    BY <1>1 DEF Grows
  <2> HIDE DEF r
  <2>4. r = h
    BY <2>1, <2>2, <2>3
  <2> QED
    BY <2>4 DEF r
<1>3. PICK g : g = (CHOOSE f : Is(f))
  OBVIOUS
<1>4. Is(g)
  <2> HIDE DEF Is
  <2> QED
    BY <1>2, <1>3
<1>5. Grows(g, s, S, Len(s))
  <2>1. \A n \in 0..Len(s) :
          g[n] = IF n = 0 THEN <<>> ELSE IF s[n] \in S THEN Append(g[n - 1], s[n]) ELSE g[n - 1]
    BY <1>4
  <2>2. g = [n \in 0..Len(s) |-> g[n]]
    BY <1>4
  <2> HIDE DEF Is
  <2> QED
    BY <2>1, <2>2 DEF Grows, Next1
<1>6. Those(s, S) = g[Len(s)]
  BY <1>3 DEF Those
<1> QED
  BY <1>5, <1>6

(* What two sequences begin with alike is filtered alike.                  *)
Alike(s, t, m) == \A i \in 1..m : s[i] = t[i]
(* Two filters that meet the same entries have the same list.              *)
LEMMA GrowsAlike ==
  ASSUME NEW s, NEW t, NEW S, NEW m \in Nat, NEW k \in Nat, NEW l \in Nat, NEW g, NEW h,
         Grows(g, s, S, k), Grows(h, t, S, l), m <= k, m <= l, Alike(s, t, m)
  PROVE  g[m] = h[m]
<1> DEFINE T == {n \in Nat : n <= m => g[n] = h[n]}
<1>1. 0 \in T
  BY DEF Grows
<1>2. ASSUME NEW n \in Nat, n \in T PROVE n + 1 \in T
  <2> SUFFICES ASSUME n + 1 <= m PROVE g[n + 1] = h[n + 1]
    OBVIOUS
  <2>1. g[n] = h[n] /\ n + 1 \in 1..m /\ n + 1 \in 1..k /\ n + 1 \in 1..l /\ (n + 1) - 1 = n
    BY <1>2
  <2>2. g[n + 1] = Next1(s, S, n + 1, g[n]) /\ h[n + 1] = Next1(t, S, n + 1, h[n])
    BY <2>1 DEF Grows
  <2> QED
    BY <2>1, <2>2 DEF Next1, Alike
<1>3. Nat \subseteq T
  <2> HIDE DEF T
  <2> QED
    BY <1>1, <1>2, NatInd
<1> QED
  BY <1>3

(* The filter's result has the entries of s that are in S, in their order. *)
Filtered(r, s, S, n) ==
  /\ \A k \in 1..Len(r) : r[k] \in S /\ \E i \in 1..n : s[i] = r[k]
  /\ \A i \in 1..n : s[i] \in S => \E k \in 1..Len(r) : r[k] = s[i]
  /\ \A j, k \in 1..Len(r) : j < k => \E p, q \in 1..n : p < q /\ s[p] = r[j] /\ s[q] = r[k]

(* What a filter has is a subsequence of the entries met.                  *)
LEMMA GrowsFiltered ==
  ASSUME NEW E, NEW s \in Seq(E), NEW S, NEW g, Grows(g, s, S, Len(s)), NEW m \in 0..Len(s)
  PROVE  g[m] \in Seq(E) /\ Filtered(g[m], s, S, m)
<1> DEFINE T == {n \in Nat : n <= Len(s) => g[n] \in Seq(E) /\ Filtered(g[n], s, S, n)}
<1>0. Len(s) \in Nat
  OBVIOUS
<1>1. 0 \in T
  <2>1. g[0] = <<>>
    BY DEF Grows
  <2>2. g[0] \in Seq(E) /\ Len(g[0]) = 0
    BY <2>1
  <2>3. Filtered(g[0], s, S, 0)
    BY <2>2 DEF Filtered
  <2> QED
    BY <2>2, <2>3
<1>2. ASSUME NEW n \in Nat, n \in T PROVE n + 1 \in T
  <2> SUFFICES ASSUME n + 1 <= Len(s) PROVE g[n + 1] \in Seq(E) /\ Filtered(g[n + 1], s, S, n + 1)
    OBVIOUS
  <2>1. PICK r : r = g[n]
    OBVIOUS
  <2>2. r \in Seq(E) /\ Filtered(r, s, S, n) /\ Len(r) \in Nat
    <3>1. r \in Seq(E) /\ Filtered(r, s, S, n)
      BY <1>0, <1>2, <2>1
    <3> QED
      BY <3>1
  <2>3. n + 1 \in 1..Len(s) /\ (n + 1) - 1 = n
    BY <1>0
  <2>4. g[n + 1] = Next1(s, S, n + 1, r)
    BY <2>1, <2>3 DEF Grows
  <2>5. CASE s[n + 1] \notin S
    <3>1. g[n + 1] = r
      BY <2>4, <2>5 DEF Next1
    <3>2. Filtered(r, s, S, n + 1)
      BY <2>2, <2>5 DEF Filtered
    <3> QED
      BY <2>2, <3>1, <3>2
  <2>6. CASE s[n + 1] \in S
    <3>1. PICK q : q = Append(r, s[n + 1])
      OBVIOUS
    <3>2. g[n + 1] = q /\ s[n + 1] \in E
      BY <2>3, <2>4, <2>6, <3>1 DEF Next1
    <3>3. /\ q \in Seq(E) /\ Len(q) = Len(r) + 1 /\ q[Len(r) + 1] = s[n + 1]
          /\ \A k \in 1..Len(r) : q[k] = r[k]
      BY <2>2, <3>1, <3>2
    <3>4. \A k \in 1..Len(q) : k \in 1..Len(r) \/ k = Len(r) + 1
      BY <2>2, <3>3
    <3>5. ASSUME NEW k \in 1..Len(q) PROVE q[k] \in S /\ \E i \in 1..n + 1 : s[i] = q[k]
      <4>1. CASE k \in 1..Len(r)
        <5>1. r[k] \in S /\ \E i \in 1..n : s[i] = r[k]
          BY <2>2, <4>1 DEF Filtered
        <5>2. PICK i \in 1..n : s[i] = r[k]
          BY <5>1
        <5>3. i \in 1..n + 1
          OBVIOUS
        <5> QED
          BY <3>3, <4>1, <5>1, <5>2, <5>3
      <4>2. CASE k = Len(r) + 1
        BY <2>6, <3>3, <4>2
      <4> QED
        BY <3>4, <4>1, <4>2
    <3>6. ASSUME NEW i \in 1..n + 1, s[i] \in S PROVE \E k \in 1..Len(q) : q[k] = s[i]
      <4>1. CASE i \in 1..n
        <5>1. PICK k \in 1..Len(r) : r[k] = s[i]
          BY <2>2, <3>6, <4>1 DEF Filtered
        <5> QED
          BY <2>2, <3>3, <5>1
      <4>2. CASE i = n + 1
        <5>1. Len(r) + 1 \in 1..Len(q) /\ q[Len(r) + 1] = s[i]
          BY <2>2, <3>3, <4>2
        <5> QED
          BY <5>1
      <4> QED
        BY <4>1, <4>2
    <3>7. ASSUME NEW j \in 1..Len(q), NEW k \in 1..Len(q), j < k
          PROVE  \E x, y \in 1..n + 1 : x < y /\ s[x] = q[j] /\ s[y] = q[k]
      <4>1. j \in 1..Len(r) /\ q[j] = r[j]
        BY <2>2, <3>3, <3>7
      <4>2. CASE k \in 1..Len(r)
        <5>1. PICK x \in 1..n, y \in 1..n : x < y /\ s[x] = r[j] /\ s[y] = r[k]
          BY <2>2, <3>7, <4>1, <4>2 DEF Filtered
        <5> QED
          BY <3>3, <4>1, <4>2, <5>1
      <4>3. CASE k = Len(r) + 1
        <5>1. PICK x \in 1..n : s[x] = r[j]
          BY <2>2, <4>1 DEF Filtered
        <5>2. x \in 1..n + 1 /\ n + 1 \in 1..n + 1 /\ x < n + 1
          OBVIOUS
        <5> QED
          BY <3>3, <4>1, <4>3, <5>1, <5>2
      <4> QED
        BY <3>4, <4>2, <4>3
    <3>8. Filtered(q, s, S, n + 1)
      BY <3>5, <3>6, <3>7 DEF Filtered
    <3> QED
      BY <3>2, <3>3, <3>8
  <2> QED
    BY <2>5, <2>6
<1>3. Nat \subseteq T
  <2> HIDE DEF T
  <2> QED
    BY <1>1, <1>2, NatInd
<1> QED
  BY <1>0, <1>3

(* Those(s, S) is the subsequence of the entries in S.                     *)
LEMMA ThoseFiltered ==
  ASSUME NEW E, NEW s \in Seq(E), NEW S
  PROVE  Those(s, S) \in Seq(E) /\ Filtered(Those(s, S), s, S, Len(s))
<1>0. Len(s) \in Nat
  OBVIOUS
<1>1. PICK g : Grows(g, s, S, Len(s)) /\ Those(s, S) = g[Len(s)]
  BY <1>0, ThoseIs
<1> QED
  BY <1>0, <1>1, GrowsFiltered

\* Appending to the second of two sequences appends to both.
Associates(x, y, e) == Append(x \o y, e) = x \o Append(y, e)
(* Appending to the second of two sequences.                               *)
LEMMA AppendConcat ==
  ASSUME NEW E, NEW x \in Seq(E), NEW y \in Seq(E), NEW e \in E
  PROVE  Associates(x, y, e)
<1> DEFINE l == Append(x \o y, e)
           r == x \o Append(y, e)
<1>1. x \o y \in Seq(E) /\ Append(y, e) \in Seq(E) /\ Len(x) \in Nat /\ Len(y) \in Nat
  OBVIOUS
<1>2. /\ Len(x \o y) = Len(x) + Len(y)
      /\ \A k \in 1..Len(x) + Len(y) : (x \o y)[k] = IF k <= Len(x) THEN x[k] ELSE y[k - Len(x)]
  BY ConcatProperties
<1>3. /\ Len(Append(y, e)) = Len(y) + 1 /\ Append(y, e)[Len(y) + 1] = e
      /\ \A k \in 1..Len(y) : Append(y, e)[k] = y[k]
  BY <1>1
<1>4. /\ l \in Seq(E) /\ Len(l) = Len(x) + Len(y) + 1 /\ l[Len(x) + Len(y) + 1] = e
      /\ \A k \in 1..Len(x) + Len(y) : l[k] = (x \o y)[k]
  BY <1>1, <1>2, AppendProperties
<1>5. /\ r \in Seq(E) /\ Len(r) = Len(x) + (Len(y) + 1)
      /\ \A k \in 1..Len(x) + (Len(y) + 1) : r[k] = IF k <= Len(x) THEN x[k] ELSE Append(y, e)[k - Len(x)]
  BY <1>1, <1>3, ConcatProperties
<1> HIDE DEF l, r
<1>6. ASSUME NEW k \in 1..Len(x) + Len(y) + 1 PROVE l[k] = r[k]
  <2>1. CASE k = Len(x) + Len(y) + 1
    BY <1>1, <1>3, <1>4, <1>5, <2>1
  <2>2. CASE k <= Len(x)
    BY <1>1, <1>2, <1>4, <1>5, <2>2
  <2>3. CASE k > Len(x) /\ k # Len(x) + Len(y) + 1
    <3>1. k - Len(x) \in 1..Len(y) /\ k \in 1..Len(x) + Len(y) /\ ~(k <= Len(x))
      BY <1>1, <2>3
    <3> QED
      BY <1>1, <1>2, <1>3, <1>4, <1>5, <3>1
  <2> QED
    BY <1>1, <2>1, <2>2, <2>3
<1>7. Len(l) = Len(r) /\ l \in Seq(E) /\ r \in Seq(E) /\ \A k \in 1..Len(l) : l[k] = r[k]
  BY <1>1, <1>4, <1>5, <1>6
<1> QED
  BY <1>7, SeqEqual DEF l, r, Associates

\* Filtering two sequences put together filters each.
FiltersEach(s, t, S) == Those(s \o t, S) = Those(s, S) \o Those(t, S)
(* Filtering two sequences put together.                                   *)
LEMMA ThoseConcat ==
  ASSUME NEW E, NEW s \in Seq(E), NEW t \in Seq(E), NEW S
  PROVE  FiltersEach(s, t, S)
<1> DEFINE u == s \o t
<1>0. Len(s) \in Nat /\ Len(t) \in Nat
  OBVIOUS
<1>1. /\ u \in Seq(E) /\ Len(u) = Len(s) + Len(t)
      /\ \A k \in 1..Len(s) + Len(t) : u[k] = IF k <= Len(s) THEN s[k] ELSE t[k - Len(s)]
  BY ConcatProperties
<1> HIDE DEF u
<1>2. PICK g : Grows(g, u, S, Len(u)) /\ Those(u, S) = g[Len(u)]
  <2>1. Len(u) \in Nat
    BY <1>0, <1>1
  <2> QED
    BY ONLY <2>1, ThoseIs
<1>3. PICK h : Grows(h, t, S, Len(t)) /\ Those(t, S) = h[Len(t)]
  BY ONLY <1>0, ThoseIs
<1>4. g[Len(s)] = Those(s, S)
  <2>1. PICK f : Grows(f, s, S, Len(s)) /\ Those(s, S) = f[Len(s)]
    BY <1>0, ThoseIs
  <2>2. \A i \in 1..Len(s) : u[i] = s[i]
    BY <1>0, <1>1
  <2>3. Len(s) <= Len(u) /\ Len(s) <= Len(s) /\ Len(u) \in Nat
    BY <1>0, <1>1
  <2>4. g[Len(s)] = f[Len(s)]
    <3>1. PICK m, k : m = Len(s) /\ k = Len(u) /\ m \in Nat /\ k \in Nat
      BY <1>0, <2>3
    <3>2. /\ Grows(g, u, S, k) /\ Grows(f, s, S, m) /\ m <= k /\ m <= m
          /\ Alike(u, s, m)
      BY <1>2, <2>1, <2>2, <2>3, <3>1 DEF Alike
    <3>3. g[m] = f[m]
      BY <3>1, <3>2, GrowsAlike
    <3> QED
      BY <3>1, <3>3
  <2> QED
    BY <2>1, <2>4
<1>5. PICK first : first = Those(s, S) /\ first \in Seq(E)
  BY ThoseFiltered
<1> DEFINE T == {n \in Nat : n <= Len(t) => g[Len(s) + n] = first \o h[n]}
<1>6. 0 \in T
  <2>1. h[0] = <<>> /\ Len(s) + 0 = Len(s)
    BY <1>0, <1>3 DEF Grows
  <2>2. first \o <<>> = first
    BY <1>5, ConcatEmptySeq
  <2> QED
    BY <1>4, <1>5, <2>1, <2>2
<1>7. ASSUME NEW n \in Nat, n \in T PROVE n + 1 \in T
  <2> SUFFICES ASSUME n + 1 <= Len(t) PROVE g[Len(s) + (n + 1)] = first \o h[n + 1]
    OBVIOUS
  <2>1. /\ g[Len(s) + n] = first \o h[n] /\ n + 1 \in 1..Len(t) /\ (n + 1) - 1 = n
        /\ Len(s) + (n + 1) \in 1..Len(u) /\ (Len(s) + (n + 1)) - 1 = Len(s) + n
        /\ ~(Len(s) + (n + 1) <= Len(s)) /\ (Len(s) + (n + 1)) - Len(s) = n + 1
    BY <1>0, <1>1, <1>7
  <2>2. PICK e \in E : e = t[n + 1]
    BY <2>1
  <2>3. u[Len(s) + (n + 1)] = e
    BY <1>1, <2>1, <2>2
  <2>4. PICK rest : rest = h[n] /\ rest \in Seq(E)
    <3>1. n \in 0..Len(t)
      BY <1>0, <2>1
    <3> QED
      BY <1>3, <3>1, GrowsFiltered
  <2>5. h[n + 1] = IF e \in S THEN Append(rest, e) ELSE rest
    BY <1>3, <2>1, <2>2, <2>4 DEF Grows, Next1
  <2>6. g[Len(s) + (n + 1)] = IF e \in S THEN Append(first \o rest, e) ELSE first \o rest
    <3>1. g[Len(s) + (n + 1)] = Next1(u, S, Len(s) + (n + 1), g[Len(s) + n])
      BY <1>2, <2>1 DEF Grows
    <3> QED
      BY <2>1, <2>3, <2>4, <3>1 DEF Next1
  <2>7. Append(first \o rest, e) = first \o Append(rest, e)
    <3> HIDE DEF T
    <3>1. first \in Seq(E) /\ rest \in Seq(E)
      BY <1>5, <2>4
    <3>2. Associates(first, rest, e)
      BY <3>1, AppendConcat
    <3> QED
      BY <3>2 DEF Associates
  <2> QED
    BY <2>5, <2>6, <2>7
<1>8. Nat \subseteq T
  <2> HIDE DEF T
  <2> QED
    BY <1>6, <1>7, NatInd
<1>9. Len(t) \in T
  <2> HIDE DEF T
  <2> QED
    BY <1>0, <1>8
<1> QED
  BY <1>0, <1>1, <1>2, <1>3, <1>5, <1>9 DEF u, FiltersEach

(* A sequence with none, or with nothing else, than what is asked for.     *)
LEMMA ThoseNone ==
  ASSUME NEW E, NEW s \in Seq(E), NEW S, \A i \in 1..Len(s) : s[i] \notin S
  PROVE  Those(s, S) = <<>>
<1>1. PICK r : r = Those(s, S) /\ r \in Seq(E) /\ Filtered(r, s, S, Len(s))
  BY ThoseFiltered
<1>2. \A k \in 1..Len(r) : FALSE
  BY <1>1 DEF Filtered
<1>3. Len(r) \in Nat
  BY <1>1
<1>4. Len(r) = 0
  BY <1>2, <1>3
<1> QED
  BY <1>1, <1>4, EmptySeq

(* Nothing is taken from a sequence whose entries are all in S.            *)
LEMMA ThoseAll ==
  ASSUME NEW E, NEW s \in Seq(E), NEW S, \A i \in 1..Len(s) : s[i] \in S
  PROVE  Those(s, S) = s
<1>0. Len(s) \in Nat
  OBVIOUS
<1>1. PICK g : Grows(g, s, S, Len(s)) /\ Those(s, S) = g[Len(s)]
  BY <1>0, ThoseIs
<1> DEFINE T == {n \in Nat : n <= Len(s) =>
                    g[n] \in Seq(E) /\ Len(g[n]) = n /\ \A i \in 1..n : g[n][i] = s[i]}
<1>2. 0 \in T
  <2>1. PICK r : r = g[0] /\ r = <<>>
    BY <1>1 DEF Grows
  <2>2. r \in Seq(E) /\ Len(r) = 0 /\ \A i \in 1..0 : r[i] = s[i]
    BY <2>1
  <2> QED
    BY <2>1, <2>2
<1>3. ASSUME NEW n \in Nat, n \in T PROVE n + 1 \in T
  <2> SUFFICES ASSUME n + 1 <= Len(s)
               PROVE  /\ g[n + 1] \in Seq(E) /\ Len(g[n + 1]) = n + 1
                      /\ \A i \in 1..n + 1 : g[n + 1][i] = s[i]
    OBVIOUS
  <2>1. n + 1 \in 1..Len(s) /\ (n + 1) - 1 = n
    BY <1>0
  <2>2. PICK r : r = g[n] /\ r \in Seq(E) /\ Len(r) = n /\ \A i \in 1..n : r[i] = s[i]
    BY <1>0, <1>3
  <2>3. PICK e \in E : e = s[n + 1]
    BY <2>1
  <2>4. g[n + 1] = Append(r, e)
    BY <1>1, <2>1, <2>2, <2>3 DEF Grows, Next1
  <2>5. /\ Append(r, e) \in Seq(E) /\ Len(Append(r, e)) = n + 1 /\ Append(r, e)[n + 1] = e
        /\ \A i \in 1..n : Append(r, e)[i] = r[i]
    BY <2>2, AppendProperties
  <2>6. ASSUME NEW i \in 1..n + 1 PROVE Append(r, e)[i] = s[i]
    <3>1. CASE i \in 1..n
      BY <2>2, <2>5, <3>1
    <3>2. CASE i = n + 1
      BY <2>3, <2>5, <3>2
    <3>3. i \in 1..n \/ i = n + 1
      OBVIOUS
    <3> QED
      BY <3>1, <3>2, <3>3
  <2>7. PICK q : q = Append(r, e)
    OBVIOUS
  <2>8. g[n + 1] = q /\ q \in Seq(E) /\ Len(q) = n + 1 /\ \A i \in 1..n + 1 : q[i] = s[i]
    BY <2>4, <2>5, <2>6, <2>7
  <2> QED
    BY <2>8
<1>4. Nat \subseteq T
  <2> HIDE DEF T
  <2> QED
    BY <1>2, <1>3, NatInd
<1>5. Len(s) \in T
  <2> HIDE DEF T
  <2> QED
    BY <1>0, <1>4
<1>6. PICK r : r = g[Len(s)] /\ r \in Seq(E) /\ Len(r) = Len(s) /\ \A i \in 1..Len(s) : r[i] = s[i]
  BY <1>0, <1>5
<1>7. r = s
  BY <1>6, SeqEqual
<1> QED
  BY <1>1, <1>6, <1>7

(* What taking an element out of a sequence leaves where.                  *)
LEMMA RemoveAtIs ==
  ASSUME NEW S, NEW s \in Seq(S), NEW i \in 1..Len(s)
  PROVE  /\ RemoveAt(s, i) \in Seq(S) /\ Len(RemoveAt(s, i)) = Len(s) - 1
         /\ \A j \in 1..Len(s) - 1 : RemoveAt(s, i)[j] = IF j < i THEN s[j] ELSE s[j + 1]
<1> DEFINE t == SubSeq(s, 1, i - 1)
           u == SubSeq(s, i + 1, Len(s))
<1>1. t \in Seq(S) /\ Len(t) = i - 1 /\ \A j \in 1..i - 1 : t[j] = s[j]
  <2>1. \A j \in 1..i - 1 : s[j] \in S
    OBVIOUS
  <2> QED
    BY <2>1, SubSeqProperties
<1>2. u \in Seq(S) /\ Len(u) = Len(s) - i /\ \A j \in 1..Len(s) - i : u[j] = s[i + j]
  <2>1. \A j \in i + 1..Len(s) : s[j] \in S
    OBVIOUS
  <2>2. \A j \in 1..Len(s) - i : (i + 1) + j - 1 = i + j
    OBVIOUS
  <2> QED
    BY <2>1, <2>2, SubSeqProperties
<1> HIDE DEF t, u
<1>3. Len(t) + Len(u) = Len(s) - 1
  BY <1>1, <1>2
<1>4. /\ t \o u \in Seq(S) /\ Len(t \o u) = Len(s) - 1
      /\ \A j \in 1..Len(s) - 1 : (t \o u)[j] = IF j <= Len(t) THEN t[j] ELSE u[j - Len(t)]
  <2>1. /\ t \o u \in Seq(S) /\ Len(t \o u) = Len(t) + Len(u)
        /\ \A j \in 1..Len(t) + Len(u) :
             (t \o u)[j] = IF j <= Len(t) THEN t[j] ELSE u[j - Len(t)]
    <3>1. t \in Seq(S) /\ u \in Seq(S)
      BY <1>1, <1>2
    <3> QED
      BY <3>1, ConcatProperties, Zenon
  <2> QED
    BY <1>3, <2>1, Zenon
<1>5. ASSUME NEW j \in 1..Len(s) - 1
      PROVE  (t \o u)[j] = IF j < i THEN s[j] ELSE s[j + 1]
  <2>1. CASE j < i
    BY <1>1, <1>4, <2>1
  <2>2. CASE ~(j < i)
    <3>1. j - Len(t) = j - i + 1 /\ j - i + 1 \in 1..Len(s) - i /\ i + (j - i + 1) = j + 1
      BY <1>1, <2>2
    <3>2. (t \o u)[j] = u[j - i + 1]
      BY <1>1, <1>4, <2>2, <3>1
    <3> QED
      BY <1>2, <2>2, <3>1, <3>2
  <2> QED
    BY <2>1, <2>2
<1> QED
  BY <1>4, <1>5 DEF RemoveAt, t, u

(* What putting an element into a sequence leaves where.                   *)
LEMMA InsertAtIs ==
  ASSUME NEW S, NEW s \in Seq(S), NEW e \in S, NEW k \in 1..Len(s) + 1
  PROVE  /\ InsertAt(s, k, e) \in Seq(S) /\ Len(InsertAt(s, k, e)) = Len(s) + 1
         /\ \A j \in 1..Len(s) + 1 :
              InsertAt(s, k, e)[j] = IF j < k THEN s[j] ELSE IF j = k THEN e ELSE s[j - 1]
<1> DEFINE t == SubSeq(s, 1, k - 1)
           u == SubSeq(s, k, Len(s))
           v == t \o <<e>>
<1>1. t \in Seq(S) /\ Len(t) = k - 1 /\ \A j \in 1..k - 1 : t[j] = s[j]
  <2>1. \A j \in 1..k - 1 : s[j] \in S
    OBVIOUS
  <2> QED
    BY <2>1, SubSeqProperties
<1>2. u \in Seq(S) /\ Len(u) = Len(s) - k + 1 /\ \A j \in 1..Len(s) - k + 1 : u[j] = s[k + j - 1]
  <2>1. \A j \in k..Len(s) : s[j] \in S
    OBVIOUS
  <2> QED
    BY <2>1, SubSeqProperties
<1> HIDE DEF t, u
<1>3. v \in Seq(S) /\ Len(v) = k /\ \A j \in 1..k : v[j] = IF j <= k - 1 THEN t[j] ELSE e
  BY <1>1
<1> HIDE DEF v
<1>4. /\ v \o u \in Seq(S) /\ Len(v \o u) = Len(s) + 1
      /\ \A j \in 1..Len(s) + 1 : (v \o u)[j] = IF j <= k THEN v[j] ELSE u[j - k]
  BY <1>2, <1>3, ConcatProperties
<1>5. \A j \in 1..Len(s) + 1 :
        (v \o u)[j] = IF j < k THEN s[j] ELSE IF j = k THEN e ELSE s[j - 1]
  BY <1>1, <1>2, <1>3, <1>4
<1> QED
  BY <1>4, <1>5 DEF InsertAt, t, u, v

=============================================================================
