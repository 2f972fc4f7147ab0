---------------------------- MODULE SignInProofs ----------------------------
(* Theorems about SignIn for any names, hosts and limits and any number of *)
(* sign-ins at once.                                                       *)
EXTENDS SignIn, FiniteSetTheorems, SequenceTheorems, TLAPS

---------------------------------------------------------------------------
(* Least numbers, places, and the operators on sequences.                  *)

(* A set of naturals has a least element.                                  *)
LEMMA LeastNat ==
  ASSUME NEW T \in SUBSET Nat, T # {}
  PROVE  \E x \in T : \A y \in T : x <= y
<1> DEFINE U == {0..x : x \in T}
<1>1. IsWellFoundedOn(StrictSubsetOrdering(Nat), FiniteSubsetsOf(Nat))
  BY FS_StrictSubsetOrderingWellFounded
<1>2. U \subseteq FiniteSubsetsOf(Nat)
  <2>1. \A x \in Nat : IsFiniteSet(0..x) /\ 0..x \in SUBSET Nat
    BY FS_Interval
  <2> QED BY <2>1 DEF FiniteSubsetsOf
<1>3. U # {}
  OBVIOUS
<1>4. \E u \in U : \A v \in U : <<v, u>> \notin StrictSubsetOrdering(Nat)
  <2> HIDE DEF U
  <2> QED BY <1>1, <1>2, <1>3, WFMin
<1>5. PICK x \in T : \A v \in U : <<v, 0..x>> \notin StrictSubsetOrdering(Nat)
  BY <1>4
<1>6. ASSUME NEW y \in T, y < x PROVE FALSE
  <2>1. 0..y \in SUBSET Nat /\ 0..x \in SUBSET Nat /\ 0..y \subseteq 0..x
    BY <1>6
  <2>2. x \in 0..x /\ x \notin 0..y
    BY <1>6
  <2>3. <<0..y, 0..x>> \in StrictSubsetOrdering(Nat)
    BY <2>1, <2>2, Zenon DEF StrictSubsetOrdering
  <2> QED BY <2>3, <1>5
<1> QED BY <1>6

(* The rank of a place among the places of a finite set of numbers.        *)
LEMMA Ranks ==
  ASSUME NEW I \in SUBSET Nat, IsFiniteSet(I)
  PROVE  /\ \A i \in I : Cardinality({j \in I : j <= i}) \in 1..Cardinality(I)
         /\ \A i, h \in I : Cardinality({j \in I : j <= i}) = Cardinality({j \in I : j <= h}) => i = h
<1> DEFINE Up(i) == {j \in I : j <= i}
<1>1. \A i \in I : IsFiniteSet(Up(i)) /\ Cardinality(Up(i)) \in Nat /\ Cardinality(Up(i)) <= Cardinality(I)
  <2> SUFFICES ASSUME NEW i \in I
               PROVE  IsFiniteSet(Up(i)) /\ Cardinality(Up(i)) \in Nat /\ Cardinality(Up(i)) <= Cardinality(I)
    OBVIOUS
  <2>1. Up(i) \in SUBSET I
    OBVIOUS
  <2> HIDE DEF Up
  <2> QED BY <2>1, FS_Subset, FS_CardinalityType
<1>2. \A i \in I : Cardinality(Up(i)) # 0
  <2> SUFFICES ASSUME NEW i \in I, Cardinality(Up(i)) = 0 PROVE FALSE
    OBVIOUS
  <2>1. i \in Up(i)
    OBVIOUS
  <2> HIDE DEF Up
  <2> QED BY <1>1, <2>1, FS_EmptySet
<1>3. ASSUME NEW i \in I, NEW h \in I, i < h PROVE Cardinality(Up(i)) < Cardinality(Up(h))
  <2>1. i \in Nat /\ h \in Nat /\ \A j \in I : j \in Nat
    OBVIOUS
  <2>2. h \in Up(h) /\ h \notin Up(i)
    BY <1>3, <2>1
  <2>3. Up(i) \in SUBSET Up(h)
    <3>1. \A x \in I : x <= i => x <= h
      BY <1>3, <2>1
    <3> QED BY <3>1
  <2> HIDE DEF Up
  <2>4. Cardinality(Up(i)) <= Cardinality(Up(h)) /\ Cardinality(Up(i)) # Cardinality(Up(h))
    BY <1>1, <2>2, <2>3, FS_Subset
  <2> QED BY <1>1, <2>4
<1>4. \A i, h \in I : i < h \/ i = h \/ h < i
  OBVIOUS
<1>5. Cardinality(I) \in Nat
  BY FS_CardinalityType
<1> HIDE DEF Up
<1>6. /\ \A i \in I : Cardinality(Up(i)) \in 1..Cardinality(I)
      /\ \A i, h \in I : Cardinality(Up(i)) = Cardinality(Up(h)) => i = h
  BY <1>1, <1>2, <1>3, <1>4, <1>5
<1> QED BY <1>6 DEF Up

(* Each place is the k-th for one k, and there is a k-th for each k.       *)
LEMMA NthPlace ==
  ASSUME NEW I \in SUBSET Nat, IsFiniteSet(I)
  PROVE  /\ \A k \in 1..Cardinality(I) : Nth(I, k) \in I
         /\ \A k, l \in 1..Cardinality(I) : Nth(I, k) = Nth(I, l) => k = l
         /\ \A i \in I : \E k \in 1..Cardinality(I) : Nth(I, k) = i
<1> DEFINE card(i) == Cardinality({j \in I : j <= i})
           n == Cardinality(I)
           rank == [i \in I |-> card(i)]
<1>1. n \in Nat /\ IsFiniteSet(1..n) /\ Cardinality(1..n) = n
  BY FS_CardinalityType, FS_Interval
<1>2. /\ \A i \in I : card(i) \in 1..n
      /\ \A i, h \in I : card(i) = card(h) => i = h
  BY Ranks
<1>3. \A k : Nth(I, k) = CHOOSE i \in I : card(i) = k
  BY DEF Nth
<1>4. Cardinality(I) = Cardinality(1..n)
  BY <1>1
<1> HIDE DEF card, n
<1>5. rank \in Injection(I, 1..n)
  BY <1>2 DEF Injection, IsInjective
<1>6. rank \in Surjection(I, 1..n)
  <2> HIDE DEF rank
  <2> QED BY <1>1, <1>4, <1>5, FS_Injection
<1>7. \A k \in 1..n : \E i \in I : card(i) = k
  BY <1>6 DEF Surjection
<1>8. \A k \in 1..n : Nth(I, k) \in I /\ card(Nth(I, k)) = k
  BY <1>3, <1>7
<1>9. \A i \in I : Nth(I, card(i)) = i /\ card(i) \in 1..n
  BY <1>2, <1>8
<1> QED BY <1>8, <1>9 DEF n

(* Distinct keeps every entry of a sequence, each once.                    *)
LEMMA DistinctIs ==
  ASSUME NEW S, NEW s \in Seq(S)
  PROVE  Distinct(s) \in Seq(S) /\ IsInjective(Distinct(s)) /\ ToSet(Distinct(s)) = ToSet(s)
<1>1. Firsts(s) \in SUBSET Nat /\ Firsts(s) \subseteq 1..Len(s) /\ DOMAIN s = 1..Len(s) /\ Len(s) \in Nat
  BY DEF Firsts
<1>2. IsFiniteSet(Firsts(s)) /\ Cardinality(Firsts(s)) \in Nat
  <2>1. IsFiniteSet(1..Len(s)) /\ Firsts(s) \in SUBSET (1..Len(s))
    BY <1>1, FS_Interval
  <2> QED BY <2>1, FS_Subset, FS_CardinalityType
<1>3. PICK n \in Nat : n = Cardinality(Firsts(s))
  BY <1>2
<1>4. /\ \A k \in 1..n : Nth(Firsts(s), k) \in Firsts(s)
      /\ \A k, l \in 1..n : Nth(Firsts(s), k) = Nth(Firsts(s), l) => k = l
      /\ \A i \in Firsts(s) : \E k \in 1..n : Nth(Firsts(s), k) = i
  BY <1>1, <1>2, <1>3, NthPlace
<1>5. Distinct(s) = [k \in 1..n |-> s[Nth(Firsts(s), k)]]
  BY <1>3 DEF Distinct, AtPlaces
<1>6. \A k \in 1..n : s[Nth(Firsts(s), k)] \in S
  BY <1>1, <1>4
<1>7. Distinct(s) \in Seq(S)
  BY <1>5, <1>6
<1>8. \A i, j \in Firsts(s) : s[i] = s[j] => i = j
  <2>1. \A i, j \in Firsts(s) : i < j => s[i] # s[j]
    BY <1>1 DEF Firsts
  <2> QED BY <1>1, <2>1
<1>9. IsInjective(Distinct(s))
  BY <1>4, <1>5, <1>8 DEF IsInjective
<1>10. ASSUME NEW i \in 1..Len(s) PROVE s[i] \in ToSet(Distinct(s))
  <2> DEFINE T == {j \in 1..Len(s) : s[j] = s[i]}
  <2>1. T \in SUBSET Nat /\ T # {}
    BY <1>1
  <2>2. PICK f \in T : \A j \in T : f <= j
    BY <2>1, LeastNat
  <2>3. f \in Firsts(s)
    BY <1>1, <2>2 DEF Firsts
  <2>4. PICK k \in 1..n : Nth(Firsts(s), k) = f
    BY <1>4, <2>3
  <2>5. Distinct(s)[k] = s[i]
    BY <1>5, <2>2, <2>4
  <2> QED BY <1>5, <2>5 DEF ToSet
<1>11. ToSet(Distinct(s)) \subseteq ToSet(s)
  BY <1>1, <1>4, <1>5 DEF ToSet
<1> QED BY <1>1, <1>7, <1>9, <1>10, <1>11 DEF ToSet

---------------------------------------------------------------------------
(* The inductive invariant.                                                *)

(* A sign-in in progress has all its fields.                               *)
Steps == {"limit", "resolve", "probe", "throttle", "register", "kinit", "bind"}
Past  == {"register", "kinit", "bind"}
Target == [realm : Realm \cup {Unknown}, hosts : Seq(Host), name : Named \cup {NoName}]
IsSignIn(op) ==
  /\ op = [login |-> op.login, source |-> op.source, right |-> op.right, via |-> op.via,
           realm |-> op.realm, step |-> op.step, target |-> op.target, left |-> op.left,
           heard |-> op.heard, read |-> op.read]
  /\ op.login \in LoginName /\ op.source \in Source \cup {NoSource}
  /\ op.step \in Steps /\ op.target \in Target /\ op.read \in Nat
  /\ op.step \in {"limit", "resolve", "probe"} \/ op.target.hosts = <<>> => op.target.name = NoName
  /\ op.step = "probe" => op.target.hosts # <<>>
AttemptInv ==
  /\ attempt = [a \in Attempt |-> attempt[a]]
  /\ \A a \in Attempt : InStep(a, "ended") \/ IsSignIn(attempt[a])
  /\ now \in 0..MaxNow /\ signIns \in 0..MaxSignIns

(* Every failure of a counter has used a sign-in up.                       *)
Active == {a \in Attempt : ~InStep(a, "ended")}
CountInv ==
  /\ failures = [k \in DOMAIN failures |-> failures[k]]
  /\ Cardinality(Active) <= signIns
  /\ \A k \in DOMAIN failures :
       /\ failures[k] \in [count : Nat \ {0}, last : 0..now]
       /\ failures[k].count + Cardinality(Active) <= signIns

(* A bucket holds the latest of the times its source was let through; what *)
(* it has let go of is out of the window.                                  *)
Old(times, t) == \A i \in 1..Len(times) : t - times[i] >= Window
InOrder(times) == \A i, j \in 1..Len(times) : i <= j => times[i] <= times[j]
Newest(bucket, times, m, t) ==
  /\ m + Len(bucket) = Len(times)
  /\ \A i \in 1..Len(bucket) : bucket[i] = times[m + i]
  /\ \A i \in 1..m : t - times[i] >= Window
Kept(bucket, times, t) ==
  bucket \in Seq(0..t) /\ Len(bucket) <= MaxEvents /\ \E m \in 0..Len(times) : Newest(bucket, times, m, t)
RateInv ==
  /\ let \in [Source \cup {NoSource} -> Seq(0..now)]
  /\ events = [s \in DOMAIN events |-> events[s]] /\ DOMAIN events \subseteq Source \cup {NoSource}
  /\ \A s \in Source \cup {NoSource} :
       /\ InOrder(let[s])
       /\ s \notin DOMAIN events => Old(let[s], now)
       /\ s \in DOMAIN events => Kept(events[s], let[s], now)

(* The wrong passwords an account has seen in a row are counted, and no    *)
(* more sign-ins are past the throttle than it allowed.                    *)
Acc == {AccountOf[g] : g \in LoginName}
Beyond(acc) == {a \in Attempt : attempt[a].step \in Past /\ AccountOf[attempt[a].login] = acc}
Over(acc) == tried[acc] # <<>> /\ now - Last(tried[acc]) > Lockout
Key(acc) == <<"user", acc>>
MostTried == MaxAttempts - 1 + Cardinality(Attempt)
IsCounted(acc) ==
  /\ Len(tried[acc]) + Cardinality(Beyond(acc)) <= MostTried
  /\ tried[acc] # <<>> => /\ Key(acc) \in DOMAIN failures /\ failures[Key(acc)].count >= Len(tried[acc])
                          /\ failures[Key(acc)].last >= Last(tried[acc])
TriedInv ==
  /\ tried \in [Acc -> Seq(0..now)]
  /\ \A acc \in Acc : Len(tried[acc]) <= MostTried /\ (Over(acc) \/ IsCounted(acc))

(* The cache keeps what was read, and for how long.                        *)
CacheInv ==
  /\ cached = [h \in DOMAIN cached |-> cached[h]]
  /\ DOMAIN cached \subseteq Host /\ IsFiniteSet(DOMAIN cached) /\ Cardinality(DOMAIN cached) <= MaxCached
  /\ \A h \in DOMAIN cached :
       /\ cached[h].identity \in [realm : Realm, name : Named]
       /\ cached[h].read \in 0..now /\ cached[h].expires = cached[h].read + ProbeTtl

(* The file is what is in memory, and names each controller once.          *)
RealmsInv ==
  /\ file = realms /\ realms = [r \in DOMAIN realms |-> realms[r]]
  /\ \A r \in DOMAIN realms : realms[r] \in Seq(Host) /\ IsInjective(realms[r])

(* A host and transport that is not left to try may fail.                  *)
LeftInv ==
  \A a \in Attempt : InStep(a, "bind") /\ attempt[a].target.hosts # <<>> =>
    /\ attempt[a].left \in Seq(Host \X ToSet(Transports)) /\ attempt[a].left # <<>>
    /\ \A h \in ToSet(attempt[a].target.hosts) \cup ToSet(NameOf(attempt[a].target)), t \in ToSet(Transports) :
         <<h, t>> \in ToSet(attempt[a].left) \/ Bind[<<h, t>>] # {"ok"}

SignInInv == /\ AttemptInv /\ CountInv /\ RateInv /\ TriedInv
             /\ CacheInv /\ RealmsInv /\ LeftInv /\ KdcsNamed

---------------------------------------------------------------------------
(* The sign-ins keep their fields.                                         *)

(* What Advances does.                                                     *)
LEMMA AdvancesIs ==
  ASSUME AttemptInv, NEW a \in Attempt, NEW op, Advances(a, op)
  PROVE  /\ attempt'[a] = op /\ \A b \in Attempt : b # a => attempt'[b] = attempt[b]
         /\ attempt' = [b \in Attempt |-> attempt'[b]]
  BY DEF AttemptInv, Advances

(* A sign-in that ends, or goes on with all its fields.                    *)
LEMMA AttemptMoves ==
  ASSUME AttemptInv, NEW a \in Attempt, NEW op, Advances(a, op), op.step = "ended" \/ IsSignIn(op),
         now' \in 0..MaxNow, signIns' \in 0..MaxSignIns
  PROVE  AttemptInv'
  BY AdvancesIs DEF AttemptInv, InStep, IsSignIn

(* A sign-in that goes on to another step.                                 *)
LEMMA GoesOn ==
  ASSUME NEW op, IsSignIn(op), NEW step \in Steps,
         step \in {"limit", "resolve", "probe"} => op.target.name = NoName,
         step = "probe" => op.target.hosts # <<>>
  PROVE  IsSignIn(To(op, step)) /\ To(op, step).step = step
  BY DEF IsSignIn, To

(* A sign-in that has learnt who its server is.                            *)
LEMMA Discovered ==
  ASSUME NEW op, IsSignIn(op), op.target.hosts # <<>>,
         NEW identity \in [realm : Realm \cup {Unknown}, name : Named \cup {NoName}], NEW read \in Nat
  PROVE  /\ IsSignIn(WithDiscovery(op, identity, read))
         /\ WithDiscovery(op, identity, read).step = "throttle" /\ WithDiscovery(op, identity, read).read = read
<1>1. PICK w : w = WithDiscovery(op, identity, read)
  OBVIOUS
<1>2. w = [login |-> op.login, source |-> op.source, right |-> op.right, via |-> op.via,
           realm |-> op.realm, step |-> "throttle",
           target |-> [op.target EXCEPT !.realm = identity.realm, !.name = identity.name],
           left |-> op.left, heard |-> op.heard, read |-> read]
  BY <1>1 DEF WithDiscovery, IsSignIn
<1>3. /\ w.target = [op.target EXCEPT !.realm = identity.realm, !.name = identity.name]
      /\ w.login = op.login /\ w.source = op.source /\ w.right = op.right /\ w.via = op.via
      /\ w.realm = op.realm /\ w.step = "throttle" /\ w.left = op.left /\ w.heard = op.heard /\ w.read = read
  BY <1>2
<1>4. w.target \in Target /\ w.target.hosts = op.target.hosts
  BY <1>3 DEF IsSignIn, Target
<1>5. w = [login |-> w.login, source |-> w.source, right |-> w.right, via |-> w.via,
           realm |-> w.realm, step |-> w.step, target |-> w.target, left |-> w.left,
           heard |-> w.heard, read |-> w.read]
  BY <1>2, <1>3
<1> QED BY <1>1, <1>3, <1>4, <1>5 DEF IsSignIn, Steps

(* A sign-in that has its ticket.                                          *)
LEMMA GoesToBind ==
  ASSUME NEW op, IsSignIn(op), NEW left
  PROVE  /\ IsSignIn([op EXCEPT !.step = "bind", !.left = left])
         /\ [op EXCEPT !.step = "bind", !.left = left].step = "bind" /\ [op EXCEPT !.step = "bind", !.left = left].target = op.target
         /\ [op EXCEPT !.step = "bind", !.left = left].left = left /\ [op EXCEPT !.step = "bind", !.left = left].login = op.login
<1>1. PICK w : w = [op EXCEPT !.step = "bind", !.left = left]
  OBVIOUS
<1>2. w = [login |-> op.login, source |-> op.source, right |-> op.right, via |-> op.via,
           realm |-> op.realm, step |-> "bind", target |-> op.target,
           left |-> left, heard |-> op.heard, read |-> op.read]
  BY <1>1 DEF IsSignIn
<1>3. /\ w.login = op.login /\ w.source = op.source /\ w.right = op.right /\ w.via = op.via
      /\ w.realm = op.realm /\ w.step = "bind" /\ w.target = op.target /\ w.left = left
      /\ w.heard = op.heard /\ w.read = op.read
  BY <1>2
<1>4. w = [login |-> w.login, source |-> w.source, right |-> w.right, via |-> w.via,
           realm |-> w.realm, step |-> w.step, target |-> w.target, left |-> w.left,
           heard |-> w.heard, read |-> w.read]
  BY <1>2, <1>3
<1> QED BY <1>1, <1>3, <1>4 DEF IsSignIn, Steps

(* A sign-in that tries the next server.                                   *)
TryNext(op, heard) == [op EXCEPT !.left = Tail(@), !.heard = heard]

(* It keeps all its fields.                                                *)
LEMMA TriesNext ==
  ASSUME NEW op, IsSignIn(op), op.step = "bind", NEW heard
  PROVE  /\ IsSignIn(TryNext(op, heard)) /\ TryNext(op, heard).step = "bind"
         /\ TryNext(op, heard).target = op.target /\ TryNext(op, heard).left = Tail(op.left)
         /\ TryNext(op, heard).login = op.login
<1>1. PICK w : w = TryNext(op, heard)
  OBVIOUS
<1>2. w = [login |-> op.login, source |-> op.source, right |-> op.right, via |-> op.via,
           realm |-> op.realm, step |-> op.step, target |-> op.target,
           left |-> Tail(op.left), heard |-> heard, read |-> op.read]
  BY <1>1 DEF IsSignIn, TryNext
<1>3. /\ w.login = op.login /\ w.source = op.source /\ w.right = op.right /\ w.via = op.via
      /\ w.realm = op.realm /\ w.step = op.step /\ w.target = op.target /\ w.left = Tail(op.left)
      /\ w.heard = heard /\ w.read = op.read
  BY <1>2
<1>4. w = [login |-> w.login, source |-> w.source, right |-> w.right, via |-> w.via,
           realm |-> w.realm, step |-> w.step, target |-> w.target, left |-> w.left,
           heard |-> w.heard, read |-> w.read]
  BY <1>2, <1>3
<1>5. IsSignIn(w)
  BY <1>3, <1>4 DEF IsSignIn, Steps
<1> QED BY <1>1, <1>3, <1>5

(* Every step leaves a sign-in ended or with all its fields.               *)
LEMMA AttemptNext ==
  ASSUME AttemptInv, CacheInv, [SignInNext]_signInVars
  PROVE  AttemptInv'
<1> USE SignInConstants
<1>1. CASE Tick
  BY <1>1 DEF Tick, AttemptInv, InStep
<1>0. ASSUME NEW a \in Attempt, ~InStep(a, "ended")
      PROVE  IsSignIn(attempt[a]) /\ now \in 0..MaxNow /\ signIns \in 0..MaxSignIns
  BY <1>0 DEF AttemptInv
<1>e. \A why : EndSignIn(why).step = "ended"
  BY DEF EndSignIn
<1>2. ASSUME NEW a \in Attempt, BeginSignIn(a) PROVE AttemptInv'
  <2>1. PICK r \in Asking :
       Advances(a, [login |-> r.login, source |-> r.source, right |-> r.right, via |-> r.via, realm |-> r.realm,
                step |-> IF r.via = "typed" THEN "limit" ELSE "resolve",
                target |-> [realm |-> r.realm, hosts |-> r.hosts, name |-> NoName],
                left |-> <<>>, heard |-> {}, read |-> now])
    BY <1>2 DEF BeginSignIn
  <2>2. r \in SignInRequest
    OBVIOUS
  <2>3. now' \in 0..MaxNow /\ signIns' \in 0..MaxSignIns /\ now \in Nat
    BY <1>2 DEF BeginSignIn, AttemptInv
  <2>4. IsSignIn([login |-> r.login, source |-> r.source, right |-> r.right, via |-> r.via, realm |-> r.realm,
                step |-> IF r.via = "typed" THEN "limit" ELSE "resolve",
                target |-> [realm |-> r.realm, hosts |-> r.hosts, name |-> NoName],
                left |-> <<>>, heard |-> {}, read |-> now])
    BY <2>2, <2>3 DEF IsSignIn, SignInRequest, Steps, Target
  <2> QED BY <2>1, <2>3, <2>4, AttemptMoves
<1>3. ASSUME NEW a \in Attempt, Limit(a) PROVE AttemptInv'
  <2>1. InStep(a, "limit") /\ UNCHANGED <<now, signIns>>
    BY <1>3 DEF Limit
  <2>2. \E op : Advances(a, op) /\ (op.step = "ended" \/ op = To(attempt[a], "resolve"))
    BY <1>3, <1>e DEF Limit
  <2>5. IsSignIn(attempt[a]) /\ attempt[a].step = "limit"
    BY <1>0, <2>1 DEF InStep
  <2>6. attempt[a].target.name = NoName
    BY <2>5 DEF IsSignIn
  <2>3. IsSignIn(To(attempt[a], "resolve"))
    BY <2>5, <2>6, GoesOn DEF Steps
  <2> QED BY <1>0, <2>1, <2>2, <2>3, AttemptMoves DEF InStep
<1>4. ASSUME NEW a \in Attempt, FindTarget(a) PROVE AttemptInv'
  <2>1. InStep(a, "resolve") /\ UNCHANGED <<now, signIns>> /\ IsSignIn(attempt[a])
    BY <1>0, <1>4 DEF FindTarget, InStep
  <2>2. \/ \E why : Advances(a, EndSignIn(why))
        \/ Advances(a, To(attempt[a], "throttle"))
        \/ attempt[a].target.hosts # <<>> /\ Advances(a, To(attempt[a], "probe"))
        \/ attempt[a].target.hosts # <<>> /\ \E h \in DOMAIN cached :
             Advances(a, WithDiscovery(attempt[a], cached[h].identity, cached[h].read))
    BY <1>4 DEF FindTarget, Usable
  <2>3. IsSignIn(To(attempt[a], "throttle"))
    BY <2>1, GoesOn DEF Steps, IsSignIn
  <2>4. attempt[a].target.hosts # <<>> => IsSignIn(To(attempt[a], "probe"))
    BY <2>1, GoesOn DEF Steps, IsSignIn, InStep
  <2>5. attempt[a].target.hosts # <<>> =>
          \A h \in DOMAIN cached : IsSignIn(WithDiscovery(attempt[a], cached[h].identity, cached[h].read))
    <3>1. \A h \in DOMAIN cached : /\ cached[h].identity \in [realm : Realm \cup {Unknown}, name : Named \cup {NoName}]
                                   /\ cached[h].read \in Nat
      BY DEF CacheInv
    <3> QED BY <2>1, <3>1, Discovered
  <2> QED BY <1>0, <1>e, <2>1, <2>2, <2>3, <2>4, <2>5, AttemptMoves DEF InStep
<1>5. ASSUME NEW a \in Attempt, Probe(a) PROVE AttemptInv'
  <2>6. InStep(a, "probe") /\ UNCHANGED <<now, signIns>> /\ ~InStep(a, "ended")
    BY <1>5 DEF Probe, InStep
  <2>7. now \in Nat
    BY DEF AttemptInv
  <2>1. InStep(a, "probe") /\ UNCHANGED <<now, signIns>> /\ IsSignIn(attempt[a]) /\ now \in Nat
    BY <1>0, <2>6, <2>7
  <2>2. attempt[a].target.hosts # <<>> /\ Head(attempt[a].target.hosts) \in Host
    BY <2>1 DEF InStep, IsSignIn, Target
  <2>3. \/ \E why : Advances(a, EndSignIn(why))
        \/ Advances(a, To(attempt[a], "throttle"))
        \/ \E answer \in Identity[Head(attempt[a].target.hosts)] :
             answer # Silent /\ Advances(a, WithDiscovery(attempt[a], answer, now))
    BY <1>5 DEF Probe
  <2>4. IsSignIn(To(attempt[a], "throttle"))
    BY <2>1, GoesOn DEF Steps, IsSignIn
  <2>5. \A answer \in Identity[Head(attempt[a].target.hosts)] :
          answer # Silent => IsSignIn(WithDiscovery(attempt[a], answer, now))
    BY <2>1, <2>2, Discovered
  <2> QED BY <1>0, <1>e, <2>1, <2>3, <2>4, <2>5, AttemptMoves DEF InStep
<1>6. ASSUME NEW a \in Attempt, CheckThrottle(a) \/ Register(a) PROVE AttemptInv'
  <2>1. UNCHANGED <<now, signIns>> /\ ~InStep(a, "ended") /\ IsSignIn(attempt[a])
    BY <1>0, <1>6 DEF CheckThrottle, Register, InStep
  <2>2. \/ \E why : Advances(a, EndSignIn(why))
        \/ Advances(a, To(attempt[a], "register")) \/ Advances(a, To(attempt[a], "kinit"))
    BY <1>6 DEF CheckThrottle, Register
  <2>3. IsSignIn(To(attempt[a], "register")) /\ IsSignIn(To(attempt[a], "kinit"))
    BY <2>1, GoesOn DEF Steps
  <2> QED BY <1>0, <1>e, <2>1, <2>2, <2>3, AttemptMoves
<1>7. ASSUME NEW a \in Attempt, Kinit(a) \/ BindTo(a) PROVE AttemptInv'
  <2>1. UNCHANGED <<now, signIns>> /\ ~InStep(a, "ended") /\ IsSignIn(attempt[a])
    BY <1>0, <1>7 DEF Kinit, BindTo, InStep
  <2>2. \/ \E why : Advances(a, EndSignIn(why))
        \/ \E left : Advances(a, [attempt[a] EXCEPT !.step = "bind", !.left = left])
        \/ \E heard : attempt[a].step = "bind" /\ Advances(a, TryNext(attempt[a], heard))
    BY <1>7 DEF Kinit, BindTo, InStep, TryNext
  <2>3. \A left : IsSignIn([attempt[a] EXCEPT !.step = "bind", !.left = left])
    BY <2>1, GoesToBind
  <2>4. \A heard : attempt[a].step = "bind" => IsSignIn(TryNext(attempt[a], heard))
    BY <2>1, TriesNext
  <2> QED BY <1>0, <1>e, <2>1, <2>2, <2>3, <2>4, AttemptMoves
<1>8. CASE UNCHANGED signInVars
  BY <1>8 DEF signInVars, AttemptInv, InStep
<1> QED BY <1>1, <1>2, <1>3, <1>4, <1>5, <1>6, <1>7, <1>8 DEF SignInNext

---------------------------------------------------------------------------
(* The counters of the throttle.                                           *)

(* How the number of sign-ins in progress changes.                         *)
LEMMA ActiveMoves ==
  ASSUME AttemptInv, NEW a \in Attempt, NEW op, Advances(a, op)
  PROVE  /\ Cardinality(Active) \in Nat
         /\ op.step = "ended" /\ ~InStep(a, "ended") =>
              Cardinality(Active') = Cardinality(Active) - 1 /\ Cardinality(Active) > 0
         /\ op.step # "ended" /\ ~InStep(a, "ended") => Cardinality(Active') = Cardinality(Active)
         /\ op.step # "ended" /\ InStep(a, "ended") => Cardinality(Active') = Cardinality(Active) + 1
<1>1. IsFiniteSet(Active) /\ Cardinality(Active) \in Nat
  <2>1. Active \in SUBSET Attempt /\ IsFiniteSet(Attempt)
    BY SignInConstants DEF Active
  <2> QED BY <2>1, FS_Subset, FS_CardinalityType
<1>2. attempt'[a] = op /\ \A b \in Attempt : b # a => attempt'[b] = attempt[b]
  BY AdvancesIs
<1>3. CASE op.step = "ended" /\ ~InStep(a, "ended")
  <2>1. Active' = Active \ {a} /\ a \in Active
    BY <1>2, <1>3 DEF Active, InStep
  <2>2. Cardinality(Active \ {a}) = Cardinality(Active) - 1
    BY <1>1, <2>1, FS_RemoveElement
  <2>3. Cardinality(Active) # 0
    BY <1>1, <2>1, FS_EmptySet
  <2> QED BY <1>1, <1>3, <2>1, <2>2, <2>3
<1>4. CASE op.step # "ended" /\ ~InStep(a, "ended")
  <2>1. Active' = Active
    BY <1>2, <1>4 DEF Active, InStep
  <2> QED BY <1>1, <1>4, <2>1
<1>5. CASE op.step # "ended" /\ InStep(a, "ended")
  <2>1. Active' = Active \cup {a} /\ a \notin Active
    BY <1>2, <1>5 DEF Active, InStep
  <2>2. Cardinality(Active \cup {a}) = Cardinality(Active) + 1
    BY <1>1, <2>1, FS_AddElement
  <2> QED BY <1>1, <1>5, <2>1, <2>2
<1>6. CASE op.step = "ended" /\ InStep(a, "ended")
  BY <1>1, <1>6
<1> QED BY <1>3, <1>4, <1>5, <1>6

(* The shape of the throttle's table.                                      *)
Counters(fs) == fs = [k \in DOMAIN fs |-> fs[k]] /\ \A k \in DOMAIN fs : fs[k] \in [count : Nat \ {0}, last : 0..now]

(* A failure recorded counts for its own keys, and keeps the others that   *)
(* have not lapsed.                                                        *)
LEMMA FailureRecorded ==
  ASSUME Counters(failures), now \in Nat, now' = now, NEW op, RecordFailure(op)
  PROVE  /\ Counters(failures)'
         /\ \A k \in DOMAIN failures' : \/ failures'[k].count = 1
                                        \/ k \in DOMAIN failures /\ failures'[k].count <= failures[k].count + 1
         /\ \A k \in Keys(op) :
              /\ k \in DOMAIN failures' /\ failures'[k].last = now
              /\ k \in DOMAIN failures /\ ~Lapsed(failures[k]) => failures'[k].count = failures[k].count + 1
         /\ \A k \in DOMAIN failures \ Keys(op) :
              ~Lapsed(failures[k]) => k \in DOMAIN failures' /\ failures'[k] = failures[k]
<1>1. PICK fs : fs = Failed(failures, op)
  OBVIOUS
<1>2. /\ fs = [k \in DOMAIN fs |-> fs[k]] /\ DOMAIN fs = DOMAIN failures \cup Keys(op)
      /\ \A k \in Keys(op) :
           fs[k] = [count |-> IF k \notin DOMAIN failures \/ Lapsed(failures[k]) THEN 1 ELSE failures[k].count + 1,
                    last |-> now]
      /\ \A k \in DOMAIN failures \ Keys(op) : fs[k] = failures[k]
  BY <1>1 DEF Failed
<1>3. \A k \in Keys(op) : /\ fs[k] \in [count : Nat \ {0}, last : 0..now] /\ fs[k].last = now
                          /\ k \notin DOMAIN failures \/ Lapsed(failures[k]) => fs[k].count = 1
                          /\ k \in DOMAIN failures /\ ~Lapsed(failures[k]) => fs[k].count = failures[k].count + 1
  BY <1>2 DEF Counters
<1>4. Lockout \in Nat
  BY SignInConstants
<1>5. \A k \in Keys(op) : ~Lapsed(fs[k])
  BY <1>3, <1>4 DEF Lapsed
<1>6. failures' = Prune(fs)
  BY <1>1 DEF RecordFailure
<1>7. /\ failures' = [k \in DOMAIN failures' |-> failures'[k]] /\ DOMAIN failures' \subseteq DOMAIN fs
      /\ \A k \in DOMAIN failures' : failures'[k] = fs[k]
      /\ \A k \in DOMAIN fs : ~Lapsed(fs[k]) => k \in DOMAIN failures'
  <2>1. failures' = fs \/ failures' = [k \in DOMAIN fs \ {l \in DOMAIN fs : Lapsed(fs[l])} |-> fs[k]]
    BY <1>6 DEF Prune, Without
  <2>2. CASE failures' = fs
    BY <1>2, <2>2
  <2>3. CASE failures' = [k \in DOMAIN fs \ {l \in DOMAIN fs : Lapsed(fs[l])} |-> fs[k]]
    BY <2>3
  <2> QED BY <2>1, <2>2, <2>3
<1>8. \A k \in DOMAIN failures : failures[k] \in [count : Nat \ {0}, last : 0..now]
  BY DEF Counters
<1>9. Counters(failures)'
  BY <1>2, <1>3, <1>7, <1>8 DEF Counters
<1>10. \A k \in DOMAIN failures' : \/ failures'[k].count = 1
                                   \/ k \in DOMAIN failures /\ failures'[k].count <= failures[k].count + 1
  BY <1>2, <1>3, <1>7, <1>8
<1>11. \A k \in Keys(op) : k \in DOMAIN failures' /\ failures'[k] = fs[k]
  BY <1>2, <1>5, <1>7
<1>12. \A k \in DOMAIN failures \ Keys(op) :
         ~Lapsed(failures[k]) => k \in DOMAIN failures' /\ failures'[k] = failures[k]
  BY <1>2, <1>7
<1> QED BY <1>3, <1>9, <1>10, <1>11, <1>12

(* What a step may do to the counters: keep some of them, or record a      *)
(* failure as its sign-in ends.                                            *)
LEMMA CountMoves ==
  ASSUME AttemptInv, CountInv, NEW a \in Attempt, NEW op, Advances(a, op), ~InStep(a, "ended"),
         UNCHANGED <<now, signIns>>,
         \/ \E gone : failures' = Without(failures, gone)
         \/ failures' = failures
         \/ op.step = "ended" /\ \E by : RecordFailure(by)
  PROVE  CountInv'
<1>0. now \in Nat /\ signIns \in Nat /\ Counters(failures) /\ Cardinality(Active) \in Nat
  BY ActiveMoves, SignInConstants DEF AttemptInv, CountInv, Counters
<1>1. CASE op.step = "ended" /\ \E by : RecordFailure(by)
  <2>1. PICK by : RecordFailure(by)
    BY <1>1
  <2>2. Cardinality(Active') = Cardinality(Active) - 1 /\ Cardinality(Active) > 0
    BY <1>1, ActiveMoves
  <2>3. /\ Counters(failures)'
        /\ \A k \in DOMAIN failures' : \/ failures'[k].count = 1
                                       \/ k \in DOMAIN failures /\ failures'[k].count <= failures[k].count + 1
    BY <1>0, <2>1, FailureRecorded
  <2>4. \A k \in DOMAIN failures' : failures'[k].count \in Nat
    BY <2>3 DEF Counters
  <2>5. /\ Cardinality(Active) <= signIns
        /\ \A k \in DOMAIN failures : failures[k].count \in Nat /\ failures[k].count + Cardinality(Active) <= signIns
    BY DEF CountInv
  <2>6. \A k \in DOMAIN failures' : failures'[k].count + Cardinality(Active') <= signIns
    BY <1>0, <2>2, <2>3, <2>4, <2>5
  <2> QED BY <1>0, <2>2, <2>3, <2>5, <2>6 DEF CountInv, Counters
<1>2. CASE failures' = failures \/ \E gone : failures' = Without(failures, gone)
  <2>1. /\ failures' = [k \in DOMAIN failures' |-> failures'[k]] /\ DOMAIN failures' \subseteq DOMAIN failures
        /\ \A k \in DOMAIN failures' : failures'[k] = failures[k]
    BY <1>0, <1>2 DEF Without, Counters
  <2>2. Cardinality(Active') \in Nat /\ Cardinality(Active') <= Cardinality(Active)
    BY <1>0, ActiveMoves
  <2> QED BY <1>0, <2>1, <2>2 DEF CountInv
<1> QED BY <1>1, <1>2

(* The effects of the KDC's verdict, case by case.                         *)
LEMMA KinitIs ==
  ASSUME NEW a \in Attempt, Kinit(a)
  PROVE  /\ InStep(a, "kinit") /\ UNCHANGED <<now, events, cached, realms, file, signIns, let>>
         /\ \/ /\ Candidates(attempt[a].target) # <<>>
               /\ Advances(a, [attempt[a] EXCEPT !.step = "bind", !.left = Candidates(attempt[a].target)])
               /\ UNCHANGED <<failures, tried>>
            \/ /\ \E why \in {"no candidates", "wrong", "no kdc"} : Advances(a, EndSignIn(why))
               /\ RecordFailure(attempt[a])
               /\ UNCHANGED tried \/ Tries(AccountOf[attempt[a].login])
<1>1. PICK verdict \in {IF attempt[a].right THEN "ticket" ELSE "wrong", "no kdc"} :
        IF verdict = "ticket"
        THEN /\ Advances(a, IF Candidates(attempt[a].target) = <<>> THEN EndSignIn("no candidates")
                        ELSE [attempt[a] EXCEPT !.step = "bind", !.left = Candidates(attempt[a].target)])
             /\ IF Candidates(attempt[a].target) = <<>> THEN RecordFailure(attempt[a]) ELSE UNCHANGED failures
             /\ UNCHANGED tried
        ELSE /\ Advances(a, EndSignIn(verdict))
             /\ RecordFailure(attempt[a])
             /\ IF verdict = "wrong" THEN Tries(AccountOf[attempt[a].login]) ELSE UNCHANGED tried
  BY Zenon DEF Kinit
<1>2. verdict \in {"ticket", "wrong", "no kdc"}
  BY <1>1
<1>3. InStep(a, "kinit") /\ UNCHANGED <<now, events, cached, realms, file, signIns, let>>
  BY DEF Kinit
<1>4. CASE verdict = "ticket" /\ Candidates(attempt[a].target) = <<>>
  BY <1>1, <1>3, <1>4
<1>5. CASE verdict = "ticket" /\ Candidates(attempt[a].target) # <<>>
  BY <1>1, <1>3, <1>5
<1>6. CASE verdict # "ticket"
  BY <1>1, <1>2, <1>3, <1>6
<1> QED BY <1>4, <1>5, <1>6

(* The effects of a bind's verdict, case by case.                          *)
LEMMA BindIs ==
  ASSUME NEW a \in Attempt, BindTo(a)
  PROVE  /\ InStep(a, "bind") /\ UNCHANGED <<now, events, cached, realms, file, signIns, let>>
         /\ \E verdict \in Bind[Head(attempt[a].left)] :
              \/ /\ failures' = Without(failures, Keys(attempt[a]))
                 /\ tried' = [tried EXCEPT ![AccountOf[attempt[a].login]] = <<>>]
                 /\ Advances(a, EndSignIn("signed in"))
              \/ /\ verdict # "ok" /\ RecordFailure(attempt[a]) /\ UNCHANGED tried
                 /\ \/ verdict = "refused" /\ Advances(a, EndSignIn("refused"))
                    \/ Len(attempt[a].left) = 1 /\ \E why : Advances(a, EndSignIn(why))
              \/ /\ verdict # "ok" /\ Len(attempt[a].left) # 1 /\ UNCHANGED <<failures, tried>>
                 /\ \E heard : Advances(a, TryNext(attempt[a], heard))
<1>1. PICK verdict \in Bind[Head(attempt[a].left)] :
        LET heard == attempt[a].heard \cup {verdict} IN
        CASE verdict = "ok" ->
               /\ failures' = Without(failures, Keys(attempt[a]))
               /\ tried' = [tried EXCEPT ![AccountOf[attempt[a].login]] = <<>>]
               /\ Advances(a, EndSignIn("signed in"))
          [] verdict # "ok" /\ EndsBind(attempt[a], verdict) ->
               /\ RecordFailure(attempt[a])
               /\ Advances(a, EndSignIn(IF verdict = "refused" THEN verdict ELSE Reason(attempt[a], heard)))
               /\ UNCHANGED tried
          [] OTHER ->
               /\ Advances(a, TryNext(attempt[a], heard))
               /\ UNCHANGED <<failures, tried>>
  BY Zenon DEF BindTo, TryNext
<1>2. InStep(a, "bind") /\ UNCHANGED <<now, events, cached, realms, file, signIns, let>>
  BY DEF BindTo
<1>3. CASE verdict = "ok"
  BY <1>1, <1>2, <1>3
<1>4. CASE verdict # "ok" /\ EndsBind(attempt[a], verdict)
  <2>1. verdict = "refused" \/ Len(attempt[a].left) = 1
    BY <1>4 DEF EndsBind
  <2> QED BY <1>1, <1>2, <1>4, <2>1
<1>5. CASE verdict # "ok" /\ ~EndsBind(attempt[a], verdict)
  <2>1. Len(attempt[a].left) # 1
    BY <1>5 DEF EndsBind
  <2> QED BY <1>1, <1>2, <1>5, <2>1
<1> QED BY <1>3, <1>4, <1>5

(* Every step keeps the counters within the sign-ins used up.              *)
LEMMA CountNext ==
  ASSUME AttemptInv, CountInv, [SignInNext]_signInVars
  PROVE  CountInv'
<1>0. now \in Nat /\ signIns \in Nat
  BY SignInConstants DEF AttemptInv
<1>1. CASE Tick
  <2>1. now' = now + 1 /\ UNCHANGED <<attempt, failures, signIns>>
    BY <1>1 DEF Tick
  <2>2. Active' = Active
    BY <2>1 DEF Active, InStep
  <2>3. 0..now \subseteq 0..now'
    BY <1>0, <2>1
  <2> QED BY <2>1, <2>2, <2>3 DEF CountInv
<1>2. ASSUME NEW a \in Attempt, BeginSignIn(a) PROVE CountInv'
  <2>1. \E op : Advances(a, op) /\ op.step \in {"limit", "resolve"}
    BY <1>2 DEF BeginSignIn
  <2>2. PICK op : Advances(a, op) /\ op.step # "ended"
    BY <2>1
  <2>3. InStep(a, "ended") /\ signIns' = signIns + 1 /\ UNCHANGED <<now, failures>>
    BY <1>2 DEF BeginSignIn
  <2>4. Cardinality(Active') = Cardinality(Active) + 1 /\ Cardinality(Active) \in Nat
    BY <2>2, <2>3, ActiveMoves
  <2> QED BY <1>0, <2>3, <2>4 DEF CountInv
<1>3. ASSUME NEW a \in Attempt, Limit(a) \/ FindTarget(a) \/ Probe(a) \/ Register(a) PROVE CountInv'
  <2>1. UNCHANGED <<now, signIns, failures>> /\ ~InStep(a, "ended")
    BY <1>3 DEF Limit, FindTarget, Probe, Register, InStep
  <2>2. \E op : Advances(a, op)
    BY <1>3 DEF Limit, FindTarget, Probe, Register
  <2> QED BY <2>1, <2>2, CountMoves
<1>4. ASSUME NEW a \in Attempt, CheckThrottle(a) PROVE CountInv'
  <2>1. UNCHANGED <<now, signIns>> /\ ~InStep(a, "ended")
    BY <1>4 DEF CheckThrottle, InStep
  <2>2. \E op : Advances(a, op)
    BY <1>4 DEF CheckThrottle
  <2>3. \E gone : failures' = Without(failures, gone)
    BY <1>4 DEF CheckThrottle
  <2> QED BY <2>1, <2>2, <2>3, CountMoves
<1>5. ASSUME NEW a \in Attempt, Kinit(a) PROVE CountInv'
  <2>1. UNCHANGED <<now, signIns>> /\ ~InStep(a, "ended")
    BY <1>5 DEF Kinit, InStep
  <2>2. \E op : /\ Advances(a, op)
                /\ failures' = failures \/ (op.step = "ended" /\ \E by : RecordFailure(by))
    <3>1. \A why : EndSignIn(why).step = "ended"
      BY DEF EndSignIn
    <3> QED BY <1>5, <3>1, KinitIs
  <2> QED BY <2>1, <2>2, CountMoves
<1>6. ASSUME NEW a \in Attempt, BindTo(a) PROVE CountInv'
  <2>1. UNCHANGED <<now, signIns>> /\ ~InStep(a, "ended")
    BY <1>6 DEF BindTo, InStep
  <2>2. \E op : /\ Advances(a, op)
                /\ \/ failures' = failures \/ \E gone : failures' = Without(failures, gone)
                   \/ (op.step = "ended" /\ \E by : RecordFailure(by))
    <3>1. \A why : EndSignIn(why).step = "ended"
      BY DEF EndSignIn
    <3> QED BY <1>6, <3>1, BindIs
  <2> QED BY <2>1, <2>2, CountMoves
<1>7. CASE UNCHANGED signInVars
  <2>1. UNCHANGED <<attempt, now, failures, signIns>>
    BY <1>7 DEF signInVars
  <2>2. Active' = Active
    BY <2>1 DEF Active, InStep
  <2> QED BY <2>1, <2>2 DEF CountInv
<1> QED BY <1>1, <1>2, <1>3, <1>4, <1>5, <1>6, <1>7 DEF SignInNext

---------------------------------------------------------------------------
(* The probe cache.                                                        *)

(* What makes room: one entry, when there is none.                         *)
LEMMA EvictedIs ==
  ASSUME CacheInv
  PROVE  \/ Cardinality(DOMAIN cached) < MaxCached /\ Evicted(cached) = {}
         \/ \E h \in DOMAIN cached : Evicted(cached) = {h}
<1>0. MaxCached \in Nat \ {0} /\ Cardinality(DOMAIN cached) \in Nat
  BY SignInConstants, FS_CardinalityType DEF CacheInv
<1>1. CASE Cardinality(DOMAIN cached) < MaxCached
  BY <1>1 DEF Evicted
<1>2. CASE ~(Cardinality(DOMAIN cached) < MaxCached)
  <2>1. DOMAIN cached # {}
    BY <1>0, <1>2, FS_EmptySet
  <2>2. \A h \in DOMAIN cached : cached[h].expires \in Nat
    <3>1. ProbeTtl \in Nat
      BY SignInConstants
    <3>2. \A h \in DOMAIN cached : cached[h].read \in Nat /\ cached[h].expires = cached[h].read + ProbeTtl
      BY DEF CacheInv
    <3> QED BY <3>1, <3>2
  <2>3. PICK x \in {cached[h].expires : h \in DOMAIN cached} : \A y \in {cached[h].expires : h \in DOMAIN cached} : x <= y
    <3> DEFINE T == {cached[h].expires : h \in DOMAIN cached}
    <3>1. T \in SUBSET Nat /\ T # {}
      BY <2>1, <2>2
    <3> QED BY <3>1, LeastNat
  <2>4. \E h \in DOMAIN cached : \A g \in DOMAIN cached : cached[h].expires <= cached[g].expires
    BY <2>3
  <2> QED BY <1>2, <2>4 DEF Evicted
<1> QED BY <1>1, <1>2

(* Every step keeps the cache within its limit.                            *)
LEMMA CacheNext ==
  ASSUME AttemptInv, CacheInv, [SignInNext]_signInVars
  PROVE  CacheInv'
<1>0. now \in Nat /\ ProbeTtl \in Nat /\ MaxCached \in Nat \ {0}
  BY SignInConstants DEF AttemptInv
<1>1. ASSUME UNCHANGED cached, now' \in Nat, now <= now' PROVE CacheInv'
  <2>1. 0..now \subseteq 0..now'
    BY <1>0, <1>1
  <2> QED BY <1>1, <2>1 DEF CacheInv
<1>2. CASE Tick \/ UNCHANGED signInVars
  BY <1>0, <1>1, <1>2 DEF Tick, signInVars
<1>3. ASSUME NEW a \in Attempt,
             BeginSignIn(a) \/ Limit(a) \/ CheckThrottle(a) \/ Register(a) \/ Kinit(a) \/ BindTo(a)
      PROVE  CacheInv'
  <2>1. UNCHANGED <<cached, now>>
    BY <1>3 DEF BeginSignIn, Limit, CheckThrottle, Register, Kinit, BindTo
  <2> QED BY <1>0, <1>1, <2>1
<1>4. ASSUME NEW a \in Attempt, FindTarget(a) PROVE CacheInv'
  <2>1. now' = now /\ (cached' = cached \/ cached' = Without(cached, {Head(attempt[a].target.hosts)}))
    BY <1>4 DEF FindTarget
  <2>2. CASE cached' = Without(cached, {Head(attempt[a].target.hosts)})
    <3>1. DOMAIN cached' \in SUBSET DOMAIN cached /\ \A h \in DOMAIN cached' : cached'[h] = cached[h]
      BY <2>2 DEF Without
    <3>2. cached' = [h \in DOMAIN cached' |-> cached'[h]]
      BY <2>2 DEF Without
    <3>3. IsFiniteSet(DOMAIN cached') /\ Cardinality(DOMAIN cached') <= MaxCached
      <4>1. /\ IsFiniteSet(DOMAIN cached')
            /\ Cardinality(DOMAIN cached') <= Cardinality(DOMAIN cached) /\ Cardinality(DOMAIN cached) <= MaxCached
        BY <3>1, FS_Subset DEF CacheInv
      <4> QED BY <1>0, <3>1, <4>1, FS_CardinalityType DEF CacheInv
    <3> QED BY <2>1, <3>1, <3>2, <3>3 DEF CacheInv
  <2> QED BY <1>0, <1>1, <2>1, <2>2
<1>5. ASSUME NEW a \in Attempt, Probe(a) PROVE CacheInv'
  <2>1. /\ InStep(a, "probe") /\ now' = now
        /\ \/ cached' = cached
           \/ \E answer \in Identity[Head(attempt[a].target.hosts)] :
                answer # Silent /\ Cache(Head(attempt[a].target.hosts), answer)
    BY <1>5 DEF Probe
  <2>2. ASSUME cached' # cached PROVE CacheInv'
    <3>1. PICK h, answer : /\ h = Head(attempt[a].target.hosts) /\ answer \in Identity[h]
                           /\ answer # Silent /\ Cache(h, answer)
      BY <2>1, <2>2
    <3>2. h \in Host
      <4>1. IsSignIn(attempt[a]) /\ attempt[a].step = "probe"
        BY <2>1 DEF AttemptInv, InStep
      <4> QED BY <3>1, <4>1 DEF IsSignIn, Target
    <3>3. answer \in [realm : Realm, name : Named]
      BY <3>1, <3>2, SignInConstants
    <3>4. PICK D : D = DOMAIN cached \ Evicted(cached)
      OBVIOUS
    <3>5. PICK new : new = [identity |-> answer, read |-> now, expires |-> now + ProbeTtl]
      OBVIOUS
    <3>6. /\ cached' = [x \in D \cup {h} |-> cached'[x]] /\ DOMAIN cached' = D \cup {h}
          /\ cached'[h] = new /\ \A x \in D : x # h => cached'[x] = cached[x]
      BY <3>1, <3>4, <3>5 DEF Cache, With, Without
    <3>7. IsFiniteSet(D) /\ Cardinality(D) < MaxCached
      <4>1. IsFiniteSet(DOMAIN cached) /\ Cardinality(DOMAIN cached) \in Nat /\ Cardinality(DOMAIN cached) <= MaxCached
        BY FS_CardinalityType DEF CacheInv
      <4>2. CASE Cardinality(DOMAIN cached) < MaxCached /\ Evicted(cached) = {}
        <5>1. D = DOMAIN cached
          BY <3>4, <4>2
        <5> QED BY <4>1, <4>2, <5>1
      <4>3. CASE \E e \in DOMAIN cached : Evicted(cached) = {e}
        <5>1. PICK e \in DOMAIN cached : Evicted(cached) = {e}
          BY <4>3
        <5>2. D = DOMAIN cached \ {e}
          BY <3>4, <5>1
        <5>3. Cardinality(D) = Cardinality(DOMAIN cached) - 1 /\ IsFiniteSet(D)
          BY <4>1, <5>2, FS_RemoveElement
        <5> QED BY <1>0, <4>1, <5>3
      <4> QED BY <4>2, <4>3, EvictedIs
    <3>8. IsFiniteSet(D \cup {h}) /\ Cardinality(D \cup {h}) <= MaxCached
      <4>1. IsFiniteSet(D \cup {h}) /\ (Cardinality(D \cup {h}) = Cardinality(D) \/ Cardinality(D \cup {h}) = Cardinality(D) + 1)
        BY <3>7, FS_AddElement
      <4> QED BY <1>0, <3>7, <4>1, FS_CardinalityType
    <3>9. /\ new.identity \in [realm : Realm, name : Named]
          /\ new.read \in 0..now /\ new.expires = new.read + ProbeTtl
      BY <1>0, <3>3, <3>5
    <3>10. \A x \in D : /\ x \in Host
                        /\ cached[x].identity \in [realm : Realm, name : Named]
                        /\ cached[x].read \in 0..now /\ cached[x].expires = cached[x].read + ProbeTtl
      BY <3>4 DEF CacheInv
    <3>11. \A x \in D \cup {h} : /\ x \in Host
                                 /\ cached'[x].identity \in [realm : Realm, name : Named]
                                 /\ cached'[x].read \in 0..now /\ cached'[x].expires = cached'[x].read + ProbeTtl
      BY <3>2, <3>6, <3>9, <3>10
    <3> QED BY <2>1, <3>6, <3>8, <3>11 DEF CacheInv
  <2> QED BY <1>0, <1>1, <2>1, <2>2
<1> QED BY <1>2, <1>3, <1>4, <1>5 DEF SignInNext

(* A sign-in that takes what a server said has it from the cache before it *)
(* expires there, or has just read it.                                     *)
LEMMA FreshStep ==
  ASSUME AttemptInv, CacheInv, [SignInNext]_signInVars, NEW a \in Attempt,
         attempt'[a].step = "throttle", ~InStep(a, "throttle"), attempt'[a].target.name # NoName
  PROVE  now - attempt'[a].read <= ProbeTtl
<1>0. now \in Nat /\ ProbeTtl \in Nat
  BY SignInConstants DEF AttemptInv
<1>1. attempt'[a] # attempt[a]
  BY DEF InStep
<1>2. ASSUME NEW b \in Attempt, NEW op, Advances(b, op)
      PROVE  b = a /\ attempt'[a] = op
  BY <1>1, <1>2, AdvancesIs
<1>3. ASSUME NEW b \in Attempt, \E op : Advances(b, op) /\ op.step # "throttle"
      PROVE  FALSE
  BY <1>2, <1>3
<1>4. ASSUME NEW b \in Attempt, BeginSignIn(b) PROVE FALSE
  <2>1. \E op : Advances(b, op) /\ op.step \in {"limit", "resolve"}
    BY <1>4 DEF BeginSignIn
  <2> QED BY <1>3, <2>1
<1>5. \A why : EndSignIn(why).step = "ended"
  BY DEF EndSignIn
<1>6. ASSUME NEW b \in Attempt, ~InStep(b, "ended"), NEW step \in Steps, step # "throttle"
      PROVE  To(attempt[b], step).step # "throttle"
  <2>1. IsSignIn(attempt[b])
    BY <1>6 DEF AttemptInv
  <2> QED BY <1>6, <2>1 DEF To, IsSignIn
<1>7. ASSUME NEW b \in Attempt, Limit(b) \/ CheckThrottle(b) \/ Register(b) PROVE FALSE
  <2>1. ~InStep(b, "ended") /\ "resolve" \in Steps /\ "register" \in Steps /\ "kinit" \in Steps
    BY <1>7 DEF Limit, CheckThrottle, Register, InStep, Steps
  <2>2. \/ \E why : Advances(b, EndSignIn(why))
        \/ \E step \in {"resolve", "register", "kinit"} : Advances(b, To(attempt[b], step))
    BY <1>7 DEF Limit, CheckThrottle, Register
  <2> QED BY <1>3, <1>5, <1>6, <2>1, <2>2
<1>8. ASSUME NEW b \in Attempt, Kinit(b) PROVE FALSE
  <2>1. IsSignIn(attempt[b])
    BY <1>8 DEF Kinit, InStep, AttemptInv
  <2> QED BY <1>3, <1>5, <1>8, <2>1, KinitIs, GoesToBind
<1>9. ASSUME NEW b \in Attempt, BindTo(b) PROVE FALSE
  <2>1. IsSignIn(attempt[b]) /\ attempt[b].step = "bind"
    BY <1>9 DEF BindTo, InStep, AttemptInv
  <2>2. \A heard : TryNext(attempt[b], heard).step = "bind"
    BY <2>1, TriesNext
  <2>3. \/ \E why : Advances(b, EndSignIn(why))
        \/ \E heard : Advances(b, TryNext(attempt[b], heard))
    BY <1>9, BindIs
  <2>4. "bind" # "throttle" /\ "ended" # "throttle"
    OBVIOUS
  <2> QED BY <1>3, <1>5, <2>2, <2>3, <2>4, Zenon
<1>10. ASSUME NEW b \in Attempt, FindTarget(b) PROVE now - attempt'[a].read <= ProbeTtl
  <2>1. InStep(b, "resolve") /\ IsSignIn(attempt[b])
    BY <1>10 DEF FindTarget, InStep, AttemptInv
  <2>2. \/ \E why : Advances(b, EndSignIn(why))
        \/ Advances(b, To(attempt[b], "throttle"))
        \/ Advances(b, To(attempt[b], "probe"))
        \/ attempt[b].target.hosts # <<>> /\ \E h \in DOMAIN cached : cached[h].expires >= now /\
             Advances(b, WithDiscovery(attempt[b], cached[h].identity, cached[h].read))
    BY <1>10 DEF FindTarget, Usable
  <2>3. ~ \E why : Advances(b, EndSignIn(why))
    BY <1>3, <1>5
  <2>4. ~ Advances(b, To(attempt[b], "probe"))
    BY <1>3, <1>6, <2>1 DEF InStep, Steps
  <2>5. To(attempt[b], "throttle").target.name = NoName
    BY <2>1 DEF IsSignIn, InStep, To
  <2>6. ~ Advances(b, To(attempt[b], "throttle"))
    BY <1>2, <2>5
  <2>7. PICK h \in DOMAIN cached :
          cached[h].expires >= now /\ Advances(b, WithDiscovery(attempt[b], cached[h].identity, cached[h].read))
    BY <2>2, <2>3, <2>4, <2>6
  <2>8. /\ cached[h].identity \in [realm : Realm \cup {Unknown}, name : Named \cup {NoName}]
        /\ cached[h].read \in Nat /\ cached[h].expires = cached[h].read + ProbeTtl
    BY DEF CacheInv
  <2>9. WithDiscovery(attempt[b], cached[h].identity, cached[h].read).read = cached[h].read
    BY <2>1, <2>2, <2>3, <2>4, <2>6, <2>8, Discovered
  <2> QED BY <1>0, <1>2, <2>7, <2>8, <2>9
<1>11. ASSUME NEW b \in Attempt, Probe(b) PROVE now - attempt'[a].read <= ProbeTtl
  <2>1. InStep(b, "probe") /\ IsSignIn(attempt[b]) /\ attempt[b].step = "probe"
    BY <1>11 DEF Probe, InStep, AttemptInv
  <2>2. attempt[b].target.hosts # <<>> /\ Head(attempt[b].target.hosts) \in Host
    BY <2>1 DEF IsSignIn, Target
  <2>3. \/ \E why : Advances(b, EndSignIn(why))
        \/ Advances(b, To(attempt[b], "throttle"))
        \/ \E answer \in Identity[Head(attempt[b].target.hosts)] :
             answer # Silent /\ Advances(b, WithDiscovery(attempt[b], answer, now))
    BY <1>11 DEF Probe
  <2>4. ~ \E why : Advances(b, EndSignIn(why))
    BY <1>3, <1>5
  <2>5. To(attempt[b], "throttle").target.name = NoName
    BY <2>1 DEF IsSignIn, To
  <2>6. ~ Advances(b, To(attempt[b], "throttle"))
    BY <1>2, <2>5
  <2>7. PICK answer \in Identity[Head(attempt[b].target.hosts)] :
          answer # Silent /\ Advances(b, WithDiscovery(attempt[b], answer, now))
    BY <2>3, <2>4, <2>6
  <2>8. answer \in [realm : Realm \cup {Unknown}, name : Named \cup {NoName}]
    BY <2>2, <2>7, SignInConstants
  <2>9. WithDiscovery(attempt[b], answer, now).read = now
    BY <1>0, <2>1, <2>2, <2>8, Discovered
  <2> QED BY <1>0, <1>2, <2>7, <2>9
<1>12. ~ (Tick \/ UNCHANGED signInVars)
  BY <1>1 DEF Tick, signInVars
<1> QED BY <1>4, <1>7, <1>8, <1>9, <1>10, <1>11, <1>12 DEF SignInNext

---------------------------------------------------------------------------
(* The controllers of a realm.                                             *)

(* What two sequences put together hold.                                   *)
LEMMA ToSetCat ==
  ASSUME NEW S, NEW s \in Seq(S), NEW t \in Seq(S)
  PROVE  s \o t \in Seq(S) /\ ToSet(s \o t) = ToSet(s) \cup ToSet(t)
<1>1. /\ s \o t \in Seq(S) /\ Len(s \o t) = Len(s) + Len(t) /\ Len(s) \in Nat /\ Len(t) \in Nat
      /\ DOMAIN s = 1..Len(s) /\ DOMAIN t = 1..Len(t) /\ DOMAIN (s \o t) = 1..Len(s \o t)
      /\ \A i \in 1..Len(s) + Len(t) : (s \o t)[i] = IF i <= Len(s) THEN s[i] ELSE t[i - Len(s)]
  OBVIOUS
<1>2. ToSet(s \o t) \subseteq ToSet(s) \cup ToSet(t)
  <2> SUFFICES ASSUME NEW i \in 1..Len(s) + Len(t) PROVE (s \o t)[i] \in ToSet(s) \cup ToSet(t)
    BY <1>1 DEF ToSet
  <2>1. CASE i <= Len(s)
    BY <1>1, <2>1 DEF ToSet
  <2>2. CASE ~(i <= Len(s))
    <3>1. i - Len(s) \in 1..Len(t) /\ (s \o t)[i] = t[i - Len(s)]
      BY <1>1, <2>2
    <3> QED BY <1>1, <3>1 DEF ToSet
  <2> QED BY <2>1, <2>2
<1>3. ASSUME NEW i \in 1..Len(s) PROVE s[i] \in ToSet(s \o t)
  <2>1. i \in 1..Len(s \o t) /\ (s \o t)[i] = s[i]
    BY <1>1
  <2> QED BY <1>1, <2>1 DEF ToSet
<1>4. ASSUME NEW i \in 1..Len(t) PROVE t[i] \in ToSet(s \o t)
  <2>1. i + Len(s) \in 1..Len(s \o t) /\ (s \o t)[i + Len(s)] = t[i]
    BY <1>1
  <2> QED BY <1>1, <2>1 DEF ToSet
<1> QED BY <1>1, <1>2, <1>3, <1>4 DEF ToSet

(* The names a target goes by, as lists of hosts.                          *)
LEMMA HostsOf ==
  ASSUME NEW target \in Target
  PROVE  /\ NameOf(target) \in Seq(Host) /\ target.hosts \in Seq(Host)
         /\ Kdcs(target) \in Seq(Host) /\ IsInjective(Kdcs(target))
         /\ target.hosts # <<>> =>
              /\ DiscoverDcs(target) \in Seq(Host) /\ DiscoverDcs(target) # <<>>
              /\ ToSet(DiscoverDcs(target)) = ToSet(target.hosts) \cup ToSet(NameOf(target))
<1>1. NameOf(target) \in Seq(Host) /\ target.hosts \in Seq(Host)
  <2>1. target.hosts \in Seq(Host) /\ target.name \in Named \cup {NoName} /\ Named \subseteq Host
    BY DEF Target, Host
  <2>2. CASE target.name = NoName
    BY <2>1, <2>2 DEF NameOf
  <2>3. CASE target.name # NoName
    <3>1. target.name \in Host /\ NameOf(target) = <<target.name>>
      BY <2>1, <2>3 DEF NameOf
    <3> QED BY <2>1, <3>1
  <2> QED BY <2>2, <2>3
<1>2. /\ target.hosts \o NameOf(target) \in Seq(Host) /\ NameOf(target) \o target.hosts \in Seq(Host)
      /\ ToSet(NameOf(target) \o target.hosts) = ToSet(target.hosts) \cup ToSet(NameOf(target))
  BY <1>1, ToSetCat
<1>3. Kdcs(target) \in Seq(Host) /\ IsInjective(Kdcs(target))
  BY <1>2, DistinctIs DEF Kdcs
<1>4. ASSUME target.hosts # <<>>
      PROVE  /\ DiscoverDcs(target) \in Seq(Host) /\ DiscoverDcs(target) # <<>>
             /\ ToSet(DiscoverDcs(target)) = ToSet(target.hosts) \cup ToSet(NameOf(target))
  <2>1. DiscoverDcs(target) = Distinct(NameOf(target) \o target.hosts)
    BY <1>4 DEF DiscoverDcs
  <2>2. /\ DiscoverDcs(target) \in Seq(Host)
        /\ ToSet(DiscoverDcs(target)) = ToSet(target.hosts) \cup ToSet(NameOf(target))
    BY <1>2, <2>1, DistinctIs
  <2>3. target.hosts[1] \in ToSet(target.hosts)
    BY <1>1, <1>4 DEF ToSet
  <2>4. DiscoverDcs(target) # <<>>
    <3>1. ToSet(<<>>) = {}
      BY DEF ToSet
    <3> QED BY <2>2, <2>3, <3>1
  <2> QED BY <2>2, <2>4
<1> QED BY <1>1, <1>3, <1>4

(* Every step but a registration leaves the controllers alone.             *)
LEMMA RealmsKept ==
  ASSUME NEW a \in Attempt,
         BeginSignIn(a) \/ Limit(a) \/ FindTarget(a) \/ Probe(a) \/ CheckThrottle(a) \/ Kinit(a) \/ BindTo(a)
  PROVE  UNCHANGED <<realms, file>>
<1>1. CASE BeginSignIn(a)
  BY <1>1 DEF BeginSignIn
<1>2. CASE Limit(a)
  BY <1>2 DEF Limit
<1>3. CASE FindTarget(a)
  BY <1>3 DEF FindTarget
<1>4. CASE Probe(a)
  BY <1>4 DEF Probe
<1>5. CASE CheckThrottle(a)
  BY <1>5 DEF CheckThrottle
<1>6. CASE Kinit(a)
  BY <1>6 DEF Kinit
<1>7. CASE BindTo(a)
  BY <1>7 DEF BindTo
<1> QED BY <1>1, <1>2, <1>3, <1>4, <1>5, <1>6, <1>7

(* A registration adds the controllers of its target to their realm's.     *)
LEMMA RegisterIs ==
  ASSUME AttemptInv, RealmsInv, NEW a \in Attempt, Register(a)
  PROVE  /\ RealmsInv'
         /\ \A r \in DOMAIN file : r \in DOMAIN file' /\ ToSet(file[r]) \subseteq ToSet(file'[r])
         /\ attempt[a].target.realm \in DOMAIN file'
         /\ ToSet(Kdcs(attempt[a].target)) \subseteq ToSet(file'[attempt[a].target.realm])
<1>1. PICK r, kdcs : r = attempt[a].target.realm /\ kdcs = Kdcs(attempt[a].target)
  OBVIOUS
<1>2. IF r \in DOMAIN realms /\ ToSet(kdcs) \subseteq ToSet(realms[r])
      THEN UNCHANGED <<realms, file>>
      ELSE /\ realms' = With(realms, r, IF r \in DOMAIN realms THEN Merged(realms[r], kdcs) ELSE kdcs)
           /\ file' = realms'
  BY <1>1 DEF Register
<1>3. kdcs \in Seq(Host) /\ IsInjective(kdcs)
  <2>1. attempt[a].target \in Target
    BY DEF Register, InStep, AttemptInv, IsSignIn
  <2> QED BY <1>1, <2>1, HostsOf
<1>4. CASE r \in DOMAIN realms /\ ToSet(kdcs) \subseteq ToSet(realms[r])
  BY <1>1, <1>2, <1>4 DEF RealmsInv
<1>5. CASE ~(r \in DOMAIN realms /\ ToSet(kdcs) \subseteq ToSet(realms[r]))
  <2>1. PICK list : list = IF r \in DOMAIN realms THEN Merged(realms[r], kdcs) ELSE kdcs
    OBVIOUS
  <2>2. realms' = With(realms, r, list) /\ file' = realms'
    BY <1>2, <1>5, <2>1
  <2>3. /\ list \in Seq(Host) /\ IsInjective(list) /\ ToSet(kdcs) \subseteq ToSet(list)
        /\ r \in DOMAIN realms => ToSet(realms[r]) \subseteq ToSet(list)
    <3>1. CASE r \in DOMAIN realms
      <4>1. realms[r] \in Seq(Host) /\ list = Distinct(realms[r] \o kdcs)
        BY <2>1, <3>1 DEF RealmsInv, Merged
      <4>2. realms[r] \o kdcs \in Seq(Host) /\ ToSet(realms[r] \o kdcs) = ToSet(realms[r]) \cup ToSet(kdcs)
        BY <1>3, <4>1, ToSetCat
      <4>3. list \in Seq(Host) /\ IsInjective(list) /\ ToSet(list) = ToSet(realms[r]) \cup ToSet(kdcs)
        BY <4>1, <4>2, DistinctIs
      <4> QED BY <4>3
    <3>2. CASE r \notin DOMAIN realms
      BY <1>3, <2>1, <3>2
    <3> QED BY <3>1, <3>2
  <2>4. /\ DOMAIN realms' = DOMAIN realms \cup {r} /\ realms' = [x \in DOMAIN realms' |-> realms'[x]]
        /\ realms'[r] = list /\ \A x \in DOMAIN realms : x # r => realms'[x] = realms[x]
    BY <2>2 DEF With
  <2>5. \A x \in DOMAIN realms' : realms'[x] \in Seq(Host) /\ IsInjective(realms'[x])
    BY <2>3, <2>4 DEF RealmsInv
  <2>6. RealmsInv'
    BY <2>2, <2>4, <2>5 DEF RealmsInv
  <2> QED BY <1>1, <2>2, <2>3, <2>4, <2>6 DEF RealmsInv
<1> QED BY <1>4, <1>5

(* Every step keeps the controllers a realm has.                           *)
LEMMA RealmsNext ==
  ASSUME AttemptInv, RealmsInv, [SignInNext]_signInVars
  PROVE  /\ RealmsInv'
         /\ \A r \in DOMAIN file : r \in DOMAIN file' /\ ToSet(file[r]) \subseteq ToSet(file'[r])
<1>1. CASE UNCHANGED <<realms, file>>
  BY <1>1 DEF RealmsInv
<1>2. CASE Tick \/ UNCHANGED signInVars
  BY <1>1, <1>2 DEF Tick, signInVars
<1>3. ASSUME NEW a \in Attempt, Register(a)
      PROVE  /\ RealmsInv'
             /\ \A r \in DOMAIN file : r \in DOMAIN file' /\ ToSet(file[r]) \subseteq ToSet(file'[r])
  BY <1>3, RegisterIs
<1> QED BY <1>1, <1>2, <1>3, RealmsKept DEF SignInNext

(* A sign-in asks for a ticket only after it has registered its realm.     *)
LEMMA ComesToKinit ==
  ASSUME AttemptInv, [SignInNext]_signInVars, NEW a \in Attempt, InStep(a, "kinit")'
  PROVE  \/ InStep(a, "kinit") /\ attempt'[a] = attempt[a]
         \/ Register(a) /\ attempt'[a].target = attempt[a].target
<1> SUFFICES ASSUME attempt'[a] # attempt[a] PROVE Register(a) /\ attempt'[a].target = attempt[a].target
  BY DEF InStep
<1>0. attempt'[a].step = "kinit"
  BY DEF InStep
<1>2. ASSUME NEW b \in Attempt, NEW op, Advances(b, op)
      PROVE  b = a /\ attempt'[a] = op
  BY <1>2, AdvancesIs
<1>3. ASSUME NEW b \in Attempt, \E op : Advances(b, op) /\ op.step # "kinit"
      PROVE  FALSE
  BY <1>0, <1>2, <1>3
<1>4. ASSUME NEW b \in Attempt, BeginSignIn(b) PROVE FALSE
  <2>1. \E op : Advances(b, op) /\ op.step \in {"limit", "resolve"}
    BY <1>4 DEF BeginSignIn
  <2> QED BY <1>3, <2>1
<1>5. \A why : EndSignIn(why).step = "ended"
  BY DEF EndSignIn
<1>6. ASSUME NEW b \in Attempt, ~InStep(b, "ended"), NEW step \in Steps
      PROVE  To(attempt[b], step).step = step /\ To(attempt[b], step).target = attempt[b].target
  <2>1. IsSignIn(attempt[b])
    BY <1>6 DEF AttemptInv
  <2> QED BY <1>6, <2>1 DEF To, IsSignIn
<1>7. ASSUME NEW b \in Attempt, Limit(b) \/ CheckThrottle(b) PROVE FALSE
  <2>1. ~InStep(b, "ended") /\ "resolve" \in Steps /\ "register" \in Steps
    BY <1>7 DEF Limit, CheckThrottle, InStep, Steps
  <2>2. \/ \E why : Advances(b, EndSignIn(why))
        \/ \E step \in {"resolve", "register"} : Advances(b, To(attempt[b], step))
    BY <1>7 DEF Limit, CheckThrottle
  <2> QED BY <1>3, <1>5, <1>6, <2>1, <2>2
<1>8. ASSUME NEW b \in Attempt, Kinit(b) PROVE FALSE
  <2>1. IsSignIn(attempt[b])
    BY <1>8 DEF Kinit, InStep, AttemptInv
  <2> QED BY <1>3, <1>5, <1>8, <2>1, KinitIs, GoesToBind
<1>9. ASSUME NEW b \in Attempt, BindTo(b) PROVE FALSE
  <2>1. IsSignIn(attempt[b]) /\ attempt[b].step = "bind"
    BY <1>9 DEF BindTo, InStep, AttemptInv
  <2>2. \A heard : TryNext(attempt[b], heard).step = "bind"
    BY <2>1, TriesNext
  <2>3. \/ \E why : Advances(b, EndSignIn(why))
        \/ \E heard : Advances(b, TryNext(attempt[b], heard))
    BY <1>9, BindIs
  <2>4. "bind" # "kinit" /\ "ended" # "kinit"
    OBVIOUS
  <2> QED BY <1>3, <1>5, <2>2, <2>3, <2>4, Zenon
<1>10. ASSUME NEW b \in Attempt, FindTarget(b) \/ Probe(b) PROVE FALSE
  <2>1. ~InStep(b, "ended") /\ IsSignIn(attempt[b])
    BY <1>10 DEF FindTarget, Probe, InStep, AttemptInv
  <2>2. \/ \E why : Advances(b, EndSignIn(why))
        \/ \E step \in {"throttle", "probe"} : Advances(b, To(attempt[b], step))
        \/ \E identity, read : Advances(b, WithDiscovery(attempt[b], identity, read))
    BY <1>10 DEF FindTarget, Probe
  <2>3. \A identity, read : WithDiscovery(attempt[b], identity, read).step = "throttle"
    BY <2>1, SMT DEF WithDiscovery, IsSignIn
  <2>4. "throttle" \in Steps /\ "probe" \in Steps
    BY DEF Steps
  <2> QED BY <1>3, <1>5, <1>6, <2>1, <2>2, <2>3, <2>4
<1>11. ~ (Tick \/ UNCHANGED signInVars)
  BY DEF Tick, signInVars
<1>12. ASSUME NEW b \in Attempt, Register(b) PROVE Register(a) /\ attempt'[a].target = attempt[a].target
  <2>1. ~InStep(b, "ended") /\ Advances(b, To(attempt[b], "kinit"))
    BY <1>12 DEF Register, InStep
  <2> QED BY <1>2, <1>6, <1>12, <2>1 DEF Steps
<1> QED BY <1>4, <1>7, <1>8, <1>9, <1>10, <1>11, <1>12 DEF SignInNext

(* Every step keeps the file ahead of the sign-ins that read it.           *)
LEMMA KdcsNamedNext ==
  ASSUME AttemptInv, RealmsInv, KdcsNamed, [SignInNext]_signInVars
  PROVE  KdcsNamed'
<1> SUFFICES ASSUME NEW a \in Attempt, InStep(a, "kinit")'
             PROVE  /\ attempt'[a].target.realm \in DOMAIN file'
                    /\ ToSet(Kdcs(attempt'[a].target)) \subseteq ToSet(file'[attempt'[a].target.realm])
                    \/ ToSet(Kdcs(attempt'[a].target)) = {}
  BY DEF KdcsNamed
<1>1. CASE InStep(a, "kinit") /\ attempt'[a] = attempt[a]
  BY <1>1, RealmsNext DEF KdcsNamed
<1>2. CASE Register(a) /\ attempt'[a].target = attempt[a].target
  BY <1>2, RegisterIs
<1> QED BY <1>1, <1>2, ComesToKinit

---------------------------------------------------------------------------
(* The search for a server that lets the session in.                       *)

(* A number and its quotient and remainder.                                *)
LEMMA DivMod ==
  ASSUME NEW n \in Nat \ {0}, NEW q \in Nat, NEW r \in 0..(n - 1)
  PROVE  (q * n + r) \div n = q /\ (q * n + r) % n = r
  OBVIOUS

(* Every host is a candidate over every transport.                         *)
LEMMA CandidatesAre ==
  ASSUME NEW target \in Target, target.hosts # <<>>
  PROVE  /\ Candidates(target) \in Seq(Host \X ToSet(Transports))
         /\ \A h \in ToSet(target.hosts) \cup ToSet(NameOf(target)), t \in ToSet(Transports) :
              <<h, t>> \in ToSet(Candidates(target))
<1>1. PICK hosts, n : hosts = DiscoverDcs(target) /\ n = Len(Transports)
  OBVIOUS
<1>2. /\ hosts \in Seq(Host) /\ ToSet(hosts) = ToSet(target.hosts) \cup ToSet(NameOf(target))
      /\ Len(hosts) \in Nat /\ DOMAIN hosts = 1..Len(hosts)
  BY <1>1, HostsOf
<1>3. /\ Transports \in Seq(ToSet(Transports)) /\ n \in Nat /\ DOMAIN Transports = 1..n
      /\ \A j \in 1..n : Transports[j] \in ToSet(Transports)
  BY <1>1, SignInConstants DEF ToSet
<1>4. Candidates(target) = [k \in 1..(Len(hosts) * n) |-> <<hosts[((k - 1) \div n) + 1], Transports[((k - 1) % n) + 1]>>]
  BY <1>1 DEF Candidates
<1>5. Len(hosts) * n \in Nat
  BY <1>2, <1>3
<1>6. ASSUME NEW k \in 1..(Len(hosts) * n)
      PROVE  <<hosts[((k - 1) \div n) + 1], Transports[((k - 1) % n) + 1]>> \in Host \X ToSet(Transports)
  <2>1. n > 0
    BY <1>2, <1>3, <1>6
  <2>2. ((k - 1) % n) + 1 \in 1..n
    BY <1>3, <2>1
  <2>3. ((k - 1) \div n) + 1 \in 1..Len(hosts)
    <3>1. PICK m \in Nat : m = Len(hosts)
      BY <1>2
    <3>2. PICK q \in Int, r \in 0..(n - 1) : q = (k - 1) \div n /\ k - 1 = q * n + r
      BY <1>3, <2>1
    <3>3. k - 1 < m * n /\ k - 1 >= 0
      BY <1>3, <1>6, <3>1
    <3>4. q * n < m * n
      BY <1>3, <3>1, <3>2, <3>3
    <3>5. q < m
      BY <1>3, <2>1, <3>1, <3>4
    <3>6. q >= 0
      BY <1>3, <2>1, <3>2, <3>3
    <3> QED BY <3>1, <3>2, <3>5, <3>6
  <2> QED BY <1>2, <1>3, <2>2, <2>3
<1>7. Candidates(target) \in Seq(Host \X ToSet(Transports))
  BY <1>4, <1>5, <1>6
<1>8. ASSUME NEW i \in 1..Len(hosts), NEW j \in 1..n
      PROVE  <<hosts[i], Transports[j]>> \in ToSet(Candidates(target))
  <2>1. n \in Nat \ {0} /\ i - 1 \in Nat /\ j - 1 \in 0..(n - 1)
    BY <1>2, <1>3
  <2>2. PICK k : k = (i - 1) * n + j
    OBVIOUS
  <2>3. k \in 1..(Len(hosts) * n)
    <3>1. PICK m \in Nat : m = Len(hosts)
      BY <1>2
    <3>2. (i - 1) * n >= 0 /\ (i - 1) * n + n = i * n
      BY <2>1
    <3>3. i * n <= m * n
      BY <2>1, <3>1
    <3> QED BY <2>1, <2>2, <3>1, <3>2, <3>3
  <2>4. (k - 1) \div n = i - 1 /\ (k - 1) % n = j - 1
    <3>1. PICK q \in Nat, r \in 0..(n - 1) : q = i - 1 /\ r = j - 1
      BY <2>1
    <3>2. k - 1 = q * n + r
      <4>1. k = q * n + j
        BY <2>2, <3>1
      <4>2. q * n \in Nat
        BY <2>1
      <4> QED BY <3>1, <4>1, <4>2
    <3>3. (q * n + r) \div n = q /\ (q * n + r) % n = r
      BY <2>1, DivMod
    <3> QED BY <3>1, <3>2, <3>3
  <2>5. ((k - 1) \div n) + 1 = i /\ ((k - 1) % n) + 1 = j
    BY <2>1, <2>4
  <2>6. Candidates(target)[k] = <<hosts[i], Transports[j]>>
    BY <1>4, <2>3, <2>5
  <2> QED BY <1>4, <2>3, <2>6 DEF ToSet
<1>9. ASSUME NEW h \in ToSet(hosts), NEW t \in ToSet(Transports)
      PROVE  <<h, t>> \in ToSet(Candidates(target))
  BY <1>2, <1>3, <1>8 DEF ToSet
<1> QED BY <1>2, <1>7, <1>9

(* What is left once the first candidate has failed.                       *)
LEMMA LeftToTry ==
  ASSUME NEW S, NEW left \in Seq(S), left # <<>>
  PROVE  /\ Len(left) # 1 => Tail(left) \in Seq(S) /\ Tail(left) # <<>>
         /\ Len(left) # 1 => \A x \in ToSet(left) : x = Head(left) \/ x \in ToSet(Tail(left))
         /\ Len(left) = 1 => \A x \in ToSet(left) : x = Head(left)
<1>1. Len(left) \in Nat \ {0} /\ DOMAIN left = 1..Len(left) /\ Head(left) = left[1]
  OBVIOUS
<1>2. CASE Len(left) = 1
  BY <1>1, <1>2 DEF ToSet
<1>3. CASE Len(left) # 1
  <2>1. PICK rest : rest = Tail(left)
    OBVIOUS
  <2>2. /\ rest \in Seq(S) /\ Len(rest) = Len(left) - 1 /\ DOMAIN rest = 1..Len(rest)
        /\ \A i \in 1..Len(rest) : rest[i] = left[i + 1]
    BY <1>1, <2>1
  <2>3. rest # <<>>
    BY <1>1, <1>3, <2>2
  <2>4. ASSUME NEW i \in 1..Len(left), i # 1 PROVE left[i] \in ToSet(rest)
    <3>1. i - 1 \in 1..Len(rest) /\ rest[i - 1] = left[i]
      BY <1>1, <2>2, <2>4
    <3> QED BY <2>2, <3>1 DEF ToSet
  <2>5. \A x \in ToSet(left) : x = Head(left) \/ x \in ToSet(rest)
    <3>1. \A x \in ToSet(left) : \E i \in 1..Len(left) : x = left[i]
      BY <1>1 DEF ToSet
    <3> QED BY <1>1, <2>4, <3>1
  <2> QED BY <1>3, <2>1, <2>2, <2>3, <2>5
<1> QED BY <1>2, <1>3

(* Only a ticket, and a failed bind with a candidate left, lead to a bind. *)
LEMMA ComesToBind ==
  ASSUME AttemptInv, [SignInNext]_signInVars, NEW a \in Attempt, InStep(a, "bind")'
  PROVE  \/ InStep(a, "bind") /\ attempt'[a] = attempt[a]
         \/ Kinit(a) \/ BindTo(a)
<1> SUFFICES ASSUME attempt'[a] # attempt[a], ~Kinit(a), ~BindTo(a) PROVE FALSE
  BY DEF InStep
<1>0. attempt'[a].step = "bind"
  BY DEF InStep
<1>2. ASSUME NEW b \in Attempt, NEW op, Advances(b, op)
      PROVE  b = a /\ attempt'[a] = op
  BY <1>2, AdvancesIs
<1>3. ASSUME NEW b \in Attempt, \E op : Advances(b, op) /\ op.step # "bind"
      PROVE  FALSE
  BY <1>0, <1>2, <1>3
<1>4. ASSUME NEW b \in Attempt, BeginSignIn(b) PROVE FALSE
  <2>1. \E op : Advances(b, op) /\ op.step \in {"limit", "resolve"}
    BY <1>4 DEF BeginSignIn
  <2> QED BY <1>3, <2>1
<1>5. \A why : EndSignIn(why).step = "ended"
  BY DEF EndSignIn
<1>6. ASSUME NEW b \in Attempt, ~InStep(b, "ended"), NEW step \in Steps
      PROVE  To(attempt[b], step).step = step
  <2>1. IsSignIn(attempt[b])
    BY <1>6 DEF AttemptInv
  <2> QED BY <1>6, <2>1 DEF To, IsSignIn
<1>7. ASSUME NEW b \in Attempt, Limit(b) \/ CheckThrottle(b) \/ Register(b) PROVE FALSE
  <2>1. ~InStep(b, "ended") /\ "resolve" \in Steps /\ "register" \in Steps /\ "kinit" \in Steps
    BY <1>7 DEF Limit, CheckThrottle, Register, InStep, Steps
  <2>2. \/ \E why : Advances(b, EndSignIn(why))
        \/ \E step \in {"resolve", "register", "kinit"} : Advances(b, To(attempt[b], step))
    BY <1>7 DEF Limit, CheckThrottle, Register
  <2> QED BY <1>3, <1>5, <1>6, <2>1, <2>2
<1>8. ASSUME NEW b \in Attempt, Kinit(b) \/ BindTo(b) PROVE FALSE
  <2>1. \E op : Advances(b, op)
    BY <1>8, KinitIs, BindIs
  <2> QED BY <1>2, <1>8, <2>1
<1>10. ASSUME NEW b \in Attempt, FindTarget(b) \/ Probe(b) PROVE FALSE
  <2>1. ~InStep(b, "ended") /\ IsSignIn(attempt[b])
    BY <1>10 DEF FindTarget, Probe, InStep, AttemptInv
  <2>2. \/ \E why : Advances(b, EndSignIn(why))
        \/ \E step \in {"throttle", "probe"} : Advances(b, To(attempt[b], step))
        \/ \E identity, read : Advances(b, WithDiscovery(attempt[b], identity, read))
    BY <1>10 DEF FindTarget, Probe
  <2>3. \A identity, read : WithDiscovery(attempt[b], identity, read).step = "throttle"
    BY <2>1, SMT DEF WithDiscovery, IsSignIn
  <2>4. "throttle" \in Steps /\ "probe" \in Steps
    BY DEF Steps
  <2> QED BY <1>3, <1>5, <1>6, <2>1, <2>2, <2>3, <2>4
<1>11. ~ (Tick \/ UNCHANGED signInVars)
  BY DEF Tick, signInVars
<1> QED BY <1>4, <1>7, <1>8, <1>10, <1>11 DEF SignInNext

(* Every step keeps what is left to try complete.                          *)
LEMMA LeftNext ==
  ASSUME AttemptInv, LeftInv, [SignInNext]_signInVars
  PROVE  LeftInv'
<1> SUFFICES ASSUME NEW a \in Attempt, InStep(a, "bind")', attempt'[a].target.hosts # <<>>
             PROVE  /\ attempt'[a].left \in Seq(Host \X ToSet(Transports)) /\ attempt'[a].left # <<>>
                    /\ \A h \in ToSet(attempt'[a].target.hosts) \cup ToSet(NameOf(attempt'[a].target)),
                         t \in ToSet(Transports) :
                           <<h, t>> \in ToSet(attempt'[a].left) \/ Bind[<<h, t>>] # {"ok"}
  BY DEF LeftInv
<1>1. CASE InStep(a, "bind") /\ attempt'[a] = attempt[a]
  BY <1>1 DEF LeftInv
<1>2. CASE Kinit(a)
  <2>1. IsSignIn(attempt[a])
    BY <1>2 DEF Kinit, InStep, AttemptInv
  <2>2. ~ \E why : Advances(a, EndSignIn(why))
    <3>1. \A why : EndSignIn(why).step # "bind"
      BY DEF EndSignIn
    <3> QED BY <3>1, AdvancesIs DEF InStep
  <2>3. PICK left, op : /\ left = Candidates(attempt[a].target) /\ left # <<>>
                        /\ op = [attempt[a] EXCEPT !.step = "bind", !.left = left] /\ Advances(a, op)
    BY <1>2, <2>2, KinitIs
  <2>4. attempt'[a].left = left /\ attempt'[a].target = attempt[a].target
    <3>1. attempt'[a] = [attempt[a] EXCEPT !.step = "bind", !.left = left]
      BY <2>3, AdvancesIs
    <3> QED BY <2>1, <3>1, SMT DEF IsSignIn
  <2>5. attempt[a].target \in Target /\ attempt[a].target.hosts # <<>>
    BY <2>1, <2>4 DEF IsSignIn
  <2> QED BY <2>3, <2>4, <2>5, CandidatesAre
<1>3. CASE BindTo(a)
  <2>1. IsSignIn(attempt[a]) /\ attempt[a].step = "bind" /\ InStep(a, "bind")
    BY <1>3 DEF BindTo, InStep, AttemptInv
  <2>2. ~ \E why : Advances(a, EndSignIn(why))
    <3>1. \A why : EndSignIn(why).step # "bind"
      BY DEF EndSignIn
    <3> QED BY <3>1, AdvancesIs DEF InStep
  <2>3. PICK verdict \in Bind[Head(attempt[a].left)] :
          /\ verdict # "ok" /\ Len(attempt[a].left) # 1
          /\ \E heard : Advances(a, TryNext(attempt[a], heard))
    BY <1>3, <2>2, BindIs
  <2>4. PICK left, heard : left = Tail(attempt[a].left) /\ Advances(a, TryNext(attempt[a], heard))
    BY <2>3
  <2>5. attempt'[a].left = left /\ attempt'[a].target = attempt[a].target
    BY <2>1, <2>4, TriesNext, AdvancesIs
  <2>6. /\ attempt[a].left \in Seq(Host \X ToSet(Transports)) /\ attempt[a].left # <<>>
        /\ \A h \in ToSet(attempt[a].target.hosts) \cup ToSet(NameOf(attempt[a].target)),
             t \in ToSet(Transports) : <<h, t>> \in ToSet(attempt[a].left) \/ Bind[<<h, t>>] # {"ok"}
    BY <2>1, <2>5 DEF LeftInv
  <2>7. /\ left \in Seq(Host \X ToSet(Transports)) /\ left # <<>>
        /\ \A x \in ToSet(attempt[a].left) : x = Head(attempt[a].left) \/ x \in ToSet(left)
    BY <2>3, <2>4, <2>6, LeftToTry
  <2>8. Bind[Head(attempt[a].left)] # {"ok"}
    BY <2>3
  <2> QED BY <2>5, <2>6, <2>7, <2>8
<1> QED BY <1>1, <1>2, <1>3, ComesToBind

(* The last candidate failed, unless the session is in or the ticket is     *)
(* refused.                                                                *)
LEMMA SearchEnds ==
  ASSUME AttemptInv, NEW a \in Attempt, BindTo(a), attempt'[a].step = "ended",
         attempt'[a].why # "signed in", attempt'[a].why # "refused"
  PROVE  \E verdict \in Bind[Head(attempt[a].left)] : verdict # "ok" /\ Len(attempt[a].left) = 1
<1>3. IsSignIn(attempt[a]) /\ attempt[a].step = "bind"
  BY DEF AttemptInv, BindTo, InStep
<1>1. ~ Advances(a, EndSignIn("signed in")) /\ ~ Advances(a, EndSignIn("refused"))
  <2>1. EndSignIn("signed in").why = "signed in" /\ EndSignIn("refused").why = "refused"
    BY DEF EndSignIn
  <2> QED BY <2>1, AdvancesIs
<1>2. \A heard : ~ Advances(a, TryNext(attempt[a], heard))
  <2>1. \A heard : TryNext(attempt[a], heard).step = "bind"
    BY <1>3, TriesNext
  <2> QED BY <2>1, AdvancesIs
<1> QED BY <1>1, <1>2, BindIs

(* An empty list holds nothing.                                            *)
LEMMA NothingInEmpty == ToSet(<<>>) = {}
  BY DEF ToSet

(* A search that ends for want of a controller has failed at each of them. *)
LEMMA FallsOverStep ==
  ASSUME AttemptInv, LeftInv, [SignInNext]_signInVars, NEW a \in Attempt,
         InStep(a, "bind"), attempt'[a].step = "ended",
         attempt'[a].why \in {"name unknown", "no logon servers", "unreachable"},
         NEW h \in ToSet(attempt[a].target.hosts) \cup ToSet(NameOf(attempt[a].target)), NEW t \in ToSet(Transports)
  PROVE  Bind[<<h, t>>] # {"ok"}
<1>1. attempt'[a] # attempt[a]
  BY DEF InStep
<1>2. BindTo(a)
  <2>1. ~ (Tick \/ UNCHANGED signInVars)
    BY <1>1 DEF Tick, signInVars
  <2>2. ASSUME NEW b \in Attempt, \E op : Advances(b, op) PROVE b = a
    BY <1>1, <2>2, AdvancesIs
  <2>3. PICK b \in Attempt : \/ BeginSignIn(b) \/ Limit(b) \/ FindTarget(b) \/ Probe(b) \/ CheckThrottle(b)
                             \/ Register(b) \/ Kinit(b) \/ BindTo(b)
    BY <2>1 DEF SignInNext
  <2>4. \E op : Advances(b, op)
    <3>1. CASE Kinit(b) \/ BindTo(b)
      BY <3>1, KinitIs, BindIs
    <3>2. CASE BeginSignIn(b) \/ Limit(b) \/ FindTarget(b) \/ Probe(b) \/ CheckThrottle(b) \/ Register(b)
      BY <3>2 DEF BeginSignIn, Limit, FindTarget, Probe, CheckThrottle, Register
    <3> QED BY <2>3, <3>1, <3>2
  <2>5. b = a
    BY <2>2, <2>4
  <2> QED BY <2>3, <2>5 DEF InStep, BeginSignIn, Limit, FindTarget, Probe, CheckThrottle, Register, Kinit
<1>3. IsSignIn(attempt[a]) /\ attempt[a].step = "bind"
  BY DEF AttemptInv, InStep
<1>4. CASE attempt[a].target.hosts = <<>>
  <2>1. attempt[a].target.name = NoName
    BY <1>3, <1>4 DEF IsSignIn
  <2> QED BY <1>4, <2>1, NothingInEmpty DEF NameOf
<1>5. CASE attempt[a].target.hosts # <<>>
  <2>3. PICK verdict \in Bind[Head(attempt[a].left)] : verdict # "ok" /\ Len(attempt[a].left) = 1
    BY <1>2, SearchEnds
  <2>4. /\ attempt[a].left \in Seq(Host \X ToSet(Transports)) /\ attempt[a].left # <<>>
        /\ <<h, t>> \in ToSet(attempt[a].left) \/ Bind[<<h, t>>] # {"ok"}
    BY <1>5 DEF LeftInv
  <2>5. \A x \in ToSet(attempt[a].left) : x = Head(attempt[a].left)
    BY <2>3, <2>4, LeftToTry
  <2>6. Bind[Head(attempt[a].left)] # {"ok"}
    BY <2>3
  <2> QED BY <2>4, <2>5, <2>6
<1> QED BY <1>4, <1>5

---------------------------------------------------------------------------
(* The rate limiter.                                                       *)

(* What Recent drops is out of the window, and it keeps the rest.          *)
LEMMA RecentIs ==
  ASSUME now \in Nat, NEW times \in Seq(0..now)
  PROVE  \E d \in 0..Len(times) :
           /\ Recent(times) \in Seq(0..now) /\ Len(Recent(times)) = Len(times) - d
           /\ \A i \in 1..Len(Recent(times)) : Recent(times)[i] = times[d + i]
           /\ \A i \in 1..d : now - times[i] > Window
<1>0. Window \in Nat /\ Len(times) \in Nat /\ DOMAIN times = 1..Len(times) /\ \A i \in 1..Len(times) : times[i] \in 0..now
  <2>1. Window \in Nat
    BY SignInConstants
  <2>2. Len(times) \in Nat /\ DOMAIN times = 1..Len(times) /\ \A i \in 1..Len(times) : times[i] \in 0..now
    OBVIOUS
  <2> QED BY <2>1, <2>2
<1>n. \A i \in 1..Len(times) : times[i] \in Nat
  BY <1>0
<1>1. PICK fresh : fresh = {i \in DOMAIN times : now - times[i] <= Window}
  OBVIOUS
<1>2. CASE fresh = {}
  <2>1. Recent(times) = <<>>
    BY <1>1, <1>2 DEF Recent
  <2>2. \A i \in 1..Len(times) : now - times[i] > Window
    <3>1. \A i \in 1..Len(times) : ~(now - times[i] <= Window)
      BY <1>0, <1>1, <1>2
    <3> QED BY <1>0, <1>n, <3>1
  <2>3. <<>> \in Seq(0..now) /\ Len(<<>>) = 0 /\ Len(times) \in 0..Len(times) /\ 0 = Len(times) - Len(times)
    BY <1>0
  <2>4. \A i \in 1..Len(<<>>) : <<>>[i] = times[Len(times) + i]
    BY <2>3
  <2> QED BY <2>1, <2>2, <2>3, <2>4
<1>3. CASE fresh # {}
  <2>1. fresh \in SUBSET Nat
    BY <1>0, <1>1
  <2>2. \E x \in fresh : \A y \in fresh : x <= y
    BY <1>3, <2>1, LeastNat
  <2>3. PICK f : f = Min(fresh)
    OBVIOUS
  <2>4. f \in fresh /\ \A y \in fresh : f <= y
    BY <2>2, <2>3 DEF Min
  <2>5. Recent(times) = SubSeq(times, f, Len(times))
    BY <1>1, <1>3, <2>3 DEF Recent
  <2>6. f \in 1..Len(times)
    BY <1>0, <1>1, <2>4
  <2>7. PICK rest : rest = SubSeq(times, f, Len(times))
    OBVIOUS
  <2>8. /\ rest \in Seq(0..now) /\ Len(rest) = Len(times) - (f - 1)
        /\ \A i \in 1..Len(rest) : rest[i] = times[(f - 1) + i]
    BY <1>0, <2>6, <2>7
  <2>9. \A i \in 1..(f - 1) : now - times[i] > Window
    <3> SUFFICES ASSUME NEW i \in 1..(f - 1) PROVE now - times[i] > Window
      OBVIOUS
    <3>1. PICK n \in Nat : n = Len(times)
      BY <1>0
    <3>2. i \in 1..n /\ i < f /\ ~(f <= i)
      BY <2>6, <3>1
    <3>3. ~(now - times[i] <= Window)
      BY <1>0, <1>1, <2>4, <3>1, <3>2
    <3> QED BY <1>0, <1>n, <3>1, <3>2, <3>3
  <2>10. f - 1 \in 0..Len(times)
    BY <1>0, <2>6
  <2> QED BY <2>5, <2>7, <2>8, <2>9, <2>10
<1> QED BY <1>2, <1>3

(* A bucket that has let go of what is out of the window.                  *)
LEMMA KeptRecent ==
  ASSUME now \in Nat, NEW bucket, NEW times \in Seq(0..now), Kept(bucket, times, now)
  PROVE  Kept(Recent(bucket), times, now)
<1>0. Window \in Nat /\ MaxEvents \in Nat /\ Len(times) \in Nat /\ bucket \in Seq(0..now) /\ Len(bucket) \in Nat
      /\ Len(bucket) <= MaxEvents
  BY SignInConstants DEF Kept
<1>1. PICK m \in 0..Len(times) : Newest(bucket, times, m, now)
  BY DEF Kept
<1>2. PICK d, rest :
           /\ d \in 0..Len(bucket)
           /\ rest = Recent(bucket)
           /\ rest \in Seq(0..now) /\ Len(rest) = Len(bucket) - d
           /\ \A i \in 1..Len(rest) : rest[i] = bucket[d + i]
           /\ \A i \in 1..d : now - bucket[i] > Window
  BY <1>0, RecentIs
<1>3. /\ m + Len(bucket) = Len(times)
      /\ \A i \in 1..Len(bucket) : bucket[i] = times[m + i]
      /\ \A i \in 1..m : now - times[i] >= Window
  BY <1>1 DEF Newest
<1>4. m + d \in 0..Len(times) /\ (m + d) + Len(rest) = Len(times) /\ Len(rest) <= MaxEvents
  <2>1. PICK n \in Nat, b \in Nat, r \in Nat : n = Len(times) /\ b = Len(bucket) /\ r = Len(rest)
    <3>1. Len(rest) \in Nat
      BY <1>2
    <3> QED BY <1>0, <3>1
  <2>2. r = b - d /\ m + b = n /\ d \in 0..b /\ m \in 0..n /\ b <= MaxEvents
    BY <1>0, <1>2, <1>3, <2>1
  <2>3. m \in Nat /\ d \in Nat
    BY <2>1, <2>2
  <2>4. m + d \in 0..n /\ (m + d) + r = n
    BY <2>2, <2>3
  <2>5. r <= MaxEvents
    BY <1>0, <2>2, <2>3
  <2> QED BY <2>1, <2>4, <2>5
<1>5. \A i \in 1..Len(rest) : rest[i] = times[(m + d) + i]
  <2> SUFFICES ASSUME NEW i \in 1..Len(rest) PROVE rest[i] = times[(m + d) + i]
    OBVIOUS
  <2>1. d + i \in 1..Len(bucket) /\ m + (d + i) = (m + d) + i
    BY <1>0, <1>2
  <2> QED BY <1>2, <1>3, <2>1
<1>6. \A i \in 1..(m + d) : now - times[i] >= Window
  <2> SUFFICES ASSUME NEW i \in 1..(m + d) PROVE now - times[i] >= Window
    OBVIOUS
  <2>1. CASE i <= m
    BY <1>3, <2>1
  <2>2. CASE ~(i <= m)
    <3>1. i - m \in 1..d /\ i - m \in 1..Len(bucket) /\ m + (i - m) = i
      BY <1>0, <1>2, <2>2
    <3>2. bucket[i - m] = times[i] /\ now - bucket[i - m] > Window
      BY <1>2, <1>3, <3>1
    <3>3. times[i] \in Nat
      BY <1>0, <1>4
    <3> QED BY <1>0, <3>2, <3>3
  <2> QED BY <2>1, <2>2
<1>7. Newest(rest, times, m + d, now)
  BY <1>4, <1>5, <1>6 DEF Newest
<1> QED BY <1>2, <1>4, <1>7 DEF Kept

(* The bucket of a source that has none.                                   *)
LEMMA KeptEmpty ==
  ASSUME now \in Nat, NEW times \in Seq(0..now), Old(times, now)
  PROVE  Kept(<<>>, times, now)
<1>1. Newest(<<>>, times, Len(times), now)
  BY DEF Newest, Old
<1>2. MaxEvents \in Nat
  BY SignInConstants
<1> QED BY <1>1, <1>2 DEF Kept

(* A request let through.                                                  *)
LEMMA KeptAppend ==
  ASSUME now \in Nat, NEW bucket, NEW times \in Seq(0..now), Kept(bucket, times, now), Len(bucket) < MaxEvents,
         InOrder(times)
  PROVE  /\ Append(times, now) \in Seq(0..now) /\ InOrder(Append(times, now))
         /\ Kept(Append(bucket, now), Append(times, now), now)
<1>0. MaxEvents \in Nat /\ Len(times) \in Nat /\ bucket \in Seq(0..now) /\ Len(bucket) \in Nat /\ now \in 0..now
  BY SignInConstants DEF Kept
<1>1. PICK m \in 0..Len(times) : Newest(bucket, times, m, now)
  BY DEF Kept
<1>2. PICK longer, more : longer = Append(times, now) /\ more = Append(bucket, now)
  OBVIOUS
<1>3. /\ longer \in Seq(0..now) /\ Len(longer) = Len(times) + 1
      /\ \A i \in 1..Len(times) : longer[i] = times[i] /\ times[i] \in 0..now
      /\ longer[Len(times) + 1] = now
  BY <1>0, <1>2
<1>4. /\ more \in Seq(0..now) /\ Len(more) = Len(bucket) + 1
      /\ \A i \in 1..Len(bucket) : more[i] = bucket[i]
      /\ more[Len(bucket) + 1] = now
  BY <1>0, <1>2
<1>5. /\ m + Len(bucket) = Len(times)
      /\ \A i \in 1..Len(bucket) : bucket[i] = times[m + i]
      /\ \A i \in 1..m : now - times[i] >= Window
  BY <1>1 DEF Newest
<1>6. InOrder(longer)
  <2> SUFFICES ASSUME NEW i \in 1..(Len(times) + 1), NEW j \in 1..(Len(times) + 1), i <= j PROVE longer[i] <= longer[j]
    BY <1>3 DEF InOrder
  <2>1. CASE j <= Len(times)
    <3>1. i \in 1..Len(times) /\ j \in 1..Len(times)
      BY <1>0, <2>1
    <3> QED BY <1>3, <3>1 DEF InOrder
  <2>2. CASE ~(j <= Len(times))
    <3>1. j = Len(times) + 1
      BY <1>0, <2>2
    <3>2. longer[i] \in 0..now
      BY <1>3
    <3> QED BY <1>3, <3>1, <3>2
  <2> QED BY <2>1, <2>2
<1>7. Newest(more, longer, m, now)
  <2>1. m + Len(more) = Len(longer)
    BY <1>0, <1>3, <1>4, <1>5
  <2>2. ASSUME NEW i \in 1..Len(more) PROVE more[i] = longer[m + i]
    <3>1. CASE i <= Len(bucket)
      <4>1. i \in 1..Len(bucket) /\ m + i \in 1..Len(times)
        BY <1>0, <1>5, <3>1
      <4> QED BY <1>3, <1>4, <1>5, <4>1
    <3>2. CASE ~(i <= Len(bucket))
      <4>0. PICK n \in Nat, b \in Nat : n = Len(times) /\ b = Len(bucket)
        BY <1>0
      <4>2. i \in 1..(b + 1) /\ ~(i <= b) /\ m + b = n
        BY <1>4, <1>5, <3>2, <4>0
      <4>4. m \in Nat /\ b \in Nat /\ n \in Nat
        BY <1>0, <4>0
      <4>5. i = b + 1
        BY ONLY <4>2, <4>4
      <4>3. i = b + 1 /\ m + i = n + 1
        BY ONLY <4>2, <4>4, <4>5
      <4>1. i = Len(bucket) + 1 /\ m + i = Len(times) + 1
        BY <4>0, <4>3
      <4> QED BY <1>3, <1>4, <4>1
    <3> QED BY <3>1, <3>2
  <2>3. \A i \in 1..m : now - longer[i] >= Window
    <3> SUFFICES ASSUME NEW i \in 1..m PROVE now - longer[i] >= Window
      OBVIOUS
    <3>1. i \in 1..Len(times)
      BY <1>0
    <3> QED BY <1>3, <1>5, <3>1
  <2> QED BY <2>1, <2>2, <2>3 DEF Newest
<1>8. m \in 0..Len(longer) /\ Len(more) <= MaxEvents
  BY <1>0, <1>3, <1>4
<1> QED BY <1>2, <1>3, <1>4, <1>6, <1>7, <1>8 DEF Kept

(* A bucket that Forget drops had nothing to remember.                     *)
LEMMA KeptForgets ==
  ASSUME now \in Nat, NEW bucket, NEW times \in Seq(0..now), Kept(bucket, times, now), InOrder(times),
         bucket = <<>> \/ Last(bucket) <= now - Window
  PROVE  Old(times, now)
<1>0. Window \in Nat /\ Len(times) \in Nat /\ bucket \in Seq(0..now) /\ Len(bucket) \in Nat
  BY SignInConstants DEF Kept
<1>1. PICK m \in 0..Len(times) : Newest(bucket, times, m, now)
  BY DEF Kept
<1>2. /\ m + Len(bucket) = Len(times)
      /\ \A i \in 1..Len(bucket) : bucket[i] = times[m + i]
      /\ \A i \in 1..m : now - times[i] >= Window
  BY <1>1 DEF Newest
<1>3. CASE bucket = <<>>
  BY <1>0, <1>2, <1>3 DEF Old
<1>4. CASE bucket # <<>>
  <2>1. Len(bucket) > 0 /\ Last(bucket) = bucket[Len(bucket)] /\ Last(bucket) <= now - Window
    BY <1>0, <1>4 DEF Last
  <2>2. Last(bucket) = times[Len(times)] /\ Len(times) \in 1..Len(times)
    <3>1. Len(bucket) \in 1..Len(bucket)
      BY <1>0, <2>1
    <3>2. bucket[Len(bucket)] = times[m + Len(bucket)]
      BY <1>2, <3>1
    <3>3. Len(times) > 0
      BY <1>0, <1>2, <2>1
    <3>4. times[m + Len(bucket)] = times[Len(times)]
      BY <1>2
    <3>5. Last(bucket) = times[Len(times)]
      BY <2>1, <3>2, <3>4
    <3> QED BY <1>0, <3>3, <3>5
  <2>3. \A i \in 1..Len(times) : times[i] <= times[Len(times)] /\ times[i] \in Nat
    BY <1>0, <2>2 DEF InOrder
  <2>4. times[Len(times)] <= now - Window
    BY <2>1, <2>2
  <2> QED BY <1>0, <2>2, <2>3, <2>4 DEF Old
<1> QED BY <1>3, <1>4

(* The entries of a sequence.                                              *)
LEMMA EntriesOf ==
  ASSUME NEW S, NEW s \in Seq(S)
  PROVE  Len(s) \in Nat /\ DOMAIN s = 1..Len(s) /\ \A i \in 1..Len(s) : s[i] \in S
  OBVIOUS

(* As time passes.                                                         *)
LEMMA KeptLater ==
  ASSUME now \in Nat, NEW bucket, NEW times \in Seq(0..now)
  PROVE  /\ times \in Seq(0..(now + 1)) /\ Old(times, now) => Old(times, now + 1)
         /\ Kept(bucket, times, now) => Kept(bucket, times, now + 1)
<1>0. Window \in Nat /\ Len(times) \in Nat /\ 0..now \subseteq 0..(now + 1)
  BY SignInConstants
<1>1. \A i \in 1..Len(times) : times[i] \in Nat
  OBVIOUS
<1>2. \A s \in Seq(0..now) : s \in Seq(0..(now + 1))
  BY <1>0
<1>3. \A i \in 1..Len(times) : now - times[i] >= Window => (now + 1) - times[i] >= Window
  BY <1>0, <1>1
<1>4. ASSUME Kept(bucket, times, now) PROVE Kept(bucket, times, now + 1)
  <2>1. PICK m \in 0..Len(times) : Newest(bucket, times, m, now)
    BY <1>4 DEF Kept
  <2>2. \A i \in 1..m : i \in 1..Len(times)
    BY <1>0
  <2>3. Newest(bucket, times, m, now + 1)
    BY <1>3, <2>1, <2>2 DEF Newest
  <2> QED BY <1>2, <1>4, <2>3 DEF Kept
<1> QED BY <1>2, <1>3, <1>4 DEF Old

(* What the rate limit does with the buckets.                              *)
LEMMA LimitKeeps ==
  ASSUME AttemptInv, RateInv, NEW a \in Attempt, Limit(a)
  PROVE  RateInv'
<1>0. now \in Nat /\ now' = now /\ MaxEvents \in Nat \ {0}
  <2>1. now \in Nat /\ MaxEvents \in Nat \ {0}
    BY SignInConstants DEF AttemptInv
  <2>2. now' = now
    BY DEF Limit
  <2> QED BY <2>1, <2>2
<1>1. PICK s, bucket : /\ s = attempt[a].source
                       /\ bucket = IF s \in DOMAIN events THEN Recent(events[s]) ELSE <<>>
  OBVIOUS
<1>2. s \in Source \cup {NoSource}
  BY <1>1 DEF Limit, InStep, AttemptInv, IsSignIn
<1>3. /\ let \in [Source \cup {NoSource} -> Seq(0..now)] /\ DOMAIN events \subseteq Source \cup {NoSource}
      /\ \A x \in Source \cup {NoSource} :
           /\ let[x] \in Seq(0..now) /\ InOrder(let[x])
           /\ x \notin DOMAIN events => Old(let[x], now)
           /\ x \in DOMAIN events => Kept(events[x], let[x], now)
  BY DEF RateInv
<1>4. Kept(bucket, let[s], now) /\ bucket \in Seq(0..now) /\ Len(bucket) \in Nat
  <2>1. ASSUME s \in DOMAIN events PROVE Kept(bucket, let[s], now)
    <3>1. let[s] \in Seq(0..now) /\ Kept(events[s], let[s], now)
      BY <1>2, <1>3, <2>1
    <3>2. Kept(Recent(events[s]), let[s], now)
      BY <1>0, <3>1, KeptRecent
    <3>3. bucket = Recent(events[s])
      BY <1>1, <2>1
    <3> QED BY <3>2, <3>3, Zenon
  <2>2. ASSUME s \notin DOMAIN events PROVE Kept(bucket, let[s], now)
    BY <1>0, <1>1, <1>2, <1>3, <2>2, KeptEmpty
  <2>3. Kept(bucket, let[s], now)
    BY <2>1, <2>2
  <2>4. bucket \in Seq(0..now)
    BY <2>3 DEF Kept
  <2>5. Len(bucket) \in Nat
    BY <2>4, EntriesOf
  <2> QED BY <2>3, <2>4, <2>5
<1>5. CASE Len(bucket) >= MaxEvents
  <2>1. events' = With(events, s, bucket) /\ let' = let
    BY <1>1, <1>5 DEF Limit
  <2>2. /\ DOMAIN events' = DOMAIN events \cup {s} /\ events' = [x \in DOMAIN events' |-> events'[x]]
        /\ events'[s] = bucket /\ \A x \in DOMAIN events : x # s => events'[x] = events[x]
    BY <2>1 DEF With
  <2>3. \A x \in DOMAIN events' : Kept(events'[x], let[x], now)
    BY <1>3, <1>4, <2>2
  <2>4. DOMAIN events' \subseteq Source \cup {NoSource}
    BY <1>2, <1>3, <2>2
  <2>5. \A x \in Source \cup {NoSource} : x \notin DOMAIN events' => Old(let[x], now)
    BY <1>3, <2>2
  <2> QED BY <1>0, <1>3, <2>1, <2>2, <2>3, <2>4, <2>5 DEF RateInv
<1>6. CASE ~(Len(bucket) >= MaxEvents)
  <2>1. PICK es : es = With(events, s, Append(bucket, now))
    OBVIOUS
  <2>2. events' = Forget(es) /\ let' = [let EXCEPT ![s] = Append(let[s], now)]
    BY <1>1, <1>6, <2>1 DEF Limit
  <2>3. /\ DOMAIN es = DOMAIN events \cup {s} /\ es = [x \in DOMAIN es |-> es[x]]
        /\ es[s] = Append(bucket, now) /\ \A x \in DOMAIN events : x # s => es[x] = events[x]
    BY <2>1 DEF With
  <2>4. /\ Append(let[s], now) \in Seq(0..now) /\ InOrder(Append(let[s], now))
        /\ Kept(Append(bucket, now), Append(let[s], now), now)
    <3>1. Len(bucket) < MaxEvents
      BY <1>0, <1>4, <1>6
    <3> QED BY <1>0, <1>2, <1>3, <1>4, <3>1, KeptAppend
  <2>5. /\ let' \in [Source \cup {NoSource} -> Seq(0..now)]
        /\ let'[s] = Append(let[s], now) /\ \A x \in Source \cup {NoSource} : x # s => let'[x] = let[x]
    BY <1>2, <1>3, <2>2, <2>4
  <2>6. \A x \in Source \cup {NoSource} : let'[x] \in Seq(0..now) /\ InOrder(let'[x])
    BY <1>3, <2>4, <2>5
  <2>7. \A x \in DOMAIN es : x \in Source \cup {NoSource} /\ Kept(es[x], let'[x], now)
    BY <1>2, <1>3, <2>3, <2>4, <2>5
  <2>8. \A x \in Source \cup {NoSource} : x \notin DOMAIN es => Old(let'[x], now)
    BY <1>3, <2>3, <2>5
  <2>9. /\ DOMAIN events' \subseteq DOMAIN es /\ events' = [x \in DOMAIN events' |-> events'[x]]
        /\ \A x \in DOMAIN events' : events'[x] = es[x]
        /\ \A x \in DOMAIN es : x \notin DOMAIN events' => es[x] = <<>> \/ Last(es[x]) <= now - Window
    <3>1. events' = es \/ events' = [x \in DOMAIN es \ {y \in DOMAIN es : es[y] = <<>> \/ Last(es[y]) <= now - Window} |-> es[x]]
      BY <2>2 DEF Forget, Without
    <3>2. CASE events' = es
      BY <2>3, <3>2
    <3>3. CASE events' = [x \in DOMAIN es \ {y \in DOMAIN es : es[y] = <<>> \/ Last(es[y]) <= now - Window} |-> es[x]]
      BY <3>3
    <3> QED BY <3>1, <3>2, <3>3
  <2>10. \A x \in DOMAIN es : x \notin DOMAIN events' => Old(let'[x], now)
    <3> SUFFICES ASSUME NEW x \in DOMAIN es, x \notin DOMAIN events' PROVE Old(let'[x], now)
      OBVIOUS
    <3>1. es[x] = <<>> \/ Last(es[x]) <= now - Window
      BY <2>9
    <3>2. let'[x] \in Seq(0..now) /\ InOrder(let'[x]) /\ Kept(es[x], let'[x], now)
      BY <2>6, <2>7
    <3> QED BY <1>0, <3>1, <3>2, KeptForgets
  <2>11. \A x \in DOMAIN events' : Kept(events'[x], let'[x], now)
    BY <2>7, <2>9
  <2>12. \A x \in Source \cup {NoSource} : x \notin DOMAIN events' => Old(let'[x], now)
    BY <2>8, <2>10
  <2>13. DOMAIN events' \subseteq Source \cup {NoSource}
    BY <2>7, <2>9
  <2> QED BY <1>0, <2>5, <2>6, <2>9, <2>11, <2>12, <2>13 DEF RateInv
<1> QED BY <1>5, <1>6

(* Every step keeps each bucket the latest of its source.                  *)
LEMMA RateNext ==
  ASSUME AttemptInv, RateInv, [SignInNext]_signInVars
  PROVE  RateInv'
<1>1. ASSUME UNCHANGED <<now, events, let>> PROVE RateInv'
  BY <1>1 DEF RateInv
<1>2. CASE UNCHANGED signInVars
  BY <1>1, <1>2 DEF signInVars
<1>3. CASE Tick
  <2>1. now' = now + 1 /\ UNCHANGED <<events, let>> /\ now \in Nat
    BY <1>3, SignInConstants DEF Tick, AttemptInv
  <2>2. \A x \in Source \cup {NoSource} : let[x] \in Seq(0..now)
    BY DEF RateInv
  <2>3. \A x \in Source \cup {NoSource} : let[x] \in Seq(0..(now + 1))
    BY <2>1, <2>2, KeptLater
  <2>4. \A x \in Source \cup {NoSource} : Old(let[x], now) => Old(let[x], now + 1)
    BY <2>1, <2>2, KeptLater
  <2>5. \A x \in Source \cup {NoSource} : Kept(events[x], let[x], now) => Kept(events[x], let[x], now + 1)
    BY <2>1, <2>2, KeptLater
  <2>6. let \in [Source \cup {NoSource} -> Seq(0..(now + 1))]
    BY <2>3 DEF RateInv
  <2> QED BY <2>1, <2>4, <2>5, <2>6 DEF RateInv
<1>4. ASSUME NEW a \in Attempt,
             \/ BeginSignIn(a) \/ FindTarget(a) \/ Probe(a) \/ CheckThrottle(a)
             \/ Register(a) \/ Kinit(a) \/ BindTo(a)
      PROVE  UNCHANGED <<now, events, let>>
  <2>1. CASE BeginSignIn(a) \/ FindTarget(a) \/ Probe(a)
    BY <2>1 DEF BeginSignIn, FindTarget, Probe
  <2>2. CASE CheckThrottle(a) \/ Register(a)
    BY <2>2 DEF CheckThrottle, Register
  <2>3. CASE Kinit(a) \/ BindTo(a)
    BY <2>3, KinitIs, BindIs
  <2> QED BY <1>4, <2>1, <2>2, <2>3
<1> QED BY <1>1, <1>2, <1>3, <1>4, LimitKeeps DEF SignInNext

(* Within the window a source was let through no more often than its       *)
(* bucket holds.                                                           *)
LEMMA RateIsKept ==
  ASSUME AttemptInv, RateInv
  PROVE  RateKept
<1> SUFFICES ASSUME NEW s \in DOMAIN let
             PROVE  Cardinality({i \in DOMAIN let[s] : now - let[s][i] < Window}) <= MaxEvents
  BY DEF RateKept
<1>0. now \in Nat /\ Window \in Nat /\ MaxEvents \in Nat
  BY SignInConstants DEF AttemptInv
<1>1. s \in Source \cup {NoSource} /\ let[s] \in Seq(0..now)
  BY DEF RateInv
<1>2. PICK times : times = let[s]
  OBVIOUS
<1>3. /\ times \in Seq(0..now) /\ Len(times) \in Nat /\ DOMAIN times = 1..Len(times)
      /\ \A i \in 1..Len(times) : times[i] \in Nat
  <2>1. times \in Seq(0..now)
    BY <1>1, <1>2
  <2>2. \A i \in 1..Len(times) : times[i] \in 0..now
    BY <2>1, EntriesOf
  <2> QED BY <1>0, <2>1, <2>2
<1>4. PICK L : L = {i \in DOMAIN times : now - times[i] < Window}
  OBVIOUS
<1>5. CASE s \notin DOMAIN events
  <2>1. \A i \in 1..Len(times) : now - times[i] >= Window
    BY <1>1, <1>2, <1>5 DEF RateInv, Old
  <2>2. L = {}
    <3>1. \A i \in 1..Len(times) : ~(now - times[i] < Window)
      BY <1>0, <1>3, <2>1
    <3> QED BY <1>3, <1>4, <3>1
  <2>3. Cardinality(L) = 0
    BY <2>2, FS_EmptySet
  <2> QED BY <1>0, <1>2, <1>4, <2>3
<1>6. CASE s \in DOMAIN events
  <2>1. Kept(events[s], times, now)
    BY <1>1, <1>2, <1>6 DEF RateInv
  <2>2. PICK m \in 0..Len(times) : Newest(events[s], times, m, now)
    BY <2>1 DEF Kept
  <2>3. /\ m + Len(events[s]) = Len(times) /\ \A i \in 1..m : now - times[i] >= Window
        /\ Len(events[s]) <= MaxEvents
    BY <2>1, <2>2 DEF Newest, Kept
  <2>4. L \in SUBSET ((m + 1)..Len(times))
    <3> SUFFICES ASSUME NEW i \in 1..Len(times), now - times[i] < Window PROVE i \in (m + 1)..Len(times)
      BY <1>3, <1>4
    <3>1. ~(now - times[i] >= Window)
      BY <1>0, <1>3
    <3>2. i \notin 1..m
      BY <2>3, <3>1
    <3> QED BY <1>3, <3>2
  <2>5. IsFiniteSet((m + 1)..Len(times)) /\ Cardinality((m + 1)..Len(times)) <= MaxEvents
    <3>1. PICK n, b : n \in Nat /\ n = Len(times) /\ b = Len(events[s])
      BY <1>3
    <3>2. m + b = n /\ m \in 0..n /\ b <= MaxEvents /\ b \in Nat
      <4>1. b \in Nat
        BY <2>1, <3>1 DEF Kept
      <4> QED BY <2>3, <3>1, <4>1
    <3>3. n \in Nat
      BY <3>1
    <3>4. IsFiniteSet((m + 1)..n) /\ Cardinality((m + 1)..n) = IF m + 1 > n THEN 0 ELSE n - (m + 1) + 1
      BY <3>2, <3>3, FS_Interval
    <3> QED BY <1>0, <3>1, <3>2, <3>3, <3>4
  <2>6. Cardinality(L) <= Cardinality((m + 1)..Len(times)) /\ IsFiniteSet(L)
    BY <2>4, <2>5, FS_Subset
  <2> QED BY <1>0, <1>2, <1>4, <2>5, <2>6, FS_CardinalityType
<1> QED BY <1>5, <1>6

---------------------------------------------------------------------------
(* The wrong passwords an account sees.                                    *)

(* Who is past the throttle.                                               *)
LEMMA BeyondIs ==
  ASSUME AttemptInv, NEW acc
  PROVE  /\ IsFiniteSet(Beyond(acc)) /\ Cardinality(Beyond(acc)) \in Nat
         /\ Cardinality(Beyond(acc)) <= Cardinality(Attempt) /\ Cardinality(Attempt) \in Nat
<1>1. Beyond(acc) \in SUBSET Attempt /\ IsFiniteSet(Attempt)
  BY SignInConstants DEF Beyond
<1> QED BY <1>1, FS_Subset, FS_CardinalityType

(* How their number changes when one of them, or another, moves.           *)
LEMMA BeyondMoves ==
  ASSUME AttemptInv, NEW a \in Attempt, NEW op, Advances(a, op), NEW acc
  PROVE  /\ Cardinality(Beyond(acc)') \in Nat /\ Cardinality(Beyond(acc)') <= Cardinality(Attempt)
         /\ op.step \notin Past => Cardinality(Beyond(acc)') <= Cardinality(Beyond(acc))
         /\ op.step \notin Past /\ a \in Beyond(acc) =>
              Cardinality(Beyond(acc)') = Cardinality(Beyond(acc)) - 1 /\ Cardinality(Beyond(acc)) >= 1
         /\ attempt[a].step \in Past /\ op.login = attempt[a].login =>
              Cardinality(Beyond(acc)') <= Cardinality(Beyond(acc))
<1>1. attempt'[a] = op /\ \A b \in Attempt : b # a => attempt'[b] = attempt[b]
  BY AdvancesIs
<1>2. /\ IsFiniteSet(Beyond(acc)) /\ Cardinality(Beyond(acc)) \in Nat
      /\ Cardinality(Attempt) \in Nat /\ IsFiniteSet(Attempt)
  BY BeyondIs, SignInConstants
<1>3. PICK B, C : B = Beyond(acc) /\ C = Beyond(acc)'
  OBVIOUS
<1>4. /\ B = {b \in Attempt : attempt[b].step \in Past /\ AccountOf[attempt[b].login] = acc}
      /\ C = {b \in Attempt : attempt'[b].step \in Past /\ AccountOf[attempt'[b].login] = acc}
  BY <1>3 DEF Beyond
<1>5. C \in SUBSET Attempt
  BY <1>4
<1>6. Cardinality(C) \in Nat /\ Cardinality(C) <= Cardinality(Attempt)
  BY <1>2, <1>5, FS_Subset, FS_CardinalityType
<1>7. ASSUME op.step \notin Past PROVE C = B \ {a}
  BY <1>1, <1>4, <1>7
<1>8. ASSUME op.step \notin Past PROVE Cardinality(C) <= Cardinality(B)
  <2>1. C \in SUBSET B
    BY <1>7, <1>8
  <2> QED BY <1>2, <1>3, <2>1, FS_Subset
<1>9. ASSUME op.step \notin Past, a \in B PROVE Cardinality(C) = Cardinality(B) - 1 /\ Cardinality(B) >= 1
  <2>1. Cardinality(B \ {a}) = Cardinality(B) - 1
    BY <1>2, <1>3, <1>9, FS_RemoveElement
  <2>2. Cardinality(B) # 0
    BY <1>2, <1>3, <1>9, FS_EmptySet
  <2> QED BY <1>2, <1>3, <1>7, <1>9, <2>1, <2>2
<1>10. ASSUME attempt[a].step \in Past, op.login = attempt[a].login PROVE Cardinality(C) <= Cardinality(B)
  <2>1. C \in SUBSET B
    BY <1>1, <1>4, <1>10
  <2> QED BY <1>2, <1>3, <2>1, FS_Subset
<1> QED BY <1>3, <1>6, <1>8, <1>9, <1>10

(* The counter of an account whose last wrong password is recent.          *)
LEMMA StillCounted ==
  ASSUME AttemptInv, CountInv, TriedInv, NEW acc \in Acc, ~Over(acc), tried[acc] # <<>>
  PROVE  /\ Key(acc) \in DOMAIN failures /\ ~Lapsed(failures[Key(acc)])
         /\ failures[Key(acc)].count \in Nat /\ failures[Key(acc)].last \in 0..now
         /\ Last(tried[acc]) \in 0..now /\ Len(tried[acc]) \in Nat \ {0}
<1>1. now \in Nat /\ Lockout \in Nat
  BY SignInConstants DEF AttemptInv
<1>2. Key(acc) \in DOMAIN failures /\ failures[Key(acc)].last >= Last(tried[acc])
  BY DEF TriedInv, IsCounted
<1>3. failures[Key(acc)].count \in Nat /\ failures[Key(acc)].last \in 0..now
  BY <1>2 DEF CountInv
<1>4. PICK times : times = tried[acc]
  OBVIOUS
<1>5. times \in Seq(0..now) /\ times # <<>>
  BY <1>4 DEF TriedInv
<1>6. Len(times) \in Nat \ {0} /\ Last(times) \in 0..now
  <2>1. Len(times) \in Nat /\ DOMAIN times = 1..Len(times) /\ \A i \in 1..Len(times) : times[i] \in 0..now
    BY <1>5, EntriesOf
  <2>2. Len(times) # 0
    BY <1>5
  <2> QED BY <2>1, <2>2 DEF Last
<1>7. ~(now - Last(times) > Lockout)
  BY <1>4, <1>5 DEF Over
<1>8. ~(now - failures[Key(acc)].last > Lockout)
  BY <1>1, <1>2, <1>3, <1>4, <1>6, <1>7
<1> QED BY <1>2, <1>3, <1>4, <1>6, <1>8 DEF Lapsed

(* An account that sees no wrong password, whose counter only grows.       *)
LEMMA AccKept ==
  ASSUME AttemptInv, CountInv, TriedInv, NEW acc \in Acc, now' = now, tried'[acc] = tried[acc],
         Cardinality(Beyond(acc)') \in Nat, Cardinality(Beyond(acc)') <= Cardinality(Beyond(acc)),
         ~Over(acc) /\ tried[acc] # <<>> =>
           /\ Key(acc) \in DOMAIN failures'
           /\ failures'[Key(acc)].count \in Nat /\ failures'[Key(acc)].count >= failures[Key(acc)].count
           /\ failures'[Key(acc)].last \in Nat /\ failures'[Key(acc)].last >= failures[Key(acc)].last
  PROVE  Len(tried'[acc]) <= MostTried /\ (Over(acc)' \/ IsCounted(acc)')
<1>1. Len(tried[acc]) <= MostTried /\ (Over(acc) \/ IsCounted(acc))
  BY DEF TriedInv
<1>2. Over(acc)' <=> Over(acc)
  BY DEF Over
<1>3. CASE Over(acc)
  BY <1>1, <1>2, <1>3
<1>4. CASE ~Over(acc)
  <2>1. IsCounted(acc)
    BY <1>1, <1>4
  <2>2. Len(tried[acc]) \in Nat
    <3>1. tried[acc] \in Seq(0..now)
      BY DEF TriedInv
    <3> QED BY <3>1, EntriesOf
  <2>3. MostTried \in Int /\ Cardinality(Beyond(acc)) \in Nat
    BY BeyondIs, SignInConstants DEF MostTried
  <2>4. Len(tried'[acc]) + Cardinality(Beyond(acc)') <= MostTried
    BY <2>1, <2>2, <2>3 DEF IsCounted
  <2>5. ASSUME tried[acc] # <<>>
        PROVE  /\ Key(acc) \in DOMAIN failures' /\ failures'[Key(acc)].count >= Len(tried[acc])
               /\ failures'[Key(acc)].last >= Last(tried[acc])
    <3>1. /\ failures[Key(acc)].count \in Nat /\ failures[Key(acc)].last \in Nat /\ Last(tried[acc]) \in Nat
      BY <1>4, <2>5, StillCounted, SignInConstants DEF AttemptInv
    <3>2. failures[Key(acc)].count >= Len(tried[acc]) /\ failures[Key(acc)].last >= Last(tried[acc])
      BY <2>1, <2>5 DEF IsCounted
    <3> QED BY <1>4, <2>2, <2>5, <3>1, <3>2
  <2>6. IsCounted(acc)'
    BY <2>4, <2>5 DEF IsCounted, Key
  <2> QED BY <1>1, <2>6
<1> QED BY <1>3, <1>4

(* A recorded failure keeps the counters of the accounts that matter, and  *)
(* adds one to its own.                                                    *)
LEMMA FailureCounts ==
  ASSUME AttemptInv, CountInv, TriedInv, now' = now, NEW op, RecordFailure(op), NEW acc \in Acc
  PROVE  /\ ~Over(acc) /\ tried[acc] # <<>> =>
              /\ Key(acc) \in DOMAIN failures'
              /\ failures'[Key(acc)].count \in Nat /\ failures'[Key(acc)].count >= failures[Key(acc)].count
              /\ failures'[Key(acc)].last \in Nat /\ failures'[Key(acc)].last >= failures[Key(acc)].last
              /\ acc = AccountOf[op.login] => failures'[Key(acc)].count = failures[Key(acc)].count + 1
         /\ acc = AccountOf[op.login] => /\ Key(acc) \in DOMAIN failures' /\ failures'[Key(acc)].last = now
                                         /\ failures'[Key(acc)].count \in Nat \ {0}
<1>1. now \in Nat /\ Counters(failures)
  BY SignInConstants DEF AttemptInv, CountInv, Counters
<1>2. /\ Counters(failures)'
      /\ \A k \in Keys(op) :
           /\ k \in DOMAIN failures' /\ failures'[k].last = now
           /\ k \in DOMAIN failures /\ ~Lapsed(failures[k]) => failures'[k].count = failures[k].count + 1
      /\ \A k \in DOMAIN failures \ Keys(op) :
           ~Lapsed(failures[k]) => k \in DOMAIN failures' /\ failures'[k] = failures[k]
  BY <1>1, FailureRecorded
<1>3. acc = AccountOf[op.login] => Key(acc) \in Keys(op)
  BY DEF Keys, Key
<1>4. \A k \in DOMAIN failures' : failures'[k].count \in Nat \ {0} /\ failures'[k].last \in Nat
  BY <1>1, <1>2 DEF Counters
<1>5. ASSUME ~Over(acc), tried[acc] # <<>>
      PROVE  /\ Key(acc) \in DOMAIN failures'
             /\ failures'[Key(acc)].count \in Nat /\ failures'[Key(acc)].count >= failures[Key(acc)].count
             /\ failures'[Key(acc)].last \in Nat /\ failures'[Key(acc)].last >= failures[Key(acc)].last
             /\ acc = AccountOf[op.login] => failures'[Key(acc)].count = failures[Key(acc)].count + 1
  <2>1. /\ Key(acc) \in DOMAIN failures /\ ~Lapsed(failures[Key(acc)])
        /\ failures[Key(acc)].count \in Nat /\ failures[Key(acc)].last \in 0..now
    BY <1>5, StillCounted
  <2>2. CASE Key(acc) \in Keys(op)
    BY <1>1, <1>2, <1>4, <2>1, <2>2
  <2>3. CASE Key(acc) \notin Keys(op)
    BY <1>1, <1>2, <1>3, <2>1, <2>3
  <2> QED BY <2>2, <2>3
<1> QED BY <1>2, <1>3, <1>4, <1>5

(* A step that sees no wrong password and lets no one past the throttle.   *)
LEMMA TriedKept ==
  ASSUME AttemptInv, CountInv, TriedInv, now' = now, tried' = tried,
         \A acc \in Acc : Cardinality(Beyond(acc)') \in Nat /\ Cardinality(Beyond(acc)') <= Cardinality(Beyond(acc)),
         failures' = failures \/ \E op : RecordFailure(op)
  PROVE  TriedInv'
<1>1. ASSUME NEW acc \in Acc, ~Over(acc), tried[acc] # <<>>
      PROVE  /\ Key(acc) \in DOMAIN failures'
             /\ failures'[Key(acc)].count \in Nat /\ failures'[Key(acc)].count >= failures[Key(acc)].count
             /\ failures'[Key(acc)].last \in Nat /\ failures'[Key(acc)].last >= failures[Key(acc)].last
  <2>1. CASE failures' = failures
    <3>1. /\ Key(acc) \in DOMAIN failures /\ failures[Key(acc)].count \in Nat /\ failures[Key(acc)].last \in Nat
      BY <1>1, StillCounted, SignInConstants DEF AttemptInv
    <3> QED BY <2>1, <3>1
  <2>2. CASE \E op : RecordFailure(op)
    BY <1>1, <2>2, FailureCounts
  <2> QED BY <2>1, <2>2
<1>2. \A acc \in Acc : Len(tried'[acc]) <= MostTried /\ (Over(acc)' \/ IsCounted(acc)')
  BY <1>1, AccKept
<1>3. tried' \in [Acc -> Seq(0..now')]
  BY DEF TriedInv
<1> QED BY <1>2, <1>3 DEF TriedInv

(* What the throttle lets past it has room for.                            *)
LEMMA CheckThrottleTried ==
  ASSUME AttemptInv, CountInv, TriedInv, NEW a \in Attempt, CheckThrottle(a)
  PROVE  TriedInv'
<1>0. MaxAttempts \in Nat \ {0}
  BY SignInConstants
<1>1. PICK lapsed, op :
        /\ lapsed = {k \in Keys(attempt[a]) \cap DOMAIN failures : Lapsed(failures[k])}
        /\ failures' = Without(failures, lapsed) /\ Advances(a, op)
        /\ op = IF \E k \in (Keys(attempt[a]) \cap DOMAIN failures) \ lapsed : failures[k].count >= MaxAttempts
                THEN EndSignIn("throttled") ELSE To(attempt[a], "register")
        /\ UNCHANGED <<now, tried>> /\ InStep(a, "throttle")
  BY DEF CheckThrottle
<1>2. IsSignIn(attempt[a]) /\ attempt[a].step = "throttle"
  BY <1>1 DEF InStep, AttemptInv
<1>3. /\ DOMAIN failures' = DOMAIN failures \ lapsed /\ \A k \in DOMAIN failures' : failures'[k] = failures[k]
  BY <1>1 DEF Without
<1>4. ASSUME NEW acc \in Acc, ~Over(acc), tried[acc] # <<>>
      PROVE  /\ Key(acc) \in DOMAIN failures' /\ failures'[Key(acc)] = failures[Key(acc)]
             /\ failures[Key(acc)].count \in Nat /\ failures[Key(acc)].last \in Nat
             /\ Key(acc) \notin lapsed
  <2>1. /\ Key(acc) \in DOMAIN failures /\ ~Lapsed(failures[Key(acc)])
        /\ failures[Key(acc)].count \in Nat /\ failures[Key(acc)].last \in 0..now /\ now \in Nat
    BY <1>4, StillCounted, SignInConstants DEF AttemptInv
  <2>2. Key(acc) \notin lapsed
    BY <1>1, <2>1
  <2> QED BY <1>3, <2>1, <2>2
<1>5. ASSUME NEW acc \in Acc, Cardinality(Beyond(acc)') \in Nat,
             Cardinality(Beyond(acc)') <= Cardinality(Beyond(acc))
      PROVE  Len(tried'[acc]) <= MostTried /\ (Over(acc)' \/ IsCounted(acc)')
  <2>1. ASSUME ~Over(acc), tried[acc] # <<>>
        PROVE  /\ Key(acc) \in DOMAIN failures'
               /\ failures'[Key(acc)].count \in Nat /\ failures'[Key(acc)].count >= failures[Key(acc)].count
               /\ failures'[Key(acc)].last \in Nat /\ failures'[Key(acc)].last >= failures[Key(acc)].last
    <3>1. /\ Key(acc) \in DOMAIN failures' /\ failures'[Key(acc)] = failures[Key(acc)]
          /\ failures[Key(acc)].count \in Nat /\ failures[Key(acc)].last \in Nat
      BY <1>4, <2>1
    <3> QED BY <3>1
  <2> QED BY <1>1, <1>5, <2>1, AccKept
<1>6. ASSUME NEW acc \in Acc
      PROVE  Len(tried'[acc]) <= MostTried /\ (Over(acc)' \/ IsCounted(acc)')
  <2>1. Cardinality(Beyond(acc)') \in Nat /\ Cardinality(Beyond(acc)') <= Cardinality(Attempt)
    BY <1>1, BeyondMoves
  <2>2. CASE op.step \notin Past
    BY <1>1, <1>5, <2>1, <2>2, BeyondMoves
  <2>3. CASE op.step \in Past /\ AccountOf[attempt[a].login] # acc
    <3>1. op = To(attempt[a], "register")
      BY <1>1, <2>3 DEF EndSignIn, Past
    <3>2. op.login = attempt[a].login
      BY <1>2, <3>1 DEF To, IsSignIn
    <3>3. attempt'[a] = op /\ \A b \in Attempt : b # a => attempt'[b] = attempt[b]
      BY <1>1, AdvancesIs
    <3>4. Beyond(acc)' \in SUBSET Beyond(acc)
      BY <2>3, <3>2, <3>3 DEF Beyond
    <3>5. Cardinality(Beyond(acc)') <= Cardinality(Beyond(acc))
      BY <3>4, BeyondIs, FS_Subset
    <3> QED BY <1>5, <2>1, <3>5
  <2>4. CASE op.step \in Past /\ AccountOf[attempt[a].login] = acc
    <3>1. ~ \E k \in (Keys(attempt[a]) \cap DOMAIN failures) \ lapsed : failures[k].count >= MaxAttempts
      BY <1>1, <2>4 DEF EndSignIn, Past
    <3>2. Key(acc) \in Keys(attempt[a])
      BY <2>4 DEF Keys, Key
    <3>3. Len(tried[acc]) <= MostTried /\ (Over(acc) \/ IsCounted(acc)) /\ tried[acc] \in Seq(0..now)
      BY DEF TriedInv
    <3>4. Len(tried[acc]) \in Nat /\ Cardinality(Attempt) \in Nat
      BY <3>3, EntriesOf, BeyondIs
    <3>5. Over(acc)' <=> Over(acc)
      BY <1>1 DEF Over
    <3>6. CASE Over(acc)
      BY <1>1, <3>3, <3>5, <3>6
    <3>7. CASE ~Over(acc) /\ tried[acc] = <<>>
      <4>1. Len(tried'[acc]) = 0
        BY <1>1, <3>7
      <4>2. Len(tried'[acc]) + Cardinality(Beyond(acc)') <= MostTried
        BY <1>0, <2>1, <3>4, <4>1 DEF MostTried
      <4>3. IsCounted(acc)'
        BY <1>1, <3>7, <4>2 DEF IsCounted
      <4> QED BY <1>1, <3>3, <4>3
    <3>8. CASE ~Over(acc) /\ tried[acc] # <<>>
      <4>1. /\ Key(acc) \in DOMAIN failures' /\ failures'[Key(acc)] = failures[Key(acc)]
            /\ failures[Key(acc)].count \in Nat /\ Key(acc) \notin lapsed
        BY <1>4, <3>8
      <4>2. Key(acc) \in DOMAIN failures
        BY <3>8, StillCounted
      <4>3. ~(failures[Key(acc)].count >= MaxAttempts)
        BY <3>1, <3>2, <4>1, <4>2
      <4>4. failures[Key(acc)].count >= Len(tried[acc]) /\ failures[Key(acc)].last >= Last(tried[acc])
        BY <3>3, <3>8 DEF IsCounted
      <4>5. Len(tried[acc]) <= MaxAttempts - 1
        BY <1>0, <3>4, <4>1, <4>3, <4>4
      <4>6. Len(tried'[acc]) + Cardinality(Beyond(acc)') <= MostTried
        BY <1>0, <1>1, <2>1, <3>4, <4>5 DEF MostTried
      <4>7. IsCounted(acc)'
        BY <1>1, <4>1, <4>4, <4>6 DEF IsCounted, Key
      <4> QED BY <1>1, <3>3, <4>7
    <3> QED BY <3>6, <3>7, <3>8
  <2> QED BY <2>2, <2>3, <2>4
<1>7. tried' \in [Acc -> Seq(0..now')]
  BY <1>1 DEF TriedInv
<1> QED BY <1>6, <1>7 DEF TriedInv

(* A wrong password is counted, for its account and for no other.          *)
LEMMA WrongTried ==
  ASSUME AttemptInv, CountInv, TriedInv, NEW a \in Attempt, InStep(a, "kinit"), now' = now,
         NEW op, Advances(a, op), op.step \notin Past,
         RecordFailure(attempt[a]), Tries(AccountOf[attempt[a].login])
  PROVE  TriedInv'
<1>1. PICK mine, times : mine \in Acc /\ mine = AccountOf[attempt[a].login] /\ times = tried[mine]
  BY DEF InStep, AttemptInv, IsSignIn, Acc
<1>2. a \in Beyond(mine)
  BY <1>1 DEF Beyond, InStep, Past
<1>3. now \in Nat /\ Lockout \in Nat /\ MaxAttempts \in Nat \ {0} /\ now \in 0..now
  BY SignInConstants DEF AttemptInv
<1>4. times \in Seq(0..now) /\ Len(times) \in Nat
  <2>1. times \in Seq(0..now)
    BY <1>1 DEF TriedInv
  <2> QED BY <2>1, EntriesOf
<1>5. PICK next : next = IF times # <<>> /\ now - Last(times) <= Lockout THEN Append(times, now) ELSE <<now>>
  OBVIOUS
<1>6. next \in Seq(0..now) /\ Len(next) \in Nat /\ Last(next) = now
  <2>1. CASE next = Append(times, now)
    <3>1. Append(times, now) \in Seq(0..now) /\ Len(Append(times, now)) = Len(times) + 1
          /\ Append(times, now)[Len(times) + 1] = now
      BY <1>3, <1>4
    <3> QED BY <1>4, <2>1, <3>1 DEF Last
  <2>2. CASE next = <<now>>
    BY <1>3, <2>2 DEF Last
  <2> QED BY <1>5, <2>1, <2>2
<1>7. tried' \in [Acc -> Seq(0..now)] /\ tried'[mine] = next /\ \A acc \in Acc : acc # mine => tried'[acc] = tried[acc]
  <2>1. tried' = [tried EXCEPT ![mine] = next] /\ tried \in [Acc -> Seq(0..now)]
    BY <1>1, <1>5 DEF Tries, TriedInv
  <2> QED BY <1>1, <1>6, <2>1
<1>8. /\ Cardinality(Beyond(mine)') \in Nat /\ Cardinality(Beyond(mine)) >= 1
      /\ Cardinality(Beyond(mine)') = Cardinality(Beyond(mine)) - 1
      /\ Cardinality(Beyond(mine)) \in Nat /\ Cardinality(Beyond(mine)) <= Cardinality(Attempt)
      /\ Cardinality(Attempt) \in Nat
  BY <1>2, BeyondMoves, BeyondIs
<1>9. /\ Key(mine) \in DOMAIN failures' /\ failures'[Key(mine)].last = now
      /\ failures'[Key(mine)].count \in Nat \ {0}
      /\ ~Over(mine) /\ times # <<>> =>
           failures[Key(mine)].count \in Nat /\ failures'[Key(mine)].count = failures[Key(mine)].count + 1
  BY <1>1, FailureCounts, StillCounted
<1>10. Len(next) + Cardinality(Beyond(mine)') <= MostTried /\ failures'[Key(mine)].count >= Len(next)
  <2>1. CASE times # <<>> /\ now - Last(times) <= Lockout
    <3>1. Last(times) \in Nat
      <4>1. Len(times) \in 1..Len(times)
        BY <1>4, <2>1
      <4>2. times[Len(times)] \in 0..now
        BY <1>4, <4>1, EntriesOf
      <4> QED BY <1>3, <4>2 DEF Last
    <3>2. ~Over(mine)
      BY <1>1, <1>3, <2>1, <3>1 DEF Over
    <3>3. Len(times) + Cardinality(Beyond(mine)) <= MostTried /\ failures[Key(mine)].count >= Len(times)
      BY <1>1, <2>1, <3>2 DEF TriedInv, IsCounted
    <3>4. Len(next) = Len(times) + 1
      BY <1>4, <1>5, <2>1
    <3>5. MostTried \in Int
      BY <1>3, <1>8 DEF MostTried
    <3> QED BY <1>4, <1>8, <1>9, <2>1, <3>2, <3>3, <3>4, <3>5
  <2>2. CASE ~(times # <<>> /\ now - Last(times) <= Lockout)
    <3>1. Len(next) = 1
      BY <1>5, <2>2
    <3> QED BY <1>3, <1>8, <1>9, <3>1 DEF MostTried
  <2> QED BY <2>1, <2>2
<1>11. Len(tried'[mine]) <= MostTried /\ IsCounted(mine)'
  <2>1. Len(next) <= MostTried
    BY <1>3, <1>6, <1>8, <1>10 DEF MostTried
  <2>2. failures'[Key(mine)].last >= Last(next)
    BY <1>3, <1>6, <1>9
  <2> QED BY <1>7, <1>9, <1>10, <2>1, <2>2 DEF IsCounted, Key
<1>12. ASSUME NEW acc \in Acc, acc # mine PROVE Len(tried'[acc]) <= MostTried /\ (Over(acc)' \/ IsCounted(acc)')
  <2>1. Cardinality(Beyond(acc)') \in Nat /\ Cardinality(Beyond(acc)') <= Cardinality(Beyond(acc))
    BY BeyondMoves
  <2>2. tried'[acc] = tried[acc]
    BY <1>7, <1>12
  <2> QED BY <2>1, <2>2, FailureCounts, AccKept
<1>13. \A acc \in Acc : Len(tried'[acc]) <= MostTried /\ (Over(acc)' \/ IsCounted(acc)')
  BY <1>11, <1>12
<1> QED BY <1>7, <1>13 DEF TriedInv

(* A session that gets in forgets its account's failures, and no other's.  *)
LEMMA SignedInTried ==
  ASSUME AttemptInv, CountInv, TriedInv, NEW a \in Attempt, InStep(a, "bind"), now' = now,
         NEW op, Advances(a, op), op.step \notin Past,
         failures' = Without(failures, Keys(attempt[a])),
         tried' = [tried EXCEPT ![AccountOf[attempt[a].login]] = <<>>]
  PROVE  TriedInv'
<1>1. PICK mine \in Acc : mine = AccountOf[attempt[a].login]
  BY DEF InStep, AttemptInv, IsSignIn, Acc
<1>2. tried' \in [Acc -> Seq(0..now)] /\ tried'[mine] = <<>> /\ \A acc \in Acc : acc # mine => tried'[acc] = tried[acc]
  <2>1. tried \in [Acc -> Seq(0..now)] /\ <<>> \in Seq(0..now)
    BY DEF TriedInv
  <2> QED BY <1>1, <2>1
<1>3. MaxAttempts \in Nat \ {0} /\ now \in Nat
  BY SignInConstants DEF AttemptInv
<1>4. \A acc \in Acc : /\ Cardinality(Beyond(acc)') \in Nat /\ Cardinality(Beyond(acc)') <= Cardinality(Beyond(acc))
                       /\ Cardinality(Beyond(acc)') <= Cardinality(Attempt) /\ Cardinality(Attempt) \in Nat
  BY BeyondMoves, BeyondIs
<1>5. Len(tried'[mine]) <= MostTried /\ IsCounted(mine)'
  <2>1. Len(tried'[mine]) = 0
    BY <1>2
  <2> QED BY <1>2, <1>3, <1>4, <2>1 DEF IsCounted, MostTried
<1>6. ASSUME NEW acc \in Acc, acc # mine PROVE Len(tried'[acc]) <= MostTried /\ (Over(acc)' \/ IsCounted(acc)')
  <2>1. Key(acc) \notin Keys(attempt[a])
    BY <1>1, <1>6 DEF Keys, Key
  <2>2. ASSUME ~Over(acc), tried[acc] # <<>>
        PROVE  /\ Key(acc) \in DOMAIN failures'
               /\ failures'[Key(acc)].count \in Nat /\ failures'[Key(acc)].count >= failures[Key(acc)].count
               /\ failures'[Key(acc)].last \in Nat /\ failures'[Key(acc)].last >= failures[Key(acc)].last
    <3>1. Key(acc) \in DOMAIN failures /\ failures[Key(acc)].count \in Nat /\ failures[Key(acc)].last \in Nat
      BY <1>3, <2>2, StillCounted
    <3>2. Key(acc) \in DOMAIN failures' /\ failures'[Key(acc)] = failures[Key(acc)]
      BY <2>1, <3>1 DEF Without
    <3> QED BY <3>1, <3>2
  <2>3. tried'[acc] = tried[acc]
    BY <1>2, <1>6
  <2> QED BY <1>4, <2>2, <2>3, AccKept
<1>7. \A acc \in Acc : Len(tried'[acc]) <= MostTried /\ (Over(acc)' \/ IsCounted(acc)')
  BY <1>5, <1>6
<1> QED BY <1>2, <1>7 DEF TriedInv

(* Every step keeps the bound on the wrong passwords of an account.        *)
LEMMA TriedNext ==
  ASSUME AttemptInv, CountInv, TriedInv, [SignInNext]_signInVars
  PROVE  TriedInv'
<1>0. now \in Nat /\ Lockout \in Nat
  BY SignInConstants DEF AttemptInv
<1>e. \A why : EndSignIn(why).step = "ended" /\ EndSignIn(why).step \notin Past
  BY DEF EndSignIn, Past
<1>1. CASE Tick
  <2>1. now' = now + 1 /\ UNCHANGED <<attempt, failures, tried>>
    BY <1>1 DEF Tick
  <2>2. tried' \in [Acc -> Seq(0..now')]
    <3>1. \A acc \in Acc : tried[acc] \in Seq(0..now)
      BY DEF TriedInv
    <3>3. \A acc \in Acc : tried[acc] \in Seq(0..(now + 1))
      BY <1>0, <3>1, KeptLater
    <3> QED BY <2>1, <3>3 DEF TriedInv
  <2>3. ASSUME NEW acc \in Acc PROVE Over(acc)' \/ IsCounted(acc)'
    <3>1. CASE Over(acc)
      <4>1. tried[acc] \in Seq(0..now) /\ tried[acc] # <<>> /\ now - Last(tried[acc]) > Lockout
        BY <3>1 DEF TriedInv, Over
      <4>2. Last(tried[acc]) \in Nat
        <5>1. Len(tried[acc]) \in Nat /\ \A i \in 1..Len(tried[acc]) : tried[acc][i] \in 0..now
          BY <4>1, EntriesOf
        <5>2. Len(tried[acc]) # 0
          BY <4>1
        <5> QED BY <1>0, <5>1, <5>2 DEF Last
      <4>3. now + 1 - Last(tried[acc]) > Lockout
        BY <1>0, <4>1, <4>2
      <4>4. tried'[acc] = tried[acc] /\ now' = now + 1
        BY <2>1
      <4>5. tried'[acc] # <<>> /\ now' - Last(tried'[acc]) > Lockout
        <5>1. Last(tried'[acc]) = Last(tried[acc]) /\ tried'[acc] # <<>>
          BY <4>1, <4>4, Zenon
        <5>2. PICK last \in Nat : last = Last(tried[acc])
          BY <4>2
        <5>3. now' - last > Lockout
          BY <1>0, <4>3, <4>4, <5>2
        <5> QED BY <5>1, <5>2, <5>3
      <4> QED BY <4>5, Zenon DEF Over
    <3>2. CASE IsCounted(acc)
      <4>1. Beyond(acc)' = Beyond(acc)
        BY <2>1 DEF Beyond
      <4> QED BY <2>1, <3>2, <4>1 DEF IsCounted
    <3> QED BY <3>1, <3>2 DEF TriedInv
  <2> QED BY <2>1, <2>2, <2>3 DEF TriedInv
<1>2. ASSUME NEW a \in Attempt, NEW op, Advances(a, op), op.step \notin Past,
             UNCHANGED <<now, tried>>, failures' = failures \/ \E by : RecordFailure(by)
      PROVE  TriedInv'
  BY <1>2, BeyondMoves, TriedKept
<1>3. ASSUME NEW a \in Attempt, NEW op, Advances(a, op), attempt[a].step \in Past, op.login = attempt[a].login,
             UNCHANGED <<now, failures, tried>>
      PROVE  TriedInv'
  BY <1>3, BeyondMoves, TriedKept
<1>4. ASSUME NEW a \in Attempt, ~InStep(a, "ended"), NEW step \in Steps
      PROVE  To(attempt[a], step).step = step /\ To(attempt[a], step).login = attempt[a].login
  <2>1. IsSignIn(attempt[a])
    BY <1>4 DEF AttemptInv
  <2> QED BY <1>4, <2>1 DEF To, IsSignIn
<1>5. ASSUME NEW a \in Attempt, BeginSignIn(a) PROVE TriedInv'
  <2>1. \E op : Advances(a, op) /\ op.step \in {"limit", "resolve"}
    BY <1>5 DEF BeginSignIn
  <2>2. UNCHANGED <<now, failures, tried>>
    BY <1>5 DEF BeginSignIn
  <2> QED BY <1>2, <2>1, <2>2 DEF Past
<1>6. ASSUME NEW a \in Attempt, Limit(a) PROVE TriedInv'
  <2>1. ~InStep(a, "ended") /\ UNCHANGED <<now, failures, tried>>
    BY <1>6 DEF Limit, InStep
  <2>2. \/ \E why : Advances(a, EndSignIn(why))
        \/ Advances(a, To(attempt[a], "resolve"))
    BY <1>6 DEF Limit
  <2>3. To(attempt[a], "resolve").step \notin Past
    BY <1>4, <2>1 DEF Steps, Past
  <2> QED BY <1>2, <1>e, <2>1, <2>2, <2>3
<1>7. ASSUME NEW a \in Attempt, FindTarget(a) \/ Probe(a) PROVE TriedInv'
  <2>1. ~InStep(a, "ended") /\ UNCHANGED <<now, failures, tried>>
    BY <1>7 DEF FindTarget, Probe, InStep
  <2>2. \/ \E why : Advances(a, EndSignIn(why))
        \/ \E step \in {"throttle", "probe"} : Advances(a, To(attempt[a], step))
        \/ \E identity, read : Advances(a, WithDiscovery(attempt[a], identity, read))
    BY <1>7 DEF FindTarget, Probe
  <2>3. \A step \in {"throttle", "probe"} : To(attempt[a], step).step \notin Past
    BY <1>4, <2>1 DEF Steps, Past
  <2>4. \A identity, read : WithDiscovery(attempt[a], identity, read).step \notin Past
    <3>1. IsSignIn(attempt[a])
      BY <2>1 DEF AttemptInv
    <3>2. \A identity, read : WithDiscovery(attempt[a], identity, read).step = "throttle"
      BY <3>1, SMT DEF WithDiscovery, IsSignIn
    <3> QED BY <3>2 DEF Past
  <2> QED BY <1>2, <1>e, <2>1, <2>2, <2>3, <2>4
<1>8. ASSUME NEW a \in Attempt, Register(a) PROVE TriedInv'
  <2>1. /\ ~InStep(a, "ended") /\ attempt[a].step \in Past
        /\ Advances(a, To(attempt[a], "kinit")) /\ UNCHANGED <<now, failures, tried>>
    BY <1>8 DEF Register, InStep, Past
  <2>2. To(attempt[a], "kinit").login = attempt[a].login
    BY <1>4, <2>1 DEF Steps
  <2> QED BY <1>3, <2>1, <2>2
<1>9. ASSUME NEW a \in Attempt, Kinit(a) PROVE TriedInv'
  <2>1. InStep(a, "kinit") /\ now' = now /\ attempt[a].step \in Past /\ IsSignIn(attempt[a])
    BY <1>9 DEF Kinit, InStep, AttemptInv, Past
  <2>2. CASE /\ Advances(a, [attempt[a] EXCEPT !.step = "bind", !.left = Candidates(attempt[a].target)])
             /\ UNCHANGED <<failures, tried>>
    <3>1. PICK left, op : op = [attempt[a] EXCEPT !.step = "bind", !.left = left] /\ Advances(a, op)
      BY <2>2
    <3>2. op.login = attempt[a].login
      BY <2>1, <3>1, GoesToBind
    <3> QED BY <1>3, <2>1, <2>2, <3>1, <3>2
  <2>3. CASE /\ \E why : Advances(a, EndSignIn(why))
             /\ RecordFailure(attempt[a]) /\ UNCHANGED tried
    BY <1>2, <1>e, <2>1, <2>3
  <2>4. CASE /\ \E why : Advances(a, EndSignIn(why))
             /\ RecordFailure(attempt[a]) /\ Tries(AccountOf[attempt[a].login])
    BY <1>e, <2>1, <2>4, WrongTried
  <2> QED BY <1>9, <2>2, <2>3, <2>4, KinitIs
<1>10. ASSUME NEW a \in Attempt, BindTo(a) PROVE TriedInv'
  <2>1. InStep(a, "bind") /\ now' = now /\ attempt[a].step \in Past /\ IsSignIn(attempt[a]) /\ attempt[a].step = "bind"
    BY <1>10, BindIs DEF BindTo, InStep, AttemptInv, Past
  <2>2. CASE /\ failures' = Without(failures, Keys(attempt[a]))
             /\ tried' = [tried EXCEPT ![AccountOf[attempt[a].login]] = <<>>]
             /\ Advances(a, EndSignIn("signed in"))
    BY <1>e, <2>1, <2>2, SignedInTried
  <2>3. CASE RecordFailure(attempt[a]) /\ UNCHANGED tried /\ \E why : Advances(a, EndSignIn(why))
    BY <1>2, <1>e, <2>1, <2>3
  <2>4. CASE UNCHANGED <<failures, tried>> /\ \E heard : Advances(a, TryNext(attempt[a], heard))
    <3>1. PICK heard, op : op = TryNext(attempt[a], heard) /\ Advances(a, op)
      BY <2>4
    <3>2. op.login = attempt[a].login
      BY <2>1, <3>1, TriesNext
    <3> QED BY <1>3, <2>1, <2>4, <3>1, <3>2
  <2> QED BY <1>10, <2>2, <2>3, <2>4, BindIs
<1>11. CASE UNCHANGED signInVars
  <2>1. UNCHANGED <<attempt, now, failures, tried>>
    BY <1>11 DEF signInVars
  <2>2. \A acc : Beyond(acc)' = Beyond(acc)
    BY <2>1 DEF Beyond
  <2> QED BY <2>1, <2>2 DEF TriedInv, IsCounted, Over
<1> QED BY <1>1, <1>5, <1>6, <1>7, <1>8, <1>9, <1>10, <1>11, CheckThrottleTried DEF SignInNext

---------------------------------------------------------------------------
(* The theorems.                                                           *)

(* The invariant holds at the start.                                       *)
LEMMA SignInBegins ==
  ASSUME SignInInit
  PROVE  SignInInv
<1>0. /\ MaxNow \in Nat /\ MaxSignIns \in Nat /\ MaxCached \in Nat \ {0} /\ MaxAttempts \in Nat \ {0}
  BY SignInConstants
<1>1. \A a \in Attempt : attempt[a].step = "ended" /\ InStep(a, "ended")
  BY DEF SignInInit, EndSignIn, InStep
<1>2. AttemptInv
  BY <1>0, <1>1 DEF SignInInit, AttemptInv
<1>3. Active = {} /\ Cardinality(Active) = 0
  BY <1>1, FS_EmptySet DEF Active
<1>4. CountInv
  BY <1>3 DEF SignInInit, CountInv, Nothing
<1>5. RateInv
  <2>1. <<>> \in Seq(0..0) /\ Len(<<>>) = 0 /\ InOrder(<<>>) /\ Old(<<>>, 0)
    BY DEF InOrder, Old
  <2> QED BY <2>1 DEF SignInInit, RateInv, Nothing
<1>6. TriedInv
  <2>1. \A acc : Beyond(acc) = {}
    BY <1>1 DEF Beyond, Past
  <2>2. \A acc : Cardinality(Beyond(acc)) = 0
    BY <2>1, FS_EmptySet
  <2>3. MostTried \in Nat
    BY <1>0, <1>2, BeyondIs DEF MostTried
  <2>4. tried \in [Acc -> Seq(0..now)] /\ \A acc \in Acc : tried[acc] = <<>> /\ Len(tried[acc]) = 0
    BY DEF SignInInit, Acc
  <2> QED BY <2>2, <2>3, <2>4 DEF TriedInv, IsCounted
<1>7. CacheInv
  <2>1. IsFiniteSet({}) /\ Cardinality({}) = 0
    BY FS_EmptySet
  <2> QED BY <1>0, <2>1 DEF SignInInit, CacheInv, Nothing
<1>8. RealmsInv
  BY DEF SignInInit, RealmsInv, Nothing
<1>9. LeftInv /\ KdcsNamed
  BY <1>1 DEF LeftInv, KdcsNamed, InStep
<1> QED BY <1>2, <1>4, <1>5, <1>6, <1>7, <1>8, <1>9 DEF SignInInv

(* Every step keeps it.                                                    *)
LEMMA SignInStep ==
  ASSUME SignInInv, [SignInNext]_signInVars
  PROVE  SignInInv'
<1>1. AttemptInv /\ CountInv /\ RateInv /\ TriedInv /\ CacheInv /\ RealmsInv /\ LeftInv /\ KdcsNamed
  BY DEF SignInInv
<1>2. AttemptInv' /\ CountInv' /\ CacheInv'
  BY <1>1, AttemptNext, CountNext, CacheNext
<1>3. RateInv' /\ TriedInv'
  BY <1>1, RateNext, TriedNext
<1>4. RealmsInv' /\ LeftInv' /\ KdcsNamed'
  BY <1>1, RealmsNext, LeftNext, KdcsNamedNext
<1> QED BY <1>2, <1>3, <1>4 DEF SignInInv

(* So it always holds.                                                     *)
LEMMA SignInAlways == SignInSpec => []SignInInv
  BY SignInBegins, SignInStep, PTL DEF SignInSpec

(* The two limits and the cache, from the invariant.                       *)
LEMMA LimitsFollow ==
  ASSUME SignInInv
  PROVE  LimitsKept
<1>1. AttemptInv /\ CountInv /\ RateInv /\ TriedInv /\ CacheInv /\ RealmsInv
  BY DEF SignInInv
<1>2. \A a \in Attempt : InStep(a, "ended") \/ attempt[a].target.realm \in Realm \cup {Unknown}
  BY <1>1 DEF AttemptInv, IsSignIn, Target
<1>3. \A k \in DOMAIN failures : failures[k] \in [count : 1..MaxSignIns, last : 0..now]
  <2> SUFFICES ASSUME NEW k \in DOMAIN failures
               PROVE  failures[k] \in [count : 1..MaxSignIns, last : 0..now]
    OBVIOUS
  <2>1. failures[k] \in [count : Nat \ {0}, last : 0..now] /\ failures[k].count + Cardinality(Active) <= signIns
    BY <1>1 DEF CountInv
  <2>2. Cardinality(Active) \in Nat
    <3>1. Active \in SUBSET Attempt /\ IsFiniteSet(Attempt)
      BY SignInConstants DEF Active
    <3> QED BY <3>1, FS_Subset, FS_CardinalityType
  <2>3. signIns \in 0..MaxSignIns /\ MaxSignIns \in Nat
    BY <1>1, SignInConstants DEF AttemptInv
  <2>4. failures[k].count \in 1..MaxSignIns
    BY <2>1, <2>2, <2>3
  <2> QED BY <2>1, <2>4
<1>4. \A s \in DOMAIN events : Len(events[s]) <= MaxEvents
  BY <1>1 DEF RateInv, Kept
<1>5. \A r \in DOMAIN realms : IsInjective(realms[r]) /\ ToSet(realms[r]) \subseteq Host
  <2> SUFFICES ASSUME NEW r \in DOMAIN realms PROVE IsInjective(realms[r]) /\ ToSet(realms[r]) \subseteq Host
    OBVIOUS
  <2>1. realms[r] \in Seq(Host) /\ IsInjective(realms[r])
    BY <1>1 DEF RealmsInv
  <2>2. DOMAIN realms[r] = 1..Len(realms[r]) /\ \A i \in 1..Len(realms[r]) : realms[r][i] \in Host
    BY <2>1, EntriesOf
  <2> QED BY <2>1, <2>2 DEF ToSet
<1>6. SignInTypeOK
  BY <1>1, <1>2, <1>3, <1>4, <1>5 DEF SignInTypeOK, AttemptInv, CacheInv
<1>7. AtMostAttempts
  BY <1>1 DEF AtMostAttempts, TriedInv, MostTried
<1>8. RateKept
  BY <1>1, RateIsKept
<1> QED BY <1>6, <1>7, <1>8 DEF LimitsKept

(* Whatever sign-ins interleave, for any limits, an account sees no more   *)
(* wrong passwords in a row than the throttle allows and the sign-ins      *)
(* already past it (auth/session.py LoginThrottle), no source is let       *)
(* through more often in a window than RateLimiter allows, though both     *)
(* forget, and the probe's cache keeps to its size.                        *)
THEOREM LimitsKeptHolds == SignInSpec => []LimitsKept
  BY SignInAlways, LimitsFollow, PTL

(* When kinit runs, the krb5.conf all sign-ins share names every KDC of    *)
(* its target (auth/krb5conf.py ensure_realm), whatever sign-ins           *)
(* registered in between.                                                  *)
THEOREM KdcsNamedHolds == SignInSpec => []KdcsNamed
<1>1. SignInInv => KdcsNamed
  BY DEF SignInInv
<1> QED BY <1>1, SignInAlways, PTL

(* What a sign-in takes for the server it named (ad/target.py, the probe   *)
(* and its cache) was read within the cache's time to live.                *)
THEOREM FreshIdentityHolds == SignInSpec => FreshIdentity
<1>1. SignInInv /\ [SignInNext]_signInVars =>
        \A a \in Attempt :
          attempt'[a].step = "throttle" /\ ~InStep(a, "throttle") /\ attempt'[a].target.name # NoName
            => now - attempt'[a].read <= ProbeTtl
  BY FreshStep DEF SignInInv
<1> QED BY <1>1, SignInAlways, PTL DEF SignInSpec, FreshIdentity

(* A sign-in that gives up for want of a controller has failed at every    *)
(* host it knows, over every transport (the loop of connect).              *)
THEOREM FallsOverHolds == SignInSpec => FallsOver
<1>1. SignInInv /\ [SignInNext]_signInVars =>
        \A a \in Attempt :
          InStep(a, "bind") /\ attempt'[a].step = "ended" /\ attempt'[a].why \in {"name unknown", "no logon servers", "unreachable"}
            => \A h \in ToSet(attempt[a].target.hosts) \cup ToSet(NameOf(attempt[a].target)), t \in ToSet(Transports) :
                 Bind[<<h, t>>] # {"ok"}
  BY FallsOverStep DEF SignInInv
<1> QED BY <1>1, SignInAlways, PTL DEF SignInSpec, FallsOver
=============================================================================
