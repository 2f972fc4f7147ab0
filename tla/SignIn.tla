-------------------------------- MODULE SignIn --------------------------------
(***************************************************************************)
(* Signing in (src/backend/samadcon/api/v1/auth.py login): the rate limit  *)
(* on typed addresses, the probe and its cache, the login throttle, the    *)
(* Kerberos configuration all sessions share, and the search for a domain  *)
(* controller that lets the session in.                                    *)
(*                                                                         *)
(* Each await of the handler ends a step, so sign-ins interleave there;    *)
(* time passes between steps.  What a server answers is given by the       *)
(* constants, and where they allow several answers it may change.          *)
(***************************************************************************)
EXTENDS FiniteSets, Sequences, SequencesExt, Integers

CONSTANTS
  Attempt,                 \* sign-ins in progress at once
  LoginName, AccountOf,          \* names as typed, and the account each stands for
  Source, NoSource,        \* client addresses; none when nginx names none
  Named, Address,          \* hosts by name, hosts by IP address
  Realm,
  Identity,                \* host -> the answers of its rootDSE, "silent" among them
  Bind,                    \* <<host, transport>> -> the verdicts of a bind there
  Transports,              \* settings.ldap_transports, in order
  Published,               \* the SRV records: [host, priority, weight]
  Asking,                  \* the requests made
  CustomServers,           \* settings.allow_custom_servers
  MaxAttempts, Lockout, PruneAbove,  \* of the throttle
  MaxEvents, Window, EventKeys,      \* of the rate limiter
  ProbeTtl, MaxCached,               \* of the probe cache
  MaxNow, MaxSignIns       \* bounds: the clock, the sign-ins begun

Host == Named \cup Address
Silent == [realm |-> "UNKNOWN", name |-> "none"]   \* an unanswered probe
Unknown == "UNKNOWN"       \* _realm_placeholder of an address
NoName == "none"
NoTarget == [realm |-> Unknown, hosts |-> <<>>, name |-> NoName]

SignInRequest ==
  [login : LoginName, source : Source \cup {NoSource}, right : BOOLEAN,
   via : {"profile", "typed", "default"}, hosts : Seq(Host), realm : Realm \cup {Unknown}]

ASSUME SignInConstants ==
  /\ Asking \subseteq SignInRequest
  /\ \A r \in Asking : r.via = "typed" => Len(r.hosts) = 1
  /\ \A h \in Host : Identity[h] \subseteq [realm : Realm, name : Named] \cup {Silent}
  /\ \A h \in Address, t \in ToSet(Transports) : "ok" \notin Bind[<<h, t>>]
  /\ {MaxAttempts, Lockout, MaxEvents, Window, MaxCached} \subseteq Nat \ {0}
  /\ {PruneAbove, EventKeys, ProbeTtl, MaxNow, MaxSignIns} \subseteq Nat
  /\ Transports \in Seq(ToSet(Transports)) /\ IsFiniteSet(Attempt)

VARIABLES
  attempt,   \* per slot, the sign-in it carries
  now,
  failures,  \* the throttle's counters: key -> [count, last]
  events,    \* the rate limiter's: source -> times accepted
  cached,    \* the probe cache: host -> [identity, read, expires]
  realms,    \* the KDCs known per realm, in memory
  file,      \* the same as krb5.conf has it
  signIns,   \* sign-ins begun, against the bound
  tried,     \* history: account -> times of wrong passwords at the KDC since it was forgotten
  let        \* history: source -> times the limiter let it through

signInVars == <<attempt, now, failures, events, cached, realms, file, signIns, tried, let>>
EndSignIn(why) == [step |-> "ended", why |-> why]
Nothing == [x \in {} |-> <<>>]

SignInInit ==
  /\ attempt = [a \in Attempt |-> EndSignIn("none")]
  /\ now = 0 /\ signIns = 0
  /\ failures = Nothing /\ events = Nothing /\ cached = Nothing
  /\ realms = Nothing /\ file = Nothing
  /\ tried = [x \in {AccountOf[g] : g \in LoginName} |-> <<>>]
  /\ let = [s \in Source \cup {NoSource} |-> <<>>]

Without(fn, gone) == [x \in DOMAIN fn \ gone |-> fn[x]]
With(fn, x, v) == [y \in DOMAIN fn \cup {x} |-> IF y = x THEN v ELSE fn[y]]

(***************************************************************************)
(* The login throttle and the rate limiter                                 *)
(***************************************************************************)
KeysAsTyped(op) == {<<"user", op.login>>} \cup (IF op.source = NoSource THEN {} ELSE {<<"ip", op.source>>})
Keys(op) == {<<"user", AccountOf[op.login]>>} \cup (IF op.source = NoSource THEN {} ELSE {<<"ip", op.source>>})

Lapsed(entry) == now - entry.last > Lockout
Failed(fs, op) ==
  LET new(k) == IF k \notin DOMAIN fs \/ Lapsed(fs[k]) THEN 1 ELSE fs[k].count + 1
  IN [k \in DOMAIN fs \cup Keys(op) |-> IF k \in Keys(op) THEN [count |-> new(k), last |-> now] ELSE fs[k]]
Prune(fs) ==
  IF Cardinality(DOMAIN fs) <= PruneAbove THEN fs ELSE Without(fs, {k \in DOMAIN fs : Lapsed(fs[k])})
RecordFailure(op) == failures' = Prune(Failed(failures, op))

\* The oldest entries leave a bucket while they are out of the window.
Recent(times) ==
  LET fresh == {i \in DOMAIN times : now - times[i] <= Window}
  IN IF fresh = {} THEN <<>> ELSE SubSeq(times, Min(fresh), Len(times))
ForgetAll(es) == IF Cardinality(DOMAIN es) <= EventKeys THEN es ELSE Nothing
Forget(es) ==
  IF Cardinality(DOMAIN es) <= EventKeys THEN es
  ELSE Without(es, {s \in DOMAIN es : es[s] = <<>> \/ Last(es[s]) <= now - Window})

(***************************************************************************)
(* Steps of a sign-in                                                      *)
(***************************************************************************)
InStep(a, step) == attempt[a].step = step
Advances(a, op) == attempt' = [attempt EXCEPT ![a] = op]
To(op, step) == [op EXCEPT !.step = step]

BeginSignIn(a) ==
  /\ InStep(a, "ended") /\ signIns < MaxSignIns
  /\ \E r \in Asking :
       Advances(a, [login |-> r.login, source |-> r.source, right |-> r.right, via |-> r.via, realm |-> r.realm,
                step |-> IF r.via = "typed" THEN "limit" ELSE "resolve",
                target |-> [realm |-> r.realm, hosts |-> r.hosts, name |-> NoName],
                left |-> <<>>, heard |-> {}, read |-> now])
  /\ signIns' = signIns + 1
  /\ UNCHANGED <<now, failures, events, cached, realms, file, tried, let>>

(* RateLimiter.check, with what it prunes.                                 *)
Limit(a) ==
  LET s == attempt[a].source
      bucket == IF s \in DOMAIN events THEN Recent(events[s]) ELSE <<>>
  IN /\ InStep(a, "limit")
     /\ IF Len(bucket) >= MaxEvents
        THEN /\ events' = With(events, s, bucket)
             /\ Advances(a, EndSignIn("rate limited"))
             /\ UNCHANGED let
        ELSE /\ events' = Forget(With(events, s, Append(bucket, now)))
             /\ Advances(a, To(attempt[a], "resolve"))
             /\ let' = [let EXCEPT ![s] = Append(@, now)]
     /\ UNCHANGED <<now, failures, cached, realms, file, signIns, tried>>

(* _enrich: what a probe failure means.                                    *)
Required(op) == op.via # "default" /\ op.realm = Unknown
WithDiscovery(op, identity, read) ==
  [op EXCEPT !.target.realm = identity.realm, !.target.name = identity.name, !.read = read, !.step = "throttle"]

GetExpired(h) == h \in DOMAIN cached
Usable(h) == h \in DOMAIN cached /\ cached[h].expires >= now

(* resolve_target, up to the probe's cache.                                *)
FindTarget(a) ==
  LET op == attempt[a]  h == Head(op.target.hosts) IN
  /\ InStep(a, "resolve")
  /\ IF (op.via = "typed" /\ ~CustomServers) \/ (op.target.hosts = <<>> /\ op.realm = Unknown)
     THEN Advances(a, EndSignIn("no target")) /\ UNCHANGED cached
     ELSE IF op.target.hosts = <<>> THEN Advances(a, To(op, "throttle")) /\ UNCHANGED cached
     ELSE IF Usable(h)
          THEN Advances(a, WithDiscovery(op, cached[h].identity, cached[h].read)) /\ UNCHANGED cached
          ELSE Advances(a, To(op, "probe")) /\ cached' = Without(cached, {h})
  /\ UNCHANGED <<now, failures, events, realms, file, signIns, tried, let>>

(* TTLCache.set: the entry that expires first makes room.                  *)
EvictedAbove(c) ==
  IF Cardinality(DOMAIN c) <= MaxCached THEN {}
  ELSE {CHOOSE h \in DOMAIN c : \A g \in DOMAIN c : c[h].expires <= c[g].expires}
Evicted(c) ==
  IF Cardinality(DOMAIN c) < MaxCached THEN {}
  ELSE {CHOOSE h \in DOMAIN c : \A g \in DOMAIN c : c[h].expires <= c[g].expires}
Cache(h, identity) ==
  cached' = With(Without(cached, Evicted(cached)), h, [identity |-> identity, read |-> now, expires |-> now + ProbeTtl])

Probe(a) ==
  LET op == attempt[a]  h == Head(op.target.hosts) IN
  /\ InStep(a, "probe")
  /\ \E answer \in Identity[h] :
       IF answer = Silent
       THEN /\ Advances(a, IF Required(op) THEN EndSignIn("no answer") ELSE To(op, "throttle"))
            /\ UNCHANGED cached
       ELSE Advances(a, WithDiscovery(op, answer, now)) /\ Cache(h, answer)
  /\ UNCHANGED <<now, failures, events, realms, file, signIns, tried, let>>

(* LoginThrottle.check drops the lapsed counters it comes across.          *)
CheckThrottle(a) ==
  LET lapsed == {k \in Keys(attempt[a]) \cap DOMAIN failures : Lapsed(failures[k])}
      full == \E k \in (Keys(attempt[a]) \cap DOMAIN failures) \ lapsed : failures[k].count >= MaxAttempts
  IN /\ InStep(a, "throttle")
     /\ failures' = Without(failures, lapsed)
     /\ Advances(a, IF full THEN EndSignIn("throttled") ELSE To(attempt[a], "register"))
     /\ UNCHANGED <<now, events, cached, realms, file, signIns, tried, let>>

(***************************************************************************)
(* krb5.conf                                                               *)
(***************************************************************************)
(* The entries at the places of a set, in their order; the first of each.  *)
Nth(places, k) == CHOOSE i \in places : Cardinality({j \in places : j <= i}) = k
AtPlaces(seq, places) == [k \in 1..Cardinality(places) |-> seq[Nth(places, k)]]
Firsts(s) == {i \in DOMAIN s : \A j \in 1..(i - 1) : s[j] # s[i]}
Distinct(s) == AtPlaces(s, Firsts(s))
NameOf(target) == IF target.name = NoName THEN <<>> ELSE <<target.name>>
Kdcs(target) == Distinct(target.hosts \o NameOf(target))

Latest(known, kdcs) == kdcs
Merged(known, kdcs) == Distinct(known \o kdcs)

(* Krb5Configuration.ensure_realm, called by acquire_ticket.               *)
Register(a) ==
  LET op == attempt[a]  r == op.target.realm  kdcs == Kdcs(op.target) IN
  /\ InStep(a, "register")
  /\ IF r \in DOMAIN realms /\ ToSet(kdcs) \subseteq ToSet(realms[r])
     THEN UNCHANGED <<realms, file>>
     ELSE /\ realms' = With(realms, r, IF r \in DOMAIN realms THEN Merged(realms[r], kdcs) ELSE kdcs)
          /\ file' = realms'
  /\ Advances(a, To(op, "kinit"))
  /\ UNCHANGED <<now, failures, events, cached, signIns, tried, let>>

(***************************************************************************)
(* The ticket and the connection                                           *)
(***************************************************************************)
Preferred(r, q) == r.priority < q.priority \/ (r.priority = q.priority /\ r.weight > q.weight)
DiscoverDcs(target) ==
  IF target.hosts = <<>>
  THEN [i \in 1..Cardinality(Published) |-> SetToSortSeq(Published, Preferred)[i].host]
  ELSE Distinct(NameOf(target) \o target.hosts)

\* For each host, each transport.
Candidates(target) ==
  LET hosts == DiscoverDcs(target)  n == Len(Transports)
  IN [k \in 1..(Len(hosts) * n) |-> <<hosts[((k - 1) \div n) + 1], Transports[((k - 1) % n) + 1]>>]

Tries(acc) ==
  tried' = [tried EXCEPT ![acc] = IF @ # <<>> /\ now - Last(@) <= Lockout THEN Append(@, now) ELSE <<now>>]

(* The KDC's verdict is counted before the handler gives way again.        *)
Kinit(a) ==
  LET op == attempt[a] IN
  /\ InStep(a, "kinit")
  /\ \E verdict \in {IF op.right THEN "ticket" ELSE "wrong", "no kdc"} :
       IF verdict = "ticket"
       THEN /\ Advances(a, IF Candidates(op.target) = <<>> THEN EndSignIn("no candidates")
                       ELSE [op EXCEPT !.step = "bind", !.left = Candidates(op.target)])
            /\ IF Candidates(op.target) = <<>> THEN RecordFailure(op) ELSE UNCHANGED failures
            /\ UNCHANGED tried
       ELSE /\ Advances(a, EndSignIn(verdict))
            /\ RecordFailure(op)
            /\ IF verdict = "wrong" THEN Tries(AccountOf[op.login]) ELSE UNCHANGED tried
  /\ UNCHANGED <<now, events, cached, realms, file, signIns, let>>

Reason(op, heard) ==
  CASE ToSet(DiscoverDcs(op.target)) \subseteq Address -> "name unknown"
    [] "no logon" \in heard                            -> "no logon servers"
    [] OTHER                                           -> "unreachable"

EndsOnAnyFailure(op, verdict) == TRUE
EndsBind(op, verdict) == verdict = "refused" \/ Len(op.left) = 1

(* connect: one host and transport; a refused ticket is refused anywhere.  *)
BindTo(a) ==
  LET op == attempt[a] IN
  /\ InStep(a, "bind")
  /\ \E verdict \in Bind[Head(op.left)] :
       LET heard == op.heard \cup {verdict} IN
       CASE verdict = "ok" ->
              /\ failures' = Without(failures, Keys(op))
              /\ tried' = [tried EXCEPT ![AccountOf[op.login]] = <<>>]
              /\ Advances(a, EndSignIn("signed in"))
         [] verdict # "ok" /\ EndsBind(op, verdict) ->
              /\ RecordFailure(op)
              /\ Advances(a, EndSignIn(IF verdict = "refused" THEN verdict ELSE Reason(op, heard)))
              /\ UNCHANGED tried
         [] OTHER ->
              /\ Advances(a, [op EXCEPT !.left = Tail(@), !.heard = heard])
              /\ UNCHANGED <<failures, tried>>
  /\ UNCHANGED <<now, events, cached, realms, file, signIns, let>>

Tick ==
  /\ now < MaxNow /\ now' = now + 1
  /\ UNCHANGED <<attempt, failures, events, cached, realms, file, signIns, tried, let>>

SignInNext ==
  \/ Tick
  \/ \E a \in Attempt :
       \/ BeginSignIn(a) \/ Limit(a) \/ FindTarget(a) \/ Probe(a) \/ CheckThrottle(a)
       \/ Register(a) \/ Kinit(a) \/ BindTo(a)

SignInSpec == SignInInit /\ [][SignInNext]_signInVars

-----------------------------------------------------------------------------
(* The counters, the cache within its limit, and the lists of KDCs have    *)
(* the shapes the code relies on.                                          *)
SignInTypeOK ==
  /\ \A a \in Attempt : InStep(a, "ended") \/ attempt[a].target.realm \in Realm \cup {Unknown}
  /\ now \in 0..MaxNow /\ signIns \in 0..MaxSignIns
  /\ \A k \in DOMAIN failures : failures[k] \in [count : 1..MaxSignIns, last : 0..now]
  /\ \A s \in DOMAIN events : Len(events[s]) <= MaxEvents
  /\ DOMAIN cached \subseteq Host /\ Cardinality(DOMAIN cached) <= MaxCached
  /\ \A r \in DOMAIN realms : IsInjective(realms[r]) /\ ToSet(realms[r]) \subseteq Host

(* However the name is spelled and wherever the requests come from, an     *)
(* account sees no more wrong passwords in a row than the throttle allows  *)
(* and the sign-ins already past its check when it closed.                 *)
AtMostAttempts == \A acc \in DOMAIN tried : Len(tried[acc]) <= MaxAttempts - 1 + Cardinality(Attempt)

(* No source is let through to the prober more often than the limit in any *)
(* window, whatever the limiter forgets to keep its table small.           *)
RateKept ==
  \A s \in DOMAIN let : Cardinality({i \in DOMAIN let[s] : now - let[s][i] < Window}) <= MaxEvents

(* Both limiters and the cache keep to their limits, also when they forget.*)
LimitsKept == SignInTypeOK /\ AtMostAttempts /\ RateKept

(* When a ticket is asked for, the file all sessions share names every KDC *)
(* of the target, whatever other sign-ins registered in between.           *)
KdcsNamed ==
  \A a \in Attempt : InStep(a, "kinit") =>
    ToSet(Kdcs(attempt[a].target)) \subseteq
      (IF attempt[a].target.realm \in DOMAIN file THEN ToSet(file[attempt[a].target.realm]) ELSE {})

(* What a sign-in believes of a server it named was read no longer ago     *)
(* than the cache keeps an answer, when the sign-in takes it.              *)
FreshIdentity ==
  [][\A a \in Attempt :
       attempt'[a].step = "throttle" /\ ~InStep(a, "throttle") /\ attempt'[a].target.name # NoName
         => now - attempt'[a].read <= ProbeTtl]_signInVars

(* A sign-in gives up for want of a domain controller only if none of the  *)
(* hosts it knows, the name learnt from the probe among them, was sure to  *)
(* let it in over a permitted transport.                                   *)
FallsOver ==
  [][\A a \in Attempt :
       InStep(a, "bind") /\ attempt'[a].step = "ended" /\ attempt'[a].why \in {"name unknown", "no logon servers", "unreachable"}
         => \A h \in ToSet(attempt[a].target.hosts) \cup ToSet(NameOf(attempt[a].target)), t \in ToSet(Transports) :
              Bind[<<h, t>>] # {"ok"}]_signInVars
=============================================================================
