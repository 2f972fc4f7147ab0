-------------------------------- MODULE Groups --------------------------------
(***************************************************************************)
(* Groups (src/backend/samadcon/ad/groups.py, api/v1/groups.py): creation, *)
(* scope and type, members, and the walks that list nested memberships.    *)
(*                                                                         *)
(* An operation is a plan of requests to the domain controller, one step   *)
(* each; a walk asks for one object a step, and other sessions' requests   *)
(* arrive in between.  The DC may refuse a change of scope for reasons of  *)
(* its own: it has the last word.                                          *)
(***************************************************************************)
EXTENDS FiniteSets, Sequences, SequencesExt, Integers, Collections

CONSTANTS
  MAdmin,        \* sessions
  Group, Person, \* objects that can be members
  Sam,           \* group -> its logon name
  Formed,        \* the directory at the start: object -> entry
  MAsked,        \* the requests sessions may make
  MFailing,      \* {"call"} if a request to the DC may fail, else {}
  MaxDepth,      \* MAX_NESTING_DEPTH
  TopBit,        \* the security bit of groupType: 2^31
  MaxGroupOps    \* bound: operations begun

Member == Group \cup Person
Nobody == "nobody"

Scope == {"global", "domain_local", "universal"}
ScopeBits == [s \in Scope |-> IF s = "global" THEN 2 ELSE IF s = "domain_local" THEN 4 ELSE 8]

TypeUnsigned(scope, security) == IF security THEN ScopeBits[scope] + TopBit ELSE ScopeBits[scope]

(* groupType is signed: the security bit counts as minus its value.        *)
GroupTypeValue(scope, security) ==
  IF security THEN ScopeBits[scope] - 2 * TopBit + TopBit ELSE ScopeBits[scope]

Bit(value, b) == ((value % (2 * TopBit)) \div b) % 2 = 1
IsSecurity(value) == Bit(value, TopBit)
GroupScope(value) ==
  IF Bit(value, 8) THEN "universal" ELSE IF Bit(value, 4) THEN "domain_local"
  ELSE IF Bit(value, 2) THEN "global" ELSE "none"
IsSystem(value) == Bit(value, 1)

(* A person has type 0 and no members; primary is its primary group.       *)
GEntry == [type : -TopBit..TopBit - 1, members : Seq(Member), primary : Group \cup {Nobody}, text : BOOLEAN]
GRequest ==
  [do : {"create", "update", "add", "remove", "list members", "list groups"},
   dn : Member, members : Seq(Member), text : BOOLEAN, scope : Scope \cup {"as is"},
   security : {"yes", "no", "as is"}, recursive : BOOLEAN, primary : BOOLEAN]

ASSUME GroupConstants ==
  /\ MAsked \subseteq GRequest
  /\ MaxDepth \in Nat \ {0} /\ MaxGroupOps \in Nat /\ TopBit \in Nat \ {0} /\ TopBit % 16 = 0
  /\ IsFiniteSet(Member) /\ Nobody \notin Member

(* The directory as it is found: every group has a scope, and no member     *)
(* twice.                                                                   *)
ASSUME FormedSound ==
  /\ DOMAIN Formed \subseteq Member
  /\ \A m \in DOMAIN Formed : Formed[m] \in GEntry /\ IsInjective(Formed[m].members)
  /\ \A g \in Group \cap DOMAIN Formed : GroupScope(Formed[g].type) # "none"

VARIABLES
  entries,  \* the directory: object -> entry, for the objects that exist
  task,     \* per session, its operation
  groupOps  \* operations begun, against the bound

groupVars == <<entries, task, groupOps>>
GIdle(why) == [do |-> "none", todo |-> <<>>, result |-> why]

GroupsInit ==
  /\ entries = Formed
  /\ task = [a \in MAdmin |-> GIdle("ok")]
  /\ groupOps = 0

There(m) == m \in DOMAIN entries
GroupsThere == Group \cap DOMAIN entries
MembersOf(m) == IF There(m) THEN entries[m].members ELSE <<>>
ParentsOf(m) == {g \in GroupsThere : m \in ToSet(MembersOf(g))}
Scopes(gs) == {GroupScope(entries[g].type) : g \in gs \cap GroupsThere} \ {"none"}

(***************************************************************************)
(* Scope                                                                   *)
(***************************************************************************)
ProblemMembersOnly(current, target, members, parents) ==
  CASE current = target                               -> "none"
    [] {current, target} = {"global", "domain_local"} -> "via universal"
    [] target = "universal" /\ current = "domain_local" /\ "domain_local" \in members -> "members"
    [] target = "global" /\ "universal" \in members   -> "members"
    [] OTHER                                          -> "none"

ScopeChangeProblem(current, target, members, parents) ==
  CASE current = target                               -> "none"
    [] {current, target} = {"global", "domain_local"} -> "via universal"
    [] target = "universal" /\ current = "global" /\ "global" \in parents             -> "parents"
    [] target = "universal" /\ current = "domain_local" /\ "domain_local" \in members -> "members"
    [] target = "global" /\ "universal" \in members   -> "members"
    [] OTHER                                          -> "none"

ScopeChangeRefused(op) ==
  LET current == GroupScope(op.type)
  IN current \notin {"none", op.newScope}
       /\ (IsSystem(op.type) \/ ScopeChangeProblem(current, op.newScope, op.below, op.above) # "none")

(***************************************************************************)
(* Plans                                                                   *)
(***************************************************************************)
GPlan(r) ==
  CASE r.do = "create" -> <<"free", "sam", "gadd">>
    [] r.do = "update" -> (IF r.text THEN <<"gtext">> ELSE <<>>)
         \o (IF r.scope = "as is" /\ r.security = "as is" THEN <<>> ELSE <<"type", "below", "above", "retype">>)
    [] r.do = "add"    -> <<"known", "there", "join">>
    [] r.do = "remove" -> <<"known", "leave">>
    [] r.do = "list members" -> <<"direct">> \o (IF r.primary THEN <<"primaries">> ELSE <<>>)
         \o (IF r.recursive THEN <<"down">> ELSE <<>>) \o <<"show">>
    [] OTHER           -> <<"direct">> \o (IF r.recursive THEN <<"up">> ELSE <<>>) \o <<"show">>

AtTask(a) == task[a].todo # <<>>
GBegin(a) ==
  /\ ~AtTask(a) /\ groupOps < MaxGroupOps
  /\ \E r \in MAsked :
       /\ GPlan(r) # <<>>
       /\ task' = [task EXCEPT ![a] = Extended(r,
         [todo |-> GPlan(r), result |-> "none", type |-> 0, newScope |-> "global", newSecurity |-> FALSE,
          below |-> {}, above |-> {}, want |-> <<>>,
          roots |-> <<>>, stack |-> <<>>, shown |-> <<>>, pops |-> 0, before |-> MembersOf(r.dn),
          nth |-> groupOps + 1, alone |-> \A b \in MAdmin \ {a} : ~AtTask(b)])]
  /\ groupOps' = groupOps + 1
  /\ UNCHANGED entries

GAt(a, step) == AtTask(a) /\ Head(task[a].todo) = step
GGoes(a, op) ==
  task' = [task EXCEPT ![a] = IF Len(op.todo) > 1 THEN [op EXCEPT !.todo = Tail(@)] ELSE GIdle("ok")]
GEnds(a, why) == task' = [task EXCEPT ![a] = GIdle(why)]
GReads(a, op) == GGoes(a, op) /\ UNCHANGED <<entries, groupOps>>
GWrites(a, m, entry) == entries' = Extended([x \in {m} |-> entry], entries) /\ GGoes(a, task[a]) /\ UNCHANGED groupOps
GStops(a, why) == GEnds(a, why) /\ UNCHANGED <<entries, groupOps>>

(***************************************************************************)
(* Creating and changing a group                                           *)
(***************************************************************************)
SamTaken(sam) == \E g \in GroupsThere : Sam[g] = sam
NewGroup(op) ==
  [type |-> GroupTypeValue(IF op.scope = "as is" THEN "global" ELSE op.scope, op.security # "no"),
   members |-> <<>>, primary |-> Nobody, text |-> op.text]

GFree(a) ==
  /\ GAt(a, "free")
  /\ IF There(task[a].dn) THEN GStops(a, "refused") ELSE GReads(a, task[a])
FreeSam(a) ==
  /\ GAt(a, "sam")
  /\ IF SamTaken(Sam[task[a].dn]) THEN GStops(a, "refused") ELSE GReads(a, task[a])
GAdd(a) ==
  LET op == task[a] IN
  /\ GAt(a, "gadd")
  /\ IF There(op.dn) \/ SamTaken(Sam[op.dn]) THEN GStops(a, "failed") ELSE GWrites(a, op.dn, NewGroup(op))

GText(a) ==
  LET op == task[a] IN
  /\ GAt(a, "gtext")
  /\ IF ~There(op.dn) THEN GStops(a, "failed") ELSE GWrites(a, op.dn, [entries[op.dn] EXCEPT !.text = TRUE])

(* What is not asked for is taken from the type as read; a type that stays *)
(* as it is is neither checked nor written.                                *)
ReadType(a) ==
  LET op == task[a]
      read == entries[op.dn].type
      to == [op EXCEPT !.type = read,
                       !.newScope = IF op.scope # "as is" THEN op.scope
                                      ELSE IF GroupScope(read) = "none" THEN "global" ELSE GroupScope(read),
                       !.newSecurity = IF op.security = "as is" THEN IsSecurity(read) ELSE op.security = "yes"]
  IN /\ GAt(a, "type")
     /\ IF ~There(op.dn) THEN GStops(a, "refused")
        ELSE IF GroupTypeValue(to.newScope, to.newSecurity) = read THEN GStops(a, "ok")
        ELSE GReads(a, to)
ReadBelow(a) == GAt(a, "below") /\ GReads(a, [task[a] EXCEPT !.below = Scopes(ToSet(MembersOf(task[a].dn)))])
ReadAbove(a) == GAt(a, "above") /\ GReads(a, [task[a] EXCEPT !.above = Scopes(ParentsOf(task[a].dn))])

Retype(a) ==
  LET op == task[a] IN
  /\ GAt(a, "retype")
  /\ IF ScopeChangeRefused(op) THEN GStops(a, "refused")
     ELSE IF ~There(op.dn) THEN GStops(a, "failed")
     ELSE \/ GWrites(a, op.dn, [entries[op.dn] EXCEPT !.type = GroupTypeValue(op.newScope, op.newSecurity)])
          \/ GStops(a, "failed")

(***************************************************************************)
(* Members                                                                 *)
(***************************************************************************)
WantAll(op, current) == op.members

\* What is there already is skipped, what is not there already too.
Needed(op, current) ==
  Those(op.members, IF op.do = "remove" THEN ToSet(current) ELSE Member \ ToSet(current))

Known(a) ==
  LET op == task[a] IN
  /\ GAt(a, "known")
  /\ IF ~There(op.dn) THEN GStops(a, "refused")
     ELSE IF Needed(op, MembersOf(op.dn)) = <<>> THEN GStops(a, "ok")
     ELSE GReads(a, [op EXCEPT !.want = Needed(op, MembersOf(op.dn))])
AllThere(a) ==
  /\ GAt(a, "there")
  /\ IF \E m \in ToSet(task[a].want) : ~There(m) THEN GStops(a, "refused") ELSE GReads(a, task[a])

(* The DC carries out a change of values whole or not at all: a value that *)
(* is there already, or twice in the request, fails it, and so does one to *)
(* be removed that is gone.                                                *)
AddMembers(a) ==
  LET op == task[a]  current == MembersOf(op.dn) IN
  /\ GAt(a, "join")
  /\ IF ~There(op.dn) \/ ~IsInjective(op.want) \/ \E m \in ToSet(op.want) : m \in ToSet(current) \/ ~There(m)
     THEN GStops(a, "failed")
     ELSE GWrites(a, op.dn, [entries[op.dn] EXCEPT !.members = current \o op.want])
RemoveMembers(a) ==
  LET op == task[a]  current == MembersOf(op.dn) IN
  /\ GAt(a, "leave")
  /\ IF ~There(op.dn) \/ ~(ToSet(op.want) \subseteq ToSet(current)) THEN GStops(a, "failed")
     ELSE GWrites(a, op.dn, [entries[op.dn] EXCEPT
            !.members = Those(current, Member \ ToSet(op.want))])

(***************************************************************************)
(* Walks                                                                   *)
(***************************************************************************)
Listed(ms) == SetToSeq(ms)
Extra(seq, ms) == seq \o Listed(ms \ ToSet(seq))

Direct(a) ==
  LET op == task[a]
      above == Extra(Listed(ParentsOf(op.dn)), {entries[op.dn].primary} \ {Nobody})
      roots == IF op.do = "list members" THEN MembersOf(op.dn) ELSE above
  IN /\ GAt(a, "direct")
     /\ IF ~There(op.dn) THEN GStops(a, "refused")
        ELSE GReads(a, [op EXCEPT !.roots = roots, !.shown = roots,
                                  !.stack = [i \in DOMAIN roots |-> <<roots[i], 0>>]])
\* Accounts whose primary group this is are not among its members.
Primaries(a) ==
  LET op == task[a]
      roots == Extra(op.roots, {m \in DOMAIN entries : entries[m].primary = op.dn})
  IN /\ GAt(a, "primaries")
     /\ GReads(a, [op EXCEPT !.roots = roots, !.shown = roots,
                             !.stack = [i \in DOMAIN roots |-> <<roots[i], 0>>]])

\* The stack of a walk is kept with its top first.
Pushed(next, depth, op) ==
  LET new == Those(next, Member \ ToSet(op.shown))
  IN [i \in DOMAIN new |-> <<new[i], depth>>] \o Tail(op.stack)
Seen(op) == IF op.pops = 0 THEN <<>> ELSE op.shown
GoesOn(a, op) == task' = [task EXCEPT ![a] = op] /\ UNCHANGED <<entries, groupOps>>

DownAgain(a) ==
  LET op == task[a]
      top == Head(op.stack)
      first == [op EXCEPT !.shown = Seen(op), !.pops = 1]
      taken == [first EXCEPT !.shown = Append(@, top[1])]
  IN /\ GAt(a, "down")
     /\ IF op.stack = <<>> THEN GReads(a, op)
        ELSE IF top[2] >= MaxDepth THEN GoesOn(a, [taken EXCEPT !.stack = Tail(@)])
        ELSE GoesOn(a, [taken EXCEPT !.stack = Pushed(MembersOf(top[1]), top[2] + 1, taken)])

(* Depth first; what has been seen is not looked at again, and what lies   *)
(* MaxDepth levels down is shown and not opened.                           *)
Down(a) ==
  LET op == task[a]
      top == Head(op.stack)
      first == [op EXCEPT !.shown = Seen(op), !.pops = 1]
      taken == [first EXCEPT !.shown = Append(@, top[1])]
  IN /\ GAt(a, "down")
     /\ IF op.stack = <<>> THEN GReads(a, op)
        ELSE IF top[1] \in ToSet(first.shown) THEN GoesOn(a, [first EXCEPT !.stack = Tail(@)])
        ELSE IF top[2] >= MaxDepth THEN GoesOn(a, [taken EXCEPT !.stack = Tail(@)])
        ELSE GoesOn(a, [taken EXCEPT !.stack = Pushed(MembersOf(top[1]), top[2] + 1, taken)])

\* Upwards it is the number of objects taken off the stack that is bounded.
Up(a) ==
  LET op == task[a]
      top == Head(op.stack)
      first == [op EXCEPT !.shown = Seen(op), !.pops = @ + 1]
      taken == [first EXCEPT !.shown = Append(@, top[1])]
  IN /\ GAt(a, "up")
     /\ IF op.stack = <<>> \/ op.pops >= MaxDepth * Len(op.roots) + MaxDepth THEN GReads(a, op)
        ELSE IF top[1] \in ToSet(first.shown) THEN GoesOn(a, [first EXCEPT !.stack = Tail(@)])
        ELSE GoesOn(a, [taken EXCEPT !.stack = Pushed(Listed(ParentsOf(top[1])), 0, taken)])

Show(a) == GAt(a, "show") /\ GReads(a, task[a])

GLost(a) == "call" \in MFailing /\ AtTask(a) /\ GStops(a, "failed")

GroupStep(a) ==
  \/ GBegin(a) \/ GFree(a) \/ FreeSam(a) \/ GAdd(a) \/ GText(a)
  \/ ReadType(a) \/ ReadBelow(a) \/ ReadAbove(a) \/ Retype(a)
  \/ Known(a) \/ AllThere(a) \/ AddMembers(a) \/ RemoveMembers(a)
  \/ Direct(a) \/ Primaries(a) \/ Down(a) \/ Up(a) \/ Show(a) \/ GLost(a)

GroupsNext == \E a \in MAdmin : GroupStep(a)
GroupsSpec == GroupsInit /\ [][GroupsNext]_groupVars

(***************************************************************************)
(* Properties                                                              *)
(***************************************************************************)
(* Every groupType is one the domain controller takes (a security group's  *)
(* is negative), and no group has a member twice.                          *)
GroupsTypeOK ==
  /\ \A m \in DOMAIN entries : entries[m] \in GEntry /\ IsInjective(entries[m].members)
  /\ \A a \in MAdmin : task[a].result \in {"none", "ok", "refused", "failed"}
  /\ groupOps \in 0..MaxGroupOps

MayHold(outer, inner) ==
  CASE outer = "global" -> inner = "global"
    [] outer = "universal" -> inner # "domain_local"
    [] OTHER -> TRUE
GScope(es, g) == GroupScope(es[g].type)
LegalIn(es, outer, inner) == MayHold(GScope(es, outer), GScope(es, inner))
GUndisturbed(a) == task[a].alone /\ groupOps = task[a].nth

(* A change of scope that no other session crosses goes by way of          *)
(* universal, leaves a builtin group's scope alone and the security bit it *)
(* was not asked about, and does not make a nesting that was legal         *)
(* illegal, save for the groups a new domain local group is in, which the  *)
(* rules leave to the DC (scope_change_problem).                           *)
Rescoped ==
  \A a \in MAdmin : \A g \in GroupsThere :
    LET op == task[a]
        old == GScope(entries, g)
        new == GScope(entries', g)
    IN GAt(a, "retype") /\ op.dn = g /\ task'[a] # op /\ entries'[g] # entries[g] /\ GUndisturbed(a) =>
         /\ {old, new} # {"global", "domain_local"}
         /\ IsSystem(entries[g].type) => new = old
         /\ op.security = "as is" => IsSecurity(entries'[g].type) = IsSecurity(entries[g].type)
         /\ \A h \in GroupsThere :
              /\ h \in ToSet(MembersOf(g)) /\ LegalIn(entries, g, h) => LegalIn(entries', g, h)
              /\ new # "domain_local" /\ g \in ToSet(MembersOf(h)) /\ LegalIn(entries, h, g)
                   => LegalIn(entries', h, g)

(* Members are added and removed as values of their own: whatever others   *)
(* did meanwhile is kept.  Without others an addition or a removal is      *)
(* carried out whole: what was there already, or gone already, does not    *)
(* fail the rest (add_members, remove_members).                            *)
Membership ==
  \A a \in MAdmin :
    LET op == task[a]
        asked == ToSet(op.members)
        old == ToSet(MembersOf(op.dn))
        now == ToSet(entries'[op.dn].members)
        begun == ToSet(op.before)
    IN /\ (GAt(a, "join") \/ GAt(a, "leave")) /\ task'[a] # op /\ entries' # entries =>
            IF op.do = "add" THEN old \subseteq now /\ now \subseteq old \cup asked
            ELSE now \subseteq old /\ old \ asked \subseteq now
       /\ AtTask(a) /\ op.do \in {"add", "remove"} /\ task'[a].todo = <<>> /\ MFailing = {}
            /\ GUndisturbed(a) /\ asked \cup {op.dn} \subseteq DOMAIN entries /\ IsInjective(op.members)
          => task'[a].result = "ok" /\ now = IF op.do = "add" THEN begun \cup asked ELSE begun \ asked

(* Whatever is done to a group, the memberships that were there and that   *)
(* nobody asked to end are there, and a change of scope that nobody        *)
(* crosses leaves them as legal as they were (but see Rescoped).           *)
MembershipsHold == [][Rescoped /\ Membership]_groupVars

Further(ms, next) == ms \cup UNION {next[m] : m \in ms}
\* ms, and what is up to n steps beyond.
Beyond(ms, next, n) ==
  LET grow[k \in 0..n] == IF k = 0 THEN ms ELSE Further(grow[k - 1], next)
  IN grow[n]
NextDown == [m \in Member |-> ToSet(MembersOf(m))]
NextUp == [m \in Member |-> ParentsOf(m)]
Reached(op, n) ==
  IF ~op.recursive THEN ToSet(op.roots)
  ELSE Beyond(ToSet(op.roots), IF op.do = "list members" THEN NextDown ELSE NextUp, n)
Everything(op) == Reached(op, Cardinality(Member))
MembershipsMet(op) == Len(op.roots) + Cardinality({p \in Everything(op) \X GroupsThere : p[2] \in ParentsOf(p[1])})

(* A recursive listing no other session crosses shows each object once,    *)
(* nothing that is not reachable, and everything that is as long as the    *)
(* nesting keeps within the guard: no more objects than MaxDepth           *)
(* downwards, no more memberships than the walk's budget upwards; cycles   *)
(* do not stop it (_expand_nested, _expand_parents).                       *)
WalkShows ==
  \A a \in MAdmin :
    LET op == task[a] IN
    GAt(a, "show") /\ GUndisturbed(a) =>
      /\ IsInjective(op.shown)
      /\ ToSet(op.shown) \subseteq Everything(op)
      /\ op.do = "list members" /\ Cardinality(Everything(op)) <= MaxDepth + 1 => Everything(op) \subseteq ToSet(op.shown)
      /\ op.do = "list groups" /\ MembershipsMet(op) <= MaxDepth * (Len(op.roots) + 1)
           => Everything(op) \subseteq ToSet(op.shown)

(* "Guards the recursive membership walk against pathological nesting":    *)
(* what lies within MaxDepth levels is shown.                              *)
WithinDepthShown ==
  \A a \in MAdmin :
    GAt(a, "show") /\ GUndisturbed(a) => Reached(task[a], MaxDepth) \subseteq ToSet(task[a].shown)
==============================================================================
