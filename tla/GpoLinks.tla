----------------------------- MODULE GpoLinks -----------------------------
(***************************************************************************)
(* Where policies apply: the gPLink attribute of a container names the     *)
(* policies linked to it, gPOptions blocks what is inherited from above.   *)
(* Each operation of the console reads the attribute, changes the list and *)
(* writes the whole attribute back; operations of two sessions run on two  *)
(* worker threads.  Deleting a policy first searches the directory for     *)
(* links to it.  Inheritance computes from the same attributes which       *)
(* policies reach a container, and in which order they are applied.        *)
(*                                                                         *)
(* Sources: gpo/links.py, gpo/gpmc.py and delete_gpo in gpo/container.py,  *)
(* in src/backend/samadcon.                                                *)
(***************************************************************************)
EXTENDS Integers, FiniteSets, Sequences, SequencesExt, Collections

CONSTANTS
  Admin,        \* sessions
  Policy,
  Container,    \* the domain, its organisational units, the sites
  None,
  Parent,       \* the container above each, None at the top
  Site,         \* containers in the configuration partition
  Given,        \* per container, gPLink values to start from
  Asked,        \* the operations that are asked for
  Failing,      \* what may fail: "search", a search for links
  Overlapping,  \* may operations on one container run at the same time
  MaxOps        \* bound: operations begun

Flag == {"disabled", "enforced"}
Link == [policy : Policy, options : SUBSET Flag]
Op == [do : {"add", "remove", "update", "block", "delete"}, policy : Policy,
       container : Container, set : SUBSET Flag, clear : SUBSET Flag,
       order : Nat,     \* the place asked for, 0 to keep it
       flag : BOOLEAN]  \* to block or unblock, to delete by force

LinkedIn(links, p) == \E i \in DOMAIN links : links[i].policy = p
LinkedOnce(links) ==
  \A i, j \in DOMAIN links : links[i].policy = links[j].policy => i = j

ASSUME ConstantsAssumption ==
  /\ None \notin Container \cup Op
  /\ Parent \in [Container -> Container \cup {None}] /\ Site \subseteq Container
  /\ Given \in [Container -> SUBSET Seq(Link)] /\ Asked \subseteq Op
  /\ Failing \subseteq {"search"} /\ Overlapping \in BOOLEAN /\ MaxOps \in Nat
\* The containers are a tree: a way up ends, after no more steps than there are
\* containers.
ASSUME ParentAssumption ==
  /\ IsFiniteSet(Container)
  /\ \E depth \in [Container -> 0..Cardinality(Container)] :
       \A c \in Container : Parent[c] # None => depth[Parent[c]] < depth[c]
\* No other tool has linked a policy twice to one container.
ASSUME GivenAssumption == \A c \in Container : \A links \in Given[c] : LinkedOnce(links)

VARIABLES
  policies,  \* the policies that exist
  gplink,    \* per container the attribute, entry by entry as it is stored
  blocked,   \* the containers whose gPOptions block inheritance
  pc, op,    \* what each session is doing
  value,     \* the list it is going to write
  ops,       \* operations begun
  waived     \* history: policies deleted by force, or after a search that failed

directoryVars == <<policies, gplink, blocked>>
vars == <<directoryVars, pc, op, value, ops, waived>>

---------------------------------------------------------------------------
(* The attribute is stored back to front: the list an administrator sees   *)
(* begins with the link that takes precedence.                             *)
Parse(attribute) == Reverse(attribute)
\* Faulty variant: the list is written as it is shown.
FormatPlain(links) == links
Format(links) == Reverse(links)

Position(links, p) ==
  CHOOSE i \in DOMAIN links :
    links[i].policy = p /\ \A j \in DOMAIN links : links[j].policy = p => i <= j

\* Faulty variant: the place is counted before the link is taken out.
MoveBefore(links, from, to) ==
  IF from < to THEN InsertAt(RemoveAt(links, from), to - 1, links[from])
               ELSE InsertAt(RemoveAt(links, from), to, links[from])
Move(links, from, to) == InsertAt(RemoveAt(links, from), to, links[from])

Updated(links, o) ==
  LET i == Position(links, o.policy)
      changed == [links EXCEPT ![i].options = (@ \cup o.set) \ o.clear]
  IN IF o.order = 0 THEN changed ELSE Move(changed, i, o.order)

---------------------------------------------------------------------------
(* What reaches a container: the links from the domain down to it, unless  *)
(* disabled, without a policy, or blocked and not enforced.                *)
PathTo[c \in Container] ==
  IF Parent[c] = None THEN <<c>> ELSE Append(PathTo[Parent[c]], c)

Items(c) ==
  LET path == PathTo[c]
      ItemsOf(d) == LET links == Parse(gplink[path[d]])
                    IN [i \in DOMAIN links |-> [link |-> links[i], order |-> i, depth |-> d]]
  IN FlattenSeq([d \in DOMAIN path |-> ItemsOf(d)])

Enforced(item) == "enforced" \in item.link.options
Effective(item) == "disabled" \notin item.link.options /\ item.link.policy \in policies

\* The depth from which links count; the first container that blocks decides.
\* Faulty variant: a container's block stops its own links too.
BlockDepthBelow(c) ==
  LET path == PathTo[c]
      blocks == {d \in 2..Len(path) : path[d] \in blocked}
  IN IF blocks = {} THEN 1 ELSE 1 + CHOOSE d \in blocks : \A e \in blocks : d <= e
BlockDepth(c) ==
  LET path == PathTo[c]
      blocks == {d \in 2..Len(path) : path[d] \in blocked}
  IN IF blocks = {} THEN 1 ELSE CHOOSE d \in blocks : \A e \in blocks : d <= e

\* Faulty variant: in the order of depth alone.
SortedByDepth(items) == items
Sorted(items) ==
  LET forced == {item \in ToSet(items) : Enforced(item)}
  IN Those(items, ToSet(items) \ forced) \o Those(items, forced)

\* In the order of application: the last one wins.
Applied(c) ==
  LET Reaches(item) == Effective(item) /\ (item.depth >= BlockDepth(c) \/ Enforced(item))
  IN Sorted(Those(Items(c), {item \in ToSet(Items(c)) : Reaches(item)}))

---------------------------------------------------------------------------
TypeOK ==
  /\ policies \subseteq Policy /\ blocked \subseteq Container
  /\ gplink \in [Container -> Seq(Link)]
  /\ pc \in [Admin -> {"idle", "target", "read", "write", "find", "delete"}]
  /\ \A a \in Admin : op[a] \in IF pc[a] = "idle" THEN {None} ELSE Op
  /\ DOMAIN op = Admin
  /\ value \in [Admin -> Seq(Link)]
  /\ ops \in 0..MaxOps /\ waived \subseteq Policy

Init ==
  /\ policies = Policy /\ blocked = {}
  /\ gplink \in {g \in [Container -> UNION {Given[c] : c \in Container}] :
                   \A c \in Container : g[c] \in Given[c]}
  /\ pc = [a \in Admin |-> "idle"] /\ op = [a \in Admin |-> None]
  /\ value = [a \in Admin |-> <<>>] /\ ops = 0 /\ waived = {}

\* Operations of one session are serialised by its worker thread.  Those of
\* two sessions may meet on a container, or a deletion may meet any of them,
\* only with Overlapping.
Free(a, o) ==
  \/ Overlapping
  \/ \A b \in {b \in Admin \ {a} : pc[b] # "idle"} :
       "delete" \notin {o.do, op[b].do} /\ o.container # op[b].container

Goto(a, label) == pc' = [pc EXCEPT ![a] = label]
\* Faulty variant: the finished request stays with the session.
ReturnKept(a) ==
  /\ Goto(a, "idle")
  /\ value' = [value EXCEPT ![a] = <<>>] /\ UNCHANGED op
Return(a) ==
  /\ Goto(a, "idle")
  /\ op' = [op EXCEPT ![a] = None] /\ value' = [value EXCEPT ![a] = <<>>]

Begin(a, o) ==
  /\ pc[a] = "idle" /\ ops < MaxOps /\ Free(a, o)
  /\ op' = [op EXCEPT ![a] = o] /\ ops' = ops + 1
  /\ Goto(a, IF o.do \in {"add", "delete"} THEN "target" ELSE "read")
  /\ UNCHANGED <<directoryVars, value, waived>>

\* The policy has to exist for a link to be added, or for a deletion.
Target(a) ==
  /\ pc[a] = "target"
  /\ \/ /\ op[a].policy \notin policies
        /\ Return(a)
     \/ /\ op[a].policy \in policies
        /\ Goto(a, IF op[a].do = "add" THEN "read" ELSE "find")
        /\ UNCHANGED <<op, value>>
  /\ UNCHANGED <<directoryVars, ops, waived>>

\* Faulty variant: a policy that is linked is linked again.
AcceptedAnyAdd(links, o) ==
  CASE o.do = "add" -> TRUE
    [] o.do = "update" -> LinkedIn(links, o.policy) /\ o.order <= Len(links)
    [] OTHER -> LinkedIn(links, o.policy)
Accepted(links, o) ==
  CASE o.do = "add" -> ~LinkedIn(links, o.policy)
    [] o.do = "update" -> LinkedIn(links, o.policy) /\ o.order <= Len(links)
    [] OTHER -> LinkedIn(links, o.policy)

Changed(links, o) ==
  CASE o.do = "add" -> <<[policy |-> o.policy, options |-> o.set]>> \o links
    [] o.do = "update" -> Updated(links, o)
    [] OTHER -> RemoveAt(links, Position(links, o.policy))

\* The container is read; what is written later is computed from this.
Read(a) ==
  LET o == op[a]
      links == Parse(gplink[o.container])
  IN /\ pc[a] = "read"
     /\ \/ /\ IF o.do = "block" THEN (o.container \in blocked) = o.flag ELSE ~Accepted(links, o)
           /\ Return(a)
        \/ /\ o.do = "block" /\ (o.container \in blocked) # o.flag
           /\ Goto(a, "write") /\ UNCHANGED <<op, value>>
        \/ /\ o.do # "block" /\ Accepted(links, o)
           /\ value' = [value EXCEPT ![a] = Changed(links, o)]
           /\ Goto(a, "write") /\ UNCHANGED op
     /\ UNCHANGED <<directoryVars, ops, waived>>

\* The whole attribute is replaced.
Write(a) ==
  LET o == op[a]
  IN /\ pc[a] = "write"
     /\ \/ /\ o.do = "block"
           /\ blocked' = IF o.flag THEN blocked \cup {o.container} ELSE blocked \ {o.container}
           /\ UNCHANGED gplink
        \/ /\ o.do # "block"
           /\ gplink' = [gplink EXCEPT ![o.container] = Format(value[a])]
           /\ UNCHANGED blocked
     /\ Return(a)
     /\ UNCHANGED <<policies, ops, waived>>

\* The containers find_links reports: a partition that cannot be searched is
\* skipped.
\* Faulty variant: the configuration partition is not searched.
FoundInDomain(p, failed) == {c \in Container \ (Site \cup failed) : LinkedIn(gplink[c], p)}
Found(p, failed) == {c \in Container \ failed : LinkedIn(gplink[c], p)}

Find(a) ==
  /\ pc[a] = "find"
  /\ \E failed \in {{}} \cup IF "search" \in Failing
                             THEN {Site, Container \ Site, Container} ELSE {} :
       \/ /\ Found(op[a].policy, failed) # {} /\ ~op[a].flag
          /\ Return(a) /\ UNCHANGED waived
       \/ /\ Found(op[a].policy, failed) = {} \/ op[a].flag
          /\ Goto(a, "delete")
          /\ waived' = IF failed = {} THEN waived ELSE waived \cup {op[a].policy}
          /\ UNCHANGED <<op, value>>
  /\ UNCHANGED <<directoryVars, ops>>

\* Links to it are left where they are.
Delete(a) ==
  /\ pc[a] = "delete"
  /\ policies' = policies \ {op[a].policy}
  /\ waived' = IF op[a].flag THEN waived \cup {op[a].policy} ELSE waived
  /\ Return(a)
  /\ UNCHANGED <<gplink, blocked, ops>>

Step(a) == Target(a) \/ Read(a) \/ Write(a) \/ Find(a) \/ Delete(a)
Next == \E a \in Admin : Step(a) \/ \E o \in Asked : Begin(a, o)

Spec == Init /\ [][Next]_vars

---------------------------------------------------------------------------
(* What linking promises.                                                  *)

\* Reads, writes and the reversed attribute together do one operation of
\* LinkOrder at a time: the other links of a container, their options and
\* their order survive, and a policy is deleted only unlinked, by force, or
\* when a partition could not be searched.
Promise == INSTANCE LinkOrder WITH order <- [c \in Container |-> Parse(gplink[c])]
ImplementsOrder == Promise!Spec

\* No sequence of operations links a policy twice to one container: removing
\* it would leave a link behind that the console has just said is gone.
OneLinkEach == \A c \in Container : LinkedOnce(gplink[c])

\* A link that was asked to move stands, in the list an administrator sees,
\* at the place that was asked for.
MoveLands ==
  \A a \in Admin :
    Write(a) /\ op[a].do = "update" /\ op[a].order > 0 =>
      Parse(gplink'[op[a].container])[op[a].order].policy = op[a].policy
MovesLand == [][MoveLands]_vars

\* A link stops at a block further down only: what is on the way to a
\* container and enabled reaches it, unless it is not enforced and a container
\* below the one it is on blocks.
StoppedByABlockBelow ==
  \A c \in Container :
    LET path == PathTo[c]
        reached == ToSet(Applied(c))
    IN \A item \in ToSet(Items(c)) :
         Effective(item) /\ item \notin reached =>
           /\ ~Enforced(item)
           /\ \E d \in item.depth + 1..Len(path) : path[d] \in blocked

\* Of the policies that reach a container, those linked closer are applied
\* after those from above, and enforced ones after all others.
CloserWins ==
  \A c \in Container :
    LET applied == Applied(c)
    IN \A i, j \in DOMAIN applied :
         \/ Enforced(applied[i]) /\ ~Enforced(applied[j])
         \/ ~Enforced(applied[i]) /\ ~Enforced(applied[j])
            /\ applied[j].depth < applied[i].depth
         => j < i

\* Which policies reach a container and which of them prevails: only blocks
\* below a link stop it, and the closer or enforced one is applied last.
InheritanceHolds == StoppedByABlockBelow /\ CloserWins

---------------------------------------------------------------------------
(* What comments say and the program does not do.                          *)

\* gpmc.py:254 and schemas/requests.py: link order decides which of two
\* policies on one container takes precedence, 1 wins; the last one applied
\* has precedence 1.
OrderOneWins ==
  \A c \in Container :
    LET applied == Applied(c)
    IN \A i, j \in DOMAIN applied :
         /\ applied[i].depth = applied[j].depth
         /\ Enforced(applied[i]) = Enforced(applied[j])
         /\ applied[i].order < applied[j].order
         => j < i

\* gpmc.py:391: a block on a container stops everything inherited from above;
\* gpmc.py:184: except what is enforced.
BlockStopsAllAbove ==
  \A c \in Container :
    LET path == PathTo[c]
    IN \A item \in ToSet(Applied(c)) :
         (\E d \in item.depth + 1..Len(path) : path[d] \in blocked) => Enforced(item)
=============================================================================
