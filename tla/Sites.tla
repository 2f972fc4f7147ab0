-------------------------------- MODULE Sites --------------------------------
(***************************************************************************)
(* Sites, subnets, servers and site links (src/backend/samadcon/ad/        *)
(* sites.py) and the UPN suffixes (ad/upn.py): the configuration partition *)
(* the whole forest shares.                                                *)
(*                                                                         *)
(* An operation is a plan of requests, one step each, and those of other   *)
(* sessions arrive in between.  References between objects are links: the  *)
(* directory keeps them pointing at a renamed site, drops them with a      *)
(* deleted one, and refuses to write one to a site that is not there.      *)
(***************************************************************************)
EXTENDS FiniteSets, Sequences, SequencesExt, Integers, Collections

CONSTANTS
  SAdmin,             \* sessions
  SiteDn, SiteName,   \* site DNs as written, and the name each comes down to
  Valid,              \* names that can be DNS labels
  Server, Subnet, SiteLink,
  Prefix,             \* subnet -> [address, length], of Width bits
  Width,
  Suffix, Folded,     \* suffixes as written, and in lower case
  Domains,            \* the forest's domains, in lower case
  Laid,               \* the topology at the start
  SAsked,             \* the requests sessions may make
  SFailing,           \* {"call"} if a request to the DC may fail, else {}
  MaxSiteOps, MaxIds  \* bounds: operations begun, sites ever made

NoSite == 0
Names == {SiteName[d] : d \in SiteDn}
Ids == 1..MaxIds
LeastCost == 1
MostCost == 32767
LeastInterval == 15
MostInterval == 10080

SiteEntry == [id : Ids, settings : BOOLEAN, servers : BOOLEAN]
LinkEntry == [sites : SUBSET Ids, cost : LeastCost..MostCost, interval : LeastInterval..MostInterval]
Topology ==
  [sites : UNION {[S -> SiteEntry] : S \in SUBSET Names},
   servers : SUBSET (Server \X Ids),
   subnets : UNION {[S -> Ids \cup {NoSite}] : S \in SUBSET Subnet},
   links : UNION {[S -> LinkEntry] : S \in SUBSET SiteLink},
   suffixes : Seq(Suffix)]

SiteRequest ==
  [do : {"create site", "rename site", "delete site", "move server", "create subnet", "update subnet",
         "delete subnet", "create link", "update link", "delete link", "set suffixes"},
   site : SiteDn, to : SiteDn, server : Server, subnet : Subnet, link : SiteLink,
   assign : BOOLEAN, clear : BOOLEAN, members : Seq(SiteDn), cost : Nat, interval : Nat, suffixes : Seq(Suffix)]

ASSUME SiteConstants ==
  /\ SAsked \subseteq SiteRequest
  /\ Valid \subseteq Names /\ Width \in Nat /\ MaxSiteOps \in Nat /\ MaxIds \in Nat

(* The partition as it is found: the sites are numbered, each server is in  *)
(* the container of a site, and references lead to sites that are there.    *)
ASSUME LaidSound ==
  /\ DOMAIN Laid = {"sites", "servers", "subnets", "links", "suffixes"}
  /\ IsFiniteSet(DOMAIN Laid.sites) /\ Laid.servers \subseteq Server \X Ids
  /\ \A n \in DOMAIN Laid.sites : Laid.sites[n] \in SiteEntry /\ Laid.sites[n].id <= Cardinality(DOMAIN Laid.sites)
  /\ \A k \in DOMAIN Laid.links : Laid.links[k] \in LinkEntry
  /\ \A n, m \in DOMAIN Laid.sites : Laid.sites[n].id = Laid.sites[m].id => n = m
  /\ \A p \in Laid.servers : \E n \in DOMAIN Laid.sites : Laid.sites[n].id = p[2] /\ Laid.sites[n].servers
  /\ \A n \in DOMAIN Laid.subnets : Laid.subnets[n] \in {NoSite} \cup {Laid.sites[m].id : m \in DOMAIN Laid.sites}
  /\ \A k \in DOMAIN Laid.links : Laid.links[k].sites \subseteq {Laid.sites[m].id : m \in DOMAIN Laid.sites}

VARIABLES
  topo,     \* the configuration partition
  order,    \* per session, its operation
  siteOps,  \* operations begun, against the bound
  made      \* sites made so far: the last id given out

siteVars == <<topo, order, siteOps, made>>
SIdle(why) == [do |-> "none", todo |-> <<>>, result |-> why]

SitesInit ==
  /\ topo = Laid
  /\ order = [a \in SAdmin |-> SIdle("ok")]
  /\ siteOps = 0
  /\ made = Cardinality(DOMAIN Laid.sites)

Has(dn) == SiteName[dn] \in DOMAIN topo.sites
At1(dn) == topo.sites[SiteName[dn]]
SiteIds == {topo.sites[n].id : n \in DOMAIN topo.sites}
ListNone(dn) == {}
ListServers(dn) == IF At1(dn).servers THEN {s \in Server : <<s, At1(dn).id>> \in topo.servers} ELSE {}
ListSubnets(dn) == {n \in DOMAIN topo.subnets : topo.subnets[n] = At1(dn).id}

(***************************************************************************)
(* What is checked before anything is asked of the directory               *)
(***************************************************************************)
InTo(value, least, most) == value >= least /\ value <= most + 1
InRange(value, least, most) == value >= least /\ value <= most

(* A subnet is named by its network address: no bit beyond the prefix.     *)
NormaliseSubnet(p) == p.address % (2 ^ (Width - p.length)) = 0

(* Written differently, a site is still the same member.                   *)
MembersAsTyped(dns) == ToSet(dns)
Members(dns) == {SiteName[d] : d \in ToSet(dns)}

NormaliseAsTyped(suffixes) ==
  FoldLeft(LAMBDA seen, s : IF s \in ToSet(seen) THEN seen ELSE Append(seen, s), <<>>, suffixes)
Normalise(suffixes) ==
  FoldLeft(LAMBDA seen, s : IF \E t \in ToSet(seen) : Folded[t] = Folded[s] THEN seen ELSE Append(seen, s),
           <<>>, suffixes)

Refused(r) ==
  CASE r.do = "create site"   -> SiteName[r.site] \notin Valid
    [] r.do = "rename site"   -> SiteName[r.to] \notin Valid
    [] r.do = "create subnet" -> ~NormaliseSubnet(Prefix[r.subnet])
    [] r.do \in {"create link", "update link"} ->
         \/ Cardinality(Members(r.members)) < 2
         \/ ~InRange(r.cost, LeastCost, MostCost) \/ ~InRange(r.interval, LeastInterval, MostInterval)
    [] r.do = "set suffixes"  -> \E s \in ToSet(r.suffixes) : Folded[s] \in Domains
    [] OTHER                  -> FALSE

MembersThere(r) == [i \in 1..Len(r.members) |-> <<"site there", r.members[i]>>]
SiteThere(r) == IF r.assign THEN << <<"site there", r.site>> >> ELSE <<>>
One(step, r) == <<step, r.site>>

SitePlan(r) ==
  CASE r.do = "create site"   -> <<One("site free", r), One("site add", r), One("settings add", r), One("servers add", r)>>
    [] r.do = "rename site"   ->
         IF SiteName[r.to] = SiteName[r.site] THEN <<>> ELSE << <<"site free", r.to>>, One("site rename", r)>>
    [] r.do = "delete site"   -> <<One("site there", r), One("no servers", r), One("no subnets", r), One("site delete", r)>>
    [] r.do = "move server"   ->
         <<One("server there", r), <<"site there", r.to>>, <<"container there", r.to>>>>
         \o (IF SiteName[r.to] = SiteName[r.site] THEN <<>> ELSE << <<"server free", r.to>>, One("server move", r)>>)
    [] r.do = "create subnet" -> <<One("subnet free", r)>> \o SiteThere(r) \o <<One("subnet write", r)>>
    [] r.do = "update subnet" -> <<One("subnet there", r)>> \o SiteThere(r) \o <<One("subnet write", r)>>
    [] r.do = "delete subnet" -> <<One("subnet there", r), One("subnet delete", r)>>
    [] r.do = "create link"   -> MembersThere(r) \o <<One("link free", r), One("link write", r)>>
    [] r.do = "update link"   -> <<One("link there", r)>> \o MembersThere(r) \o <<One("link write", r)>>
    [] r.do = "delete link"   -> <<One("link there", r), One("link delete", r)>>
    [] OTHER                  -> <<One("suffixes write", r)>>

Ordered(a) == order[a].todo # <<>>
SBegin(a) ==
  /\ ~Ordered(a) /\ siteOps < MaxSiteOps
  /\ \E r \in {q \in SAsked : ~Refused(q) /\ SitePlan(q) # <<>>} :
       order' = [order EXCEPT ![a] = Extended(r,
         [todo |-> SitePlan(r), result |-> "none",
          nth |-> siteOps + 1, alone |-> \A b \in SAdmin \ {a} : ~Ordered(b)])]
  /\ siteOps' = siteOps + 1
  /\ UNCHANGED <<topo, made>>

SAt(a, step) == Ordered(a) /\ Head(order[a].todo)[1] = step
Asks(a) == Head(order[a].todo)[2]
SGoes(a) ==
  LET op == order[a] IN
  order' = [order EXCEPT ![a] = IF Len(op.todo) > 1 THEN [op EXCEPT !.todo = Tail(@)] ELSE SIdle("ok")]
SStops(a) == order' = [order EXCEPT ![a] = SIdle("refused")] /\ UNCHANGED <<topo, siteOps, made>>
SReads(a, ok) == IF ok THEN SGoes(a) /\ UNCHANGED <<topo, siteOps, made>> ELSE SStops(a)
SWrites(a, ok, new) == IF ok THEN topo' = new /\ SGoes(a) /\ UNCHANGED <<siteOps, made>> ELSE SStops(a)

(***************************************************************************)
(* Questions                                                               *)
(***************************************************************************)
Ask(a) ==
  LET r == order[a] IN
  \/ SAt(a, "site free")       /\ SReads(a, ~Has(Asks(a)))
  \/ SAt(a, "site there")      /\ SReads(a, Has(Asks(a)))
  \/ SAt(a, "no servers")      /\ SReads(a, ~Has(Asks(a)) \/ ListServers(Asks(a)) = {})
  \/ SAt(a, "no subnets")      /\ SReads(a, ~Has(Asks(a)) \/ ListSubnets(Asks(a)) = {})
  \/ SAt(a, "server there")    /\ SReads(a, Has(Asks(a)) /\ r.server \in ListServers(Asks(a)))
  \/ SAt(a, "container there") /\ SReads(a, Has(Asks(a)) /\ At1(Asks(a)).servers)
  \/ SAt(a, "server free")     /\ SReads(a, ~Has(Asks(a)) \/ r.server \notin ListServers(Asks(a)))
  \/ SAt(a, "subnet free")     /\ SReads(a, r.subnet \notin DOMAIN topo.subnets)
  \/ SAt(a, "subnet there")    /\ SReads(a, r.subnet \in DOMAIN topo.subnets)
  \/ SAt(a, "link free")       /\ SReads(a, r.link \notin DOMAIN topo.links)
  \/ SAt(a, "link there")      /\ SReads(a, r.link \in DOMAIN topo.links)

(***************************************************************************)
(* Changes; the directory refuses what no longer fits                      *)
(***************************************************************************)
Set(f, x, v) == [y \in DOMAIN f \cup {x} |-> IF y = x THEN v ELSE f[y]]
Cut(f, x) == [y \in DOMAIN f \ {x} |-> f[y]]

SiteAdd(a) ==
  /\ SAt(a, "site add")
  /\ IF Has(Asks(a)) \/ made = MaxIds THEN SStops(a)
     ELSE /\ topo' = [topo EXCEPT !.sites = Set(@, SiteName[Asks(a)], [id |-> made + 1, settings |-> FALSE, servers |-> FALSE])]
          /\ made' = made + 1
          /\ SGoes(a) /\ UNCHANGED siteOps
SettingsAdd(a) ==
  /\ SAt(a, "settings add")
  /\ SWrites(a, Has(Asks(a)) /\ ~At1(Asks(a)).settings, [topo EXCEPT !.sites[SiteName[Asks(a)]].settings = TRUE])
ServersAdd(a) ==
  /\ SAt(a, "servers add")
  /\ SWrites(a, Has(Asks(a)) /\ ~At1(Asks(a)).servers, [topo EXCEPT !.sites[SiteName[Asks(a)]].servers = TRUE])
SiteRename(a) ==
  LET from == SiteName[order[a].site]  to == SiteName[order[a].to] IN
  /\ SAt(a, "site rename")
  /\ SWrites(a, from \in DOMAIN topo.sites /\ to \notin DOMAIN topo.sites,
             [topo EXCEPT !.sites = Cut(Set(@, to, @[from]), from)])
Unassigned(subnets, id) == [n \in DOMAIN subnets |-> IF subnets[n] = id THEN NoSite ELSE subnets[n]]
Unlinked(links, id) == [k \in DOMAIN links |-> [links[k] EXCEPT !.sites = @ \ {id}]]
SiteDelete(a) ==
  LET id == At1(Asks(a)).id IN
  /\ SAt(a, "site delete")
  /\ SWrites(a, Has(Asks(a)),
       [topo EXCEPT !.sites = Cut(@, SiteName[Asks(a)]),
                    !.servers = {p \in @ : p[2] # id},
                    !.subnets = Unassigned(@, id),
                    !.links = Unlinked(@, id)])
ServerMove(a) ==
  LET r == order[a]  from == <<r.server, At1(r.site).id>>  to == <<r.server, At1(r.to).id>> IN
  /\ SAt(a, "server move")
  /\ SWrites(a, Has(r.site) /\ Has(r.to) /\ At1(r.to).servers /\ from \in topo.servers /\ to \notin topo.servers,
             [topo EXCEPT !.servers = (@ \ {from}) \cup {to}])

SubnetSite(r) == IF r.clear THEN NoSite ELSE IF r.assign THEN At1(r.site).id
                 ELSE IF r.subnet \in DOMAIN topo.subnets THEN topo.subnets[r.subnet] ELSE NoSite
SubnetWrite(a) ==
  LET r == order[a] IN
  /\ SAt(a, "subnet write")
  /\ SWrites(a, ((r.do = "create subnet") # (r.subnet \in DOMAIN topo.subnets)) /\ (r.clear \/ ~r.assign \/ Has(r.site)),
             [topo EXCEPT !.subnets = Set(@, r.subnet, SubnetSite(r))])
SubnetDelete(a) ==
  /\ SAt(a, "subnet delete")
  /\ SWrites(a, order[a].subnet \in DOMAIN topo.subnets, [topo EXCEPT !.subnets = Cut(@, order[a].subnet)])

LinkWrite(a) ==
  LET r == order[a] IN
  /\ SAt(a, "link write")
  /\ SWrites(a, ((r.do = "create link") # (r.link \in DOMAIN topo.links)) /\ \A d \in ToSet(r.members) : Has(d),
             [topo EXCEPT !.links = Set(@, r.link,
                [sites |-> {At1(d).id : d \in ToSet(r.members)}, cost |-> r.cost, interval |-> r.interval])])
LinkDelete(a) ==
  /\ SAt(a, "link delete")
  /\ SWrites(a, order[a].link \in DOMAIN topo.links, [topo EXCEPT !.links = Cut(@, order[a].link)])

SuffixesWrite(a) ==
  /\ SAt(a, "suffixes write")
  /\ SWrites(a, TRUE, [topo EXCEPT !.suffixes = Normalise(order[a].suffixes)])

SFails(a) == "call" \in SFailing /\ Ordered(a) /\ SStops(a)

SitesNext ==
  \E a \in SAdmin :
    \/ SBegin(a) \/ Ask(a)
    \/ SiteAdd(a) \/ SettingsAdd(a) \/ ServersAdd(a) \/ SiteRename(a) \/ SiteDelete(a)
    \/ ServerMove(a) \/ SubnetWrite(a) \/ SubnetDelete(a) \/ LinkWrite(a) \/ LinkDelete(a)
    \/ SuffixesWrite(a) \/ SFails(a)

SitesSpec == SitesInit /\ [][SitesNext]_siteVars

-----------------------------------------------------------------------------
(* No suffix is listed twice under two spellings.                          *)
SuffixesTell == \A i, j \in DOMAIN topo.suffixes : i # j => Folded[topo.suffixes[i]] # Folded[topo.suffixes[j]]

(* References lead to sites that are there, costs and intervals stay in    *)
(* the range of the schema.                                                *)
SitesTypeOK ==
  /\ siteOps \in 0..MaxSiteOps /\ made \in 0..MaxIds /\ SuffixesTell
  /\ DOMAIN topo.sites \subseteq Names /\ Cardinality(SiteIds) = Cardinality(DOMAIN topo.sites)
  /\ topo.servers \subseteq Server \X SiteIds
  /\ \A n \in DOMAIN topo.subnets : topo.subnets[n] \in SiteIds \cup {NoSite}
  /\ \A k \in DOMAIN topo.links :
       /\ topo.links[k].sites \subseteq SiteIds
       /\ topo.links[k].cost \in LeastCost..MostCost /\ topo.links[k].interval \in LeastInterval..MostInterval

SUndisturbed(a) == order[a].alone /\ siteOps = order[a].nth

(* A site is not deleted out from under a domain controller, and no subnet *)
(* loses its site with it, unless another session crossed the deletion.    *)
DeletedEmpty ==
  \A a \in SAdmin : SAt(a, "site delete") /\ order'[a] # order[a] /\ SUndisturbed(a) =>
    /\ topo'.servers = topo.servers
    /\ \A n \in DOMAIN topo.subnets : topo'.subnets[n] = topo.subnets[n]

(* A link is written only between two sites or more that exist at that     *)
(* moment, however their names were spelled and whoever deletes sites.     *)
LinksJoin ==
  \A a \in SAdmin : SAt(a, "link write") /\ order'[a] # order[a] /\ topo' # topo =>
    Cardinality(topo'.links[order[a].link].sites) >= 2

(* No operation cuts a server, a subnet or a link off from its sites.      *)
ReferencesHold == [][DeletedEmpty /\ LinksJoin]_siteVars

(* Every link joins two sites at least.                                    *)
LinksStayJoined == \A k \in DOMAIN topo.links : Cardinality(topo.links[k].sites) >= 2

(* A site made here has what a server needs to be moved into it, once the  *)
(* operation that makes it has ended.                                      *)
SitesComplete ==
  (\A a \in SAdmin : ~Ordered(a)) => \A n \in DOMAIN topo.sites : topo.sites[n].settings /\ topo.sites[n].servers
=============================================================================
