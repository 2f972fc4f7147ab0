------------------------------ MODULE MCZones ------------------------------
(* An instance of Zones for TLC: one zone with records at its own name and  *)
(* at www, spelled two ways, and a serial close to its largest.             *)
EXTENDS Zones, TLC

Soa == [type |-> "SOA", data |-> "soa", serial |-> 1]
A(d) == [type |-> "A", data |-> d, serial |-> 1]
Spelled == ("ip1" :> "ip1") @@ ("ip2" :> "ip2") @@ ("IP1." :> "ip1")
GivenZones ==
  "lan" :> ((Apex :> <<Soa, [type |-> "unreadable", data |-> "raw", serial |-> 0], A("ip1")>>)
             @@ ("www" :> <<A("ip1")>>))
ZBlank == [do |-> "create", zone |-> "lan", node |-> Apex, old |-> "ip1", data |-> "ip2"]
ZRequests ==
  {[ZBlank EXCEPT !.do = d, !.node = n, !.old = o, !.data = x] :
     d \in {"create", "update"}, n \in {Apex, "www"}, o \in {"IP1.", "ip2"}, x \in {"ip2", "IP1."}}
  \cup {[ZBlank EXCEPT !.do = "delete", !.node = n, !.old = o] :
     n \in {Apex, "www"}, o \in {"IP1.", "ip2"}}
  \cup {[ZBlank EXCEPT !.do = d, !.zone = z] : d \in {"create zone", "delete zone"}, z \in {"lan", "sys", "new"}}
=============================================================================
