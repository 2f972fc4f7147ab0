------------------------------- MODULE MCTree -------------------------------
(* An instance of Tree for TLC: staff holds a computer and a guarded unit   *)
(* vip; depot is empty.                                                     *)
EXTENDS Tree, TLC

Plain == [kind |-> "ou", critical |-> FALSE, admin |-> FALSE, text |-> FALSE,
          acl |-> <<"allow x", "inherited deny", "inherited allow">>]
GivenTree ==
  (<<"d">> :> Plain) @@ (<<"d", "staff">> :> Plain) @@
  (<<"d", "staff", "vip">> :> Plain) @@
  (<<"d", "staff", "vip", "boss">> :> [Plain EXCEPT !.kind = "user", !.admin = TRUE]) @@
  (<<"d", "depot">> :> [Plain EXCEPT !.acl = <<"protect", "allow x", "inherited allow">>]) @@
  (<<"d", "depot", "pc">> :> [Plain EXCEPT !.kind = "computer"]) @@
  (<<"d", "depot", "root">> :> [Plain EXCEPT !.kind = "user", !.admin = TRUE])
Vip == {<<"d", "staff", "vip">>}
Units == {<<"d", "staff">>, <<"d", "depot">>}
TBlank == [do |-> "delete", dn |-> <<"d", "staff">>, to |-> <<"d">>, value |-> FALSE, protect |-> "no",
          recursive |-> FALSE, confirm |-> FALSE, remove |-> {}, add |-> <<>>]
TreeRequests ==
  {[TBlank EXCEPT !.do = "create ou", !.dn = Append(p, "new"), !.to = p, !.protect = v] :
     p \in Units \cup {<<"d", "staff", "vip">>}, v \in {"yes", "no"}}
  \cup {[TBlank EXCEPT !.do = "create computer", !.dn = Append(p, "pc"), !.to = p] : p \in Units}
  \cup {[TBlank EXCEPT !.do = "update", !.dn = u, !.value = v, !.protect = p] :
          u \in Units, v \in BOOLEAN, p \in {"yes", "no"}}
  \cup {[TBlank EXCEPT !.do = "attributes", !.dn = <<"d", "staff", "vip", "boss">>, !.value = TRUE]}
  \cup {[TBlank EXCEPT !.do = "protect", !.dn = u, !.protect = p] :
          u \in Units \cup {<<"d", "staff", "vip">>}, p \in {"yes", "no"}}
  \cup {[TBlank EXCEPT !.do = "delete ou", !.dn = u, !.recursive = r] : u \in Units, r \in BOOLEAN}
  \cup {[TBlank EXCEPT !.dn = n, !.recursive = r, !.confirm = c] :
          n \in {<<"d", "staff">>, <<"d", "depot", "root">>, <<"d", "staff", "vip", "boss">>}, r, c \in BOOLEAN}
  \cup {[TBlank EXCEPT !.do = "move", !.dn = n, !.to = p] :
          n \in {<<"d", "depot">>, <<"d", "staff">>, <<"d", "staff", "vip", "boss">>, <<"d", "depot", "pc">>},
          p \in Units \cup {<<"d", "staff", "vip">>}}
  \cup {[TBlank EXCEPT !.do = "rename", !.dn = n, !.to = p] :
          n \in Units \cup {<<"d", "staff", "vip">>}, p \in {<<"d", "staff">>, <<"d", "new">>}}
  \cup {[TBlank EXCEPT !.do = d, !.dn = u, !.value = v, !.add = <<e>>] :
          d \in {"add ace", "delegate"}, u \in {<<"d", "depot">>}, v \in BOOLEAN, e \in {"deny x", "allow y"}}
  \cup {[TBlank EXCEPT !.do = "delegate", !.dn = <<"d", "depot">>, !.value = TRUE, !.add = <<"allow y", "deny x">>]}
  \cup {[TBlank EXCEPT !.do = "remove ace", !.dn = <<"d", "depot">>, !.value = v, !.remove = {i}] : v \in BOOLEAN, i \in 1..2}
  \cup {[TBlank EXCEPT !.do = "change acl", !.dn = u, !.remove = i, !.add = x] :
          u \in Units, i \in {{}, {1}, {2}}, x \in {<<"deny x">>, <<"allow y", "deny x">>, <<"allow y", "allow y">>, <<"allow x">>}}
=============================================================================
