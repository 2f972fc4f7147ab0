------------------------------ MODULE MCSites ------------------------------
(* An instance of Sites for TLC: two sites, one of them written in two     *)
(* ways, a server and a subnet in the first, and a name to make a third.   *)
EXTENDS Sites, TLC

SiteSpelled == ("A" :> "a") @@ ("B" :> "b") @@ ("b" :> "b") @@ ("C" :> "c") @@ ("d d" :> "d d")
Lower == ("X.de" :> "x.de") @@ ("x.de" :> "x.de") @@ ("y.de" :> "y.de")
Networks == ("n1" :> [address |-> 4, length |-> 1]) @@ ("n2" :> [address |-> 5, length |-> 2])
          @@ ("n3" :> [address |-> 6, length |-> 2])
LaidOut ==
  [sites |-> ("a" :> [id |-> 1, settings |-> TRUE, servers |-> TRUE]) @@ ("b" :> [id |-> 2, settings |-> TRUE, servers |-> TRUE]),
   servers |-> {<<"dc1", 1>>}, subnets |-> ("n1" :> 1),
   links |-> ("l1" :> [sites |-> {1, 2}, cost |-> 100, interval |-> 180]), suffixes |-> <<"y.de">>]
SBlank == [do |-> "create site", site |-> "A", to |-> "B", server |-> "dc1", subnet |-> "n1", link |-> "l1",
           assign |-> FALSE, clear |-> FALSE, members |-> <<>>, cost |-> 100, interval |-> 180, suffixes |-> <<>>]
SiteRequests ==
  {[SBlank EXCEPT !.site = n] : n \in {"C", "d d"}}
  \cup {[SBlank EXCEPT !.do = "rename site", !.site = n, !.to = m] : n \in {"A", "b"}, m \in {"B", "C"}}
  \cup {[SBlank EXCEPT !.do = "delete site", !.site = n] : n \in {"A", "B", "C"}}
  \cup {[SBlank EXCEPT !.do = "move server", !.site = n, !.to = m] : n \in {"A", "B"}, m \in {"A", "b", "C"}}
  \cup {[SBlank EXCEPT !.do = "create subnet", !.subnet = n, !.assign = TRUE, !.site = "B"] : n \in {"n2", "n3"}}
  \cup {[SBlank EXCEPT !.do = "update subnet", !.assign = TRUE, !.site = "B"],
        [SBlank EXCEPT !.do = "update subnet", !.clear = TRUE], [SBlank EXCEPT !.do = "delete subnet"],
        [SBlank EXCEPT !.do = "delete link"], [SBlank EXCEPT !.do = "set suffixes", !.suffixes = <<"X.de", "y.de", "x.de">>]}
  \cup {[SBlank EXCEPT !.do = d, !.link = k, !.members = ms, !.cost = c] :
          d \in {"create link", "update link"}, k \in {"l1", "l2"}, ms \in {<<"A", "b">>, <<"B", "b">>},
          c \in {100, 32768}}
=============================================================================
