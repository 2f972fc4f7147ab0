------------------------------ MODULE MCGroups ------------------------------
(* An instance of Groups for TLC: groups nested in a cycle, one of them     *)
(* builtin, an account whose primary group is one of them.                  *)
EXTENDS Groups, TLC

Team(type, ms) == [type |-> type, members |-> ms, primary |-> Nobody, text |-> FALSE]
\* With a word of five bits, and 16 for the security bit.
GivenGroups ==
  ("g1" :> Team(8 - 16, <<"g2", "u1">>)) @@
  ("g2" :> Team(2, <<"g3">>)) @@
  ("g3" :> Team(2 - 16, <<"g2">>)) @@
  ("g4" :> Team(4 + 1 - 16, <<"g1", "g2">>)) @@
  ("u1" :> [type |-> 0, members |-> <<>>, primary |-> "g3", text |-> FALSE]) @@
  ("u2" :> [type |-> 0, members |-> <<>>, primary |-> Nobody, text |-> FALSE])
Sams == ("g1" :> "s1") @@ ("g2" :> "s2") @@ ("g3" :> "s3") @@ ("g4" :> "s4") @@ ("g5" :> "s5") @@ ("g6" :> "s5")
GBlank == [do |-> "update", dn |-> "g1", members |-> <<>>, text |-> FALSE, scope |-> "as is",
           security |-> "as is", recursive |-> FALSE, primary |-> FALSE]
GroupRequests ==
  {[GBlank EXCEPT !.dn = g, !.scope = s, !.security = v, !.text = (v = "no")] :
     g \in {"g1", "g2", "g4"}, s \in Scope \cup {"as is"}, v \in {"as is", "no"}}
  \cup {[GBlank EXCEPT !.do = "create", !.dn = g, !.scope = "global"] : g \in {"g5", "g6"}}
  \cup {[GBlank EXCEPT !.do = d, !.dn = g, !.members = ms] :
          d \in {"add", "remove"}, g \in {"g1", "g3"}, ms \in {<<"u2", "u1">>, <<"g2">>, <<"u2", "u2">>, <<"g5">>}}
  \cup {[GBlank EXCEPT !.do = "list members", !.dn = g, !.recursive = r, !.primary = p] :
          g \in {"g3", "g4"}, r, p \in BOOLEAN}
  \cup {[GBlank EXCEPT !.do = "list groups", !.dn = m, !.recursive = r] : m \in {"u1", "g3"}, r \in BOOLEAN}
=============================================================================
