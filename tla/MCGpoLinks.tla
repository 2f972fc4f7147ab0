----------------------------- MODULE MCGpoLinks -----------------------------
(***************************************************************************)
(* Instances of GpoLinks for TLC: a domain with an organisational unit in  *)
(* it and one in that, and a site.                                         *)
(***************************************************************************)
EXTENDS GpoLinks, TLC

CONSTANTS A, B, dom, ou, sub, site

Above == (dom :> None) @@ (ou :> dom) @@ (sub :> ou) @@ (site :> None)

L(p, options) == [policy |-> p, options |-> options]
Two == <<L(A, {}), L(B, {"enforced"})>>
\* The units are given up to two links, the domain and the site up to one.
SomeLinks ==
  (dom :> {<<L(A, {"enforced"})>>, <<L(B, {})>>}) @@ (ou :> {<<>>, Two}) @@
  (sub :> {<<>>, <<L(B, {"disabled"})>>}) @@ (site :> {<<>>, <<L(A, {})>>})

R(do, p, c, s, t, k, b) ==
  [do |-> do, policy |-> p, container |-> c, set |-> s, clear |-> t, order |-> k, flag |-> b]
\* Everything on the unit in the middle, and either way to delete a policy.
SomeOps ==
  {R("add", p, c, s, {}, 0, FALSE) : p \in {A, B}, c \in {dom, ou}, s \in {{}, {"enforced"}}}
  \cup {R("remove", p, c, {}, {}, 0, FALSE) : p \in {A, B}, c \in {ou, sub}}
  \cup {R("update", p, ou, s, {"enforced"}, k, FALSE) : p \in {A, B}, s \in {{}, {"disabled"}}, k \in 0..3}
  \cup {R("block", A, c, {}, {}, 0, b) : c \in {ou, sub}, b \in BOOLEAN}
  \cup {R("delete", A, ou, {}, {}, 0, b) : b \in BOOLEAN}
=============================================================================
