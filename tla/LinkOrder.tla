----------------------------- MODULE LinkOrder -----------------------------
(***************************************************************************)
(* What linking policies to containers promises, one operation at a time:  *)
(* every container has its policies in an order of precedence, the first   *)
(* one wins, and an operation about one policy leaves the others, their    *)
(* options and their order alone.  GpoLinks implements this with reads and *)
(* writes of whole attributes.                                             *)
(***************************************************************************)
EXTENDS Integers, Sequences

CONSTANTS
  Policy, Container,
  Link          \* a link: which policy, with which options

VARIABLES
  order,        \* per container its links, the first one takes precedence
  policies,     \* the policies that exist
  blocked,      \* the containers that block inheritance
  waived        \* the policies that may go although they are linked
vars == <<order, policies, blocked, waived>>

Linked(c, p) == \E i \in DOMAIN order[c] : order[c][i].policy = p
\* The links of the other policies, in their order.
Others(links, p) ==
  LET i == CHOOSE i \in DOMAIN links : links[i].policy = p
  IN SubSeq(links, 1, i - 1) \o SubSeq(links, i + 1, Len(links))

\* A policy has one place in a container's order.
Init ==
  /\ order \in [Container -> Seq(Link)]
  /\ \A c \in Container : \A i, j \in DOMAIN order[c] :
       order[c][i].policy = order[c][j].policy => i = j
  /\ policies \subseteq Policy /\ blocked \subseteq Container /\ waived = {}

\* A new link wins over the ones that were there, and there is no second one.
Insert(c, link) ==
  /\ link.policy \in policies /\ ~Linked(c, link.policy)
  /\ order' = [order EXCEPT ![c] = <<link>> \o @]
  /\ UNCHANGED <<policies, blocked, waived>>

Remove(c, p) ==
  /\ Linked(c, p)
  /\ order' = [order EXCEPT ![c] = Others(@, p)]
  /\ UNCHANGED <<policies, blocked, waived>>

\* A link gets other options or another place.
Change(c, p) ==
  /\ Linked(c, p)
  /\ \A d \in Container \ {c} : order'[d] = order[d]
  /\ Len(order'[c]) = Len(order[c]) /\ Linked(c, p)'
  /\ Others(order'[c], p) = Others(order[c], p)
  /\ UNCHANGED <<policies, blocked, waived>>

Block(c) ==
  /\ blocked' \in {blocked \cup {c}, blocked \ {c}}
  /\ UNCHANGED <<order, policies, waived>>

\* A policy goes while a link is left only if that was waived before or with it.
Waive(p) ==
  /\ waived' = waived \cup {p}
  /\ UNCHANGED <<order, policies, blocked>>
Delete(p) ==
  /\ waived' \in {waived, waived \cup {p}}
  /\ p \in waived' \/ \A c \in Container : ~Linked(c, p)
  /\ policies' = policies \ {p}
  /\ UNCHANGED <<order, blocked>>

Next ==
  \/ \E c \in Container :
       \/ \E link \in Link : Insert(c, link)
       \/ \E p \in Policy : Remove(c, p) \/ Change(c, p)
       \/ Block(c)
  \/ \E p \in Policy : Waive(p) \/ Delete(p)

Spec == Init /\ [][Next]_vars
=============================================================================
