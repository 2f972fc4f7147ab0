----------------------------- MODULE MCAccounts -----------------------------
(* An instance of Accounts for TLC: a template that is a member of Sales by *)
(* its primary group, an administrator by a nested group, and a free name.  *)
EXTENDS Accounts, TLC

CONSTANTS template, member, fresh, users, sales, desk, admins

Nesting == (users :> {users}) @@ (sales :> {sales}) @@ (admins :> {admins}) @@ (desk :> {desk, admins})

GivenAccounts ==
  (fresh :> Absent) @@
  (template :> [flags |-> {"account_disabled", "password_never_expires"}, text |-> FALSE,
         password |-> TRUE, must |-> FALSE, groups |-> {users, desk}, primary |-> sales,
         acl |-> <<"allow everyone", "allow everyone", "inherited deny", "inherited allow">>]) @@
  (member :> [flags |-> {}, text |-> FALSE, password |-> TRUE, must |-> FALSE,
         groups |-> {desk}, primary |-> users,
         acl |-> <<"deny other", "allow self", "allow everyone", "allow other", "inherited deny">>])

ABlank == [do |-> "delete", n |-> member, from |-> member, enabled |-> TRUE, password |-> TRUE, must |-> FALSE,
          never |-> "as template", set |-> {}, clear |-> {}, groups |-> {}, confirm |-> FALSE,
          value |-> FALSE, odd |-> FALSE]
Never_ == {"password_never_expires"}
Disabled == {"account_disabled"}
AccountRequests ==
  {[ABlank EXCEPT !.do = "create", !.n = fresh, !.from = fresh, !.password = p, !.must = b, !.enabled = p, !.set = f] :
     p, b \in BOOLEAN, f \in {{}, Never_}}
  \cup {[ABlank EXCEPT !.do = d, !.n = x, !.from = x, !.odd = TRUE, !.value = TRUE] :
     d \in {"create", "update"}, x \in {member, fresh}}
  \cup {[ABlank EXCEPT !.do = "copy", !.n = fresh, !.from = template, !.must = b, !.never = v, !.groups = g] :
     b \in BOOLEAN, v \in {"as template", "yes"}, g \in {GroupName, {desk}}}
  \cup {[ABlank EXCEPT !.do = "update", !.n = x, !.from = x, !.set = f, !.clear = Never_ \ f, !.confirm = c, !.value = TRUE] :
     x \in {member, fresh}, f \in {Disabled, Never_}, c \in BOOLEAN}
  \cup {[ABlank EXCEPT !.do = d, !.n = member, !.must = b, !.value = b] :
     d \in {"password", "must", "cannot"}, b \in BOOLEAN}
  \cup {[ABlank EXCEPT !.do = "cannot", !.n = template, !.from = template, !.value = b] : b \in BOOLEAN}
  \cup {[ABlank EXCEPT !.do = d, !.groups = {g}] : d \in {"primary", "join", "leave"}, g \in {desk, sales, users}}
  \cup {[ABlank EXCEPT !.do = "delete", !.n = x, !.from = x, !.confirm = c] : x \in {member, fresh}, c \in BOOLEAN}
=============================================================================
