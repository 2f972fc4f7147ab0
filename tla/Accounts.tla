------------------------------ MODULE Accounts ------------------------------
(***************************************************************************)
(* User accounts (src/backend/samadcon/ad/users.py, uac.py, and the        *)
(* membership half of groups.py): creating and copying an account, its     *)
(* options, its password, "must change" and "cannot change", its groups    *)
(* and its deletion.                                                       *)
(*                                                                         *)
(* An operation is a plan, the sequence of requests its handler sends to   *)
(* the domain controller; each request is one step, and between two steps  *)
(* other sessions' requests arrive.  What the controller does by itself is *)
(* in Born, Joined and SetPrimary, and marked so.                          *)
(***************************************************************************)
EXTENDS FiniteSets, Sequences, SequencesExt, Naturals, Collections

CONSTANTS
  AAdmin,        \* sessions
  Username,       \* names of accounts
  GroupName,
  Administrator, \* the account with RID 500
  DomainUsers,   \* the group every account starts with as its primary
  AdminGroup,    \* groups whose members administer the domain
  Token,         \* per group, the groups its members are in, nesting resolved by the DC
  Absent,        \* no such account
  Existing,      \* the accounts at the start
  AAsked,        \* the requests sessions may make
  AFailing,      \* {"call"} if a request to the DC may fail, else {}
  AOverlapping,  \* whether sessions may work on one account at the same time
  MaxAccountOps  \* bound: operations begun

ASSUME AccountConstants ==
  /\ DomainUsers \in GroupName /\ AdminGroup \subseteq GroupName
  /\ Token \in [GroupName -> SUBSET GroupName]
  /\ \A g \in GroupName : g \in Token[g]
  /\ MaxAccountOps \in Nat /\ AOverlapping \in BOOLEAN

(* Options in userAccountControl; "text" stands for any attribute beside.  *)
Flag == {"account_disabled", "password_never_expires", "smartcard_required"}

(* Entries of an access list: the Change Password right allowed or denied  *)
(* to SELF and Everyone, another explicit entry, one that is inherited.    *)
Change == {"allow self", "allow everyone", "deny self", "deny everyone"}
Inherited == {"inherited allow", "inherited deny"}
Ace == Change \cup {"deny other", "allow other"} \cup Inherited

User == [flags : SUBSET Flag, text : BOOLEAN, password : BOOLEAN, must : BOOLEAN,
         acl : Seq(Ace), groups : SUBSET GroupName, primary : GroupName]

(* What a request says; each route reads the fields that are its own.      *)
Request ==
  [do : {"create", "copy", "update", "password", "must", "cannot", "primary", "join", "leave",
         "delete"},
   n : Username, from : Username, enabled : BOOLEAN, password : BOOLEAN, must : BOOLEAN,
   never : {"yes", "no", "as template"}, set : SUBSET Flag, clear : SUBSET Flag,
   groups : SUBSET GroupName, confirm : BOOLEAN, value : BOOLEAN,
   odd : BOOLEAN]  \* whether it names an option nobody may set

ASSUME AskedAccounts == AAsked \subseteq Request

VARIABLES
  accounts,  \* the directory: account or Absent, per name
  acting,    \* per session, its operation
  opsBegun   \* operations begun, against the bound

accountVars == <<accounts, acting, opsBegun>>

\* An operation that is over leaves its result.
Over(why) == [do |-> "none", todo |-> <<>>, result |-> why]

AccountsInit ==
  /\ accounts = Existing
  /\ acting = [a \in AAdmin |-> Over("ok")]
  /\ opsBegun = 0

(***************************************************************************)
(* Rules                                                                   *)
(***************************************************************************)
Cannot(acl) == \E i \in DOMAIN acl : acl[i] \in {"deny self", "deny everyone"}

WithCannotLast(acl, value) ==
  Those(acl, Ace \ Change)
    \o (IF value THEN <<"deny self", "deny everyone">> ELSE <<"allow self", "allow everyone">>)

\* How many entries come before the first of these; all of them if it has none.
Ahead(s, stops) ==
  CHOOSE n \in 0..Len(s) :
    /\ \A i \in 1..n : s[i] \notin stops
    /\ n < Len(s) => s[n + 1] \in stops

(* The list with the option set or cleared: every explicit entry of the    *)
(* right goes and two come back, denies ahead of the allows, allows ahead  *)
(* of what is inherited.  A list that says it already is left as it is.    *)
WithCannot(acl, value) ==
  LET wanted == IF value THEN <<"deny self", "deny everyone">>
                         ELSE <<"allow self", "allow everyone">>
      present == Those(acl, Change)
      kept == Those(acl, Ace \ Change)
      at == Ahead(kept, IF value THEN {"allow other", "inherited allow"} ELSE Inherited)
  IN IF Len(present) = 2 /\ ToSet(present) = ToSet(wanted) THEN acl
     ELSE SubSeq(kept, 1, at) \o wanted \o SubSeq(kept, at + 1, Len(kept))

(* The directory at the start has accounts of this type, and none of them  *)
(* says both "must change" and "cannot change".                            *)
ASSUME AccountsGiven ==
  /\ Existing \in [Username -> User \cup {Absent}] /\ Absent \notin User
  /\ \A n \in Username : Existing[n] # Absent =>
       /\ Existing[n].primary \notin Existing[n].groups
       /\ ~(Existing[n].must /\ Cannot(Existing[n].acl))

TokenGroupsDirect(u) == u.groups \cup {u.primary}

(* tokenGroups, as the DC computes it.                                     *)
TokenGroups(u) == UNION {Token[g] : g \in u.groups \cup {u.primary}}
AdministrativeRole(n, u) == n = Administrator \/ TokenGroups(u) \cap AdminGroup # {}

(* What "Copy" takes from the template's options: all but being disabled,  *)
(* and "never expires" as the caller says; unsaid, "must change" wins.     *)
CopiedFlags(u, r) ==
  LET own == u.flags \ {"account_disabled"}
      never == \/ r.never = "yes"
               \/ /\ r.never = "as template" /\ ~r.must
                  /\ "password_never_expires" \in own
  IN (own \ {"password_never_expires"})
       \cup (IF never THEN {"password_never_expires"} ELSE {})

TemplateGroupsAll(u) == u.groups \cup {u.primary}

(* The groups a copy is offered: not Domain Users, where it is born, but   *)
(* the primary group when that is another.                                 *)
TemplateGroups(u) == (u.groups \cup {u.primary}) \ {DomainUsers}

Apply(flags, set, clear) == (flags \cup set) \ clear

(* What the DC makes of an added account: no password, which counts as one *)
(* to be changed, Domain Users, and the access list of the schema.         *)
Born == [flags |-> {"account_disabled"}, text |-> FALSE, password |-> FALSE, must |-> TRUE,
         acl |-> <<"allow self", "allow everyone", "allow other", "inherited allow">>,
         groups |-> {}, primary |-> DomainUsers]

(***************************************************************************)
(* Plans                                                                   *)
(***************************************************************************)
CreationSteps(r) ==
  IF ~r.password THEN <<"refuse", "add", "options", "made">>
  ELSE IF r.must THEN <<"refuse", "add", "force", "password", "stamp", "options", "made">>
  ELSE <<"refuse", "add", "password", "stamp", "options", "made">>

Plan(r) ==
  CASE r.do = "create"   -> CreationSteps(r)
    [] r.do = "copy"     -> <<"template">> \o CreationSteps(r) \o <<"groups", "primary", "shown">>
    [] r.do = "update"   -> <<"refuse", "text", "read", "write">>
    [] r.do = "password" -> <<"refuse", "password", "stamp">>
    [] r.do = "must"     -> <<"refuse", "stamp">>
    [] r.do = "cannot"   -> <<"refuse", "read", "acl">>
    [] r.do = "primary"  -> <<"refuse", "primary">>
    [] r.do = "join"     -> <<"refuse", "join">>
    [] r.do = "leave"    -> <<"leave">>
    [] r.do = "delete"   -> <<"refuse", "delete">>

Busy(a) == acting[a].todo # <<>>
(* No other session is at work on the accounts of a request.               *)
Apart(a, r) ==
  \A b \in AAdmin \ {a} : Busy(b) => {acting[b].n, acting[b].from} \cap {r.n, r.from} = {}

Begin(a) ==
  /\ ~Busy(a) /\ opsBegun < MaxAccountOps
  /\ \E r \in AAsked :
       /\ AOverlapping \/ Apart(a, r)
       /\ acting' = [acting EXCEPT ![a] = Extended(r,
            [todo |-> Plan(r), result |-> "none", seen |-> Absent,
             before |-> accounts[r.n], added |-> FALSE, left |-> {}, failed |-> {}])]
  /\ opsBegun' = opsBegun + 1
  /\ UNCHANGED accounts

(***************************************************************************)
(* Steps                                                                   *)
(***************************************************************************)
At(a, step) == Busy(a) /\ Head(acting[a].todo) = step

Proceed(op) ==
  IF Len(op.todo) > 1 THEN [op EXCEPT !.todo = Tail(@)]
  ELSE Over(IF op.failed = {} /\ op.result = "none" THEN "ok" ELSE "partly")
Goes(a, op) == acting' = [acting EXCEPT ![a] = Proceed(op)]
Stays(u, n) == accounts' = [accounts EXCEPT ![n] = u]

UnfinishedEarly(op) == op.added /\ "password" \in ToSet(op.todo)

(* An error ends the operation; one that has added an account and not      *)
(* finished it deletes the account again.                                  *)
Unfinished(op) == op.added /\ "options" \in ToSet(op.todo)
Ended(op, why) ==
  IF Unfinished(op) THEN [op EXCEPT !.todo = <<"rollback">>, !.result = why] ELSE Over(why)
Raise(a, why) == acting' = [acting EXCEPT ![a] = Ended(@, why)]

Never(u) == "password_never_expires" \in u.flags
ForbidsFlagOnly(u, checkAcl) == Never(u)

Forbids(u, checkAcl) == Never(u) \/ (checkAcl /\ Cannot(u.acl))

RefusesNewBare(op) == (op.enabled /\ ~op.password) \/ accounts[op.n] # Absent

(* What each handler refuses before it writes.                             *)
RefusesNew(op) ==
  \/ op.must /\ "password_never_expires" \in op.set
  \/ op.enabled /\ ~op.password
  \/ accounts[op.n] # Absent

RefusesDisabling(op, u) ==
  /\ "account_disabled" \in op.set /\ ~op.confirm
  /\ "account_disabled" \notin u.flags /\ AdministrativeRole(op.n, u)

RefusesPrimary(op, u) ==
  \E g \in op.left \cup op.groups : g # u.primary /\ g \notin u.groups

Refuses(op) ==
  LET u == accounts[op.n]
  IN IF op.do \in {"create", "copy"} THEN RefusesNew(op)
     ELSE \/ u = Absent
          \/ /\ u # Absent
             /\ \/ op.do = "update" /\ RefusesDisabling(op, u)
                \/ op.do \in {"password", "must"} /\ op.must /\ Forbids(u, TRUE)
                \/ op.do = "cannot" /\ op.value /\ u.must
                \/ op.do = "primary" /\ RefusesPrimary(op, u)
                \/ op.do = "delete" /\ (op.n = Administrator \/ (~op.confirm /\ AdministrativeRole(op.n, u)))

Refuse(a) ==
  /\ At(a, "refuse")
  /\ IF Refuses(acting[a]) THEN Raise(a, "refused") ELSE Goes(a, acting[a])
  /\ UNCHANGED <<accounts, opsBegun>>

(* copy_user reads the template once; groups = Group asks for all of them, *)
(* and a group that is not the template's is refused.                      *)
Template(a) ==
  LET op == acting[a]  t == accounts[op.from] IN
  /\ At(a, "template")
  /\ IF t = Absent \/ op.groups \notin {GroupName} \cup SUBSET TemplateGroups(t)
     THEN Raise(a, "refused")
     ELSE Goes(a, [op EXCEPT !.seen = t, !.set = CopiedFlags(t, op),
                             !.left = op.groups \cap TemplateGroups(t)])
  /\ UNCHANGED <<accounts, opsBegun>>

Add(a) ==
  LET op == acting[a] IN
  /\ At(a, "add")
  /\ IF accounts[op.n] # Absent
     THEN Raise(a, "failed") /\ UNCHANGED accounts
     ELSE Stays(Born, op.n) /\ Goes(a, [op EXCEPT !.added = TRUE])
  /\ UNCHANGED opsBegun

ForceMust(a) ==
  LET op == acting[a] IN
  /\ At(a, "force")
  /\ IF accounts[op.n] = Absent \/ Forbids(accounts[op.n], FALSE) THEN Raise(a, "refused") ELSE Goes(a, op)
  /\ UNCHANGED <<accounts, opsBegun>>

\* A new password restarts its age at the DC.
NewPassword(op, u) == [u EXCEPT !.password = TRUE, !.must = FALSE]
Stamped(op, u) == [u EXCEPT !.must = op.must]
Optioned(op, u) ==
  LET given == Apply({}, op.set, op.clear)
  IN [u EXCEPT !.flags = IF op.enabled THEN given \ {"account_disabled"}
                                       ELSE given \cup {"account_disabled"}]
NewText(op, u) == [u EXCEPT !.text = op.value]
Updated(op, u) ==
  LET flags == Apply(op.seen.flags, op.set, op.clear)
  IN IF flags = op.seen.flags THEN u ELSE [u EXCEPT !.flags = flags]
Relisted(op, u) ==
  LET acl == WithCannot(op.seen.acl, op.value)
  IN IF acl = op.seen.acl THEN u ELSE [u EXCEPT !.acl = acl]
\* The DC makes the old primary group an ordinary membership.
SetPrimaryKept(u, g) == [u EXCEPT !.groups = @ \cup {u.primary}, !.primary = g]

SetPrimary(u, g) ==
  IF g = u.primary THEN u
  ELSE [u EXCEPT !.groups = (@ \ {g}) \cup {u.primary}, !.primary = g]
Left(op, u) == [u EXCEPT !.groups = @ \ op.groups]

Changed(step, op, u) ==
  CASE step = "password" -> NewPassword(op, u) [] step = "stamp" -> Stamped(op, u)
    [] step = "options" -> Optioned(op, u)     [] step = "text" -> NewText(op, u)
    [] step = "write" -> Updated(op, u)        [] step = "acl" -> Relisted(op, u)
    [] step = "leave" -> Left(op, u)

(* uac.apply refuses an option it does not know or only the DC may set; by *)
(* then a creation has its account and an update has written the rest.  A  *)
(* copy's options are the template's.                                      *)
RefusesOptions(op, step) ==
  op.odd /\ <<op.do, step>> \in {<<"create", "options">>, <<"update", "read">>}

(* A request that changes one account.                                     *)
Writes(a, step) ==
  LET op == acting[a] IN
  /\ At(a, step)
  /\ \/ /\ RefusesOptions(op, step)
        /\ Raise(a, "refused") /\ UNCHANGED accounts
     \/ /\ ~RefusesOptions(op, step) /\ accounts[op.n] = Absent
        /\ Raise(a, IF step = "leave" THEN "ok" ELSE "failed") /\ UNCHANGED accounts
     \/ /\ ~RefusesOptions(op, step) /\ accounts[op.n] # Absent
        /\ Stays(Changed(step, op, accounts[op.n]), op.n) /\ Goes(a, op)
  /\ UNCHANGED opsBegun

Read(a) ==
  LET op == acting[a] IN
  /\ At(a, "read")
  /\ IF accounts[op.n] = Absent THEN Raise(a, "failed")
     ELSE IF RefusesOptions(op, "read") THEN Raise(a, "refused")
     ELSE Goes(a, [op EXCEPT !.seen = accounts[op.n]])
  /\ UNCHANGED <<accounts, opsBegun>>

(* add_members: the DC refuses the group that is the primary one.          *)
Join(a) ==
  LET op == acting[a]  u == accounts[op.n] IN
  /\ At(a, "join")
  /\ IF u = Absent \/ u.primary \in op.groups
     THEN Raise(a, "failed") /\ UNCHANGED accounts
     ELSE Stays([u EXCEPT !.groups = @ \cup op.groups], op.n) /\ Goes(a, op)
  /\ UNCHANGED opsBegun

(* A copy joins its groups one by one; what fails is kept for the report.  *)
Grouped(op, g) == [op EXCEPT !.left = @ \ {g}]
JoinNext(a) ==
  LET op == acting[a]  u == accounts[op.n] IN
  /\ At(a, "groups")
  /\ \/ /\ op.left = {}
        /\ Goes(a, op) /\ UNCHANGED accounts
     \/ \E g \in op.left :
          IF u = Absent \/ g = u.primary
          THEN /\ acting' = [acting EXCEPT ![a] = [Grouped(op, g) EXCEPT !.failed = @ \cup {g}]]
               /\ UNCHANGED accounts
          ELSE /\ acting' = [acting EXCEPT ![a] = Grouped(op, g)]
               /\ Stays([u EXCEPT !.groups = @ \cup {g}], op.n)
  /\ UNCHANGED opsBegun

(* The template's primary group, if the copy was offered and given it.     *)
Wanted(op) ==
  IF op.do = "primary" THEN op.groups
  ELSE {op.seen.primary} \cap ((op.groups \cap TemplateGroups(op.seen)) \ op.failed)
\* The DC wants the account to be a member.  What fails here a copy reports.
MemberOf(u, groups) == groups \subseteq u.groups \cup {u.primary}
Primary(a) ==
  LET op == acting[a]  u == accounts[op.n]  groups == Wanted(op) IN
  /\ At(a, "primary")
  /\ \/ /\ groups = {}
        /\ Goes(a, op) /\ UNCHANGED accounts
     \/ /\ groups # {} /\ u # Absent /\ MemberOf(u, groups)
        /\ Goes(a, op) /\ Stays(SetPrimary(u, CHOOSE g \in groups : TRUE), op.n)
     \/ /\ groups # {} /\ (u = Absent \/ ~MemberOf(u, groups))
        /\ IF op.do = "copy" THEN Goes(a, [op EXCEPT !.result = "partly"]) ELSE Raise(a, "failed")
        /\ UNCHANGED accounts
  /\ UNCHANGED opsBegun

(* The account is read once more for the answer, by a creation when it is  *)
(* made and by a copy when it is done; nothing is rolled back any more.    *)
GetUser(a, step) ==
  LET op == acting[a] IN
  /\ At(a, step)
  /\ IF accounts[op.n] = Absent THEN Raise(a, "failed") ELSE Goes(a, op)
  /\ UNCHANGED <<accounts, opsBegun>>

DeleteEntry(a, step) ==
  LET op == acting[a] IN
  /\ At(a, step)
  /\ Stays(Absent, op.n)
  /\ acting' = [acting EXCEPT ![a] = Over(IF step = "rollback" THEN op.result
                                         ELSE IF accounts[op.n] = Absent THEN "failed" ELSE "ok")]
  /\ UNCHANGED opsBegun

(* The connection is lost under a request, which does nothing.  That a     *)
(* rollback failed is passed over: the account stays.                      *)
Lost(a) ==
  LET op == acting[a] IN
  /\ "call" \in AFailing /\ Busy(a)
  /\ \/ /\ Head(op.todo) = "groups"
        /\ \E g \in op.left :
             acting' = [acting EXCEPT ![a] = [Grouped(op, g) EXCEPT !.failed = @ \cup {g}]]
     \/ /\ Head(op.todo) = "primary" /\ op.do = "copy" /\ Wanted(op) # {}
        /\ Goes(a, [op EXCEPT !.result = "partly"])
     \/ /\ Head(op.todo) = "rollback"
        /\ acting' = [acting EXCEPT ![a] = Over(op.result)]
     \/ /\ Head(op.todo) # "rollback"
        /\ ~(op.do = "copy" /\ Head(op.todo) \in {"groups", "primary"})
        /\ Raise(a, "failed")
  /\ UNCHANGED <<accounts, opsBegun>>

AccountStep(a) ==
  \/ Begin(a) \/ Refuse(a) \/ Template(a) \/ Add(a) \/ ForceMust(a) \/ Read(a)
  \/ Writes(a, "password") \/ Writes(a, "stamp") \/ Writes(a, "options") \/ Writes(a, "text")
  \/ Writes(a, "write") \/ Writes(a, "acl") \/ Writes(a, "leave")
  \/ Join(a) \/ JoinNext(a) \/ Primary(a) \/ GetUser(a, "made") \/ GetUser(a, "shown")
  \/ DeleteEntry(a, "delete") \/ DeleteEntry(a, "rollback") \/ Lost(a)

AccountsNext == \E a \in AAdmin : AccountStep(a)
AccountsSpec == AccountsInit /\ [][AccountsNext]_accountVars

(***************************************************************************)
(* Properties                                                              *)
(***************************************************************************)
Present == {n \in Username : accounts[n] # Absent}

(* Accounts and operations are well formed, and as the DC has it no        *)
(* account is an ordinary member of its primary group.                     *)
AccountsTypeOK ==
  /\ \A n \in Present : accounts[n] \in User /\ accounts[n].primary \notin accounts[n].groups
  /\ \A a \in AAdmin : acting[a].result \in {"none", "ok", "partly", "refused", "failed"}
  /\ opsBegun \in 0..MaxAccountOps

Ends(a, result) == Busy(a) /\ ~Busy(a)' /\ acting'[a].result \in result

(* What an operation that ended in an error may leave of its account: what *)
(* was there; or a creation's whole account, if only reading it back       *)
(* failed; or, if the rollback failed too, one that is disabled; or, of an *)
(* update refused for its options, the attributes written before them.     *)
MayLeave(op, v) ==
  \/ v = op.before
  \/ op.do \in {"create", "copy"} /\ Head(op.todo) \in {"made", "shown"}
  \/ Head(op.todo) = "rollback" /\ v # Absent /\ v.flags = {"account_disabled"}
  \/ op.do = "update" /\ Head(op.todo) = "read" /\ v = [op.before EXCEPT !.text = op.value]

(* What is refused has otherwise written nothing, and a creation that      *)
(* fails halfway leaves no half-built account (set_password: "refused      *)
(* after, the reset would be half done"; create_user's rollback).          *)
AsFound ==
  \A a \in AAdmin :
    Ends(a, IF acting[a].do \in {"create", "copy"} THEN {"refused", "failed"} ELSE {"refused"})
      => MayLeave(acting[a], accounts'[acting[a].n])

(* "Must change at next logon" and "cannot change password" are never both *)
(* set, whichever is set first and by whom (_must_and_cannot), as long as  *)
(* two sessions do not set them at the same moment (AOverlapping).         *)
MustOrCannot == \A n \in Present : ~(accounts[n].must /\ Cannot(accounts[n].acl))

(* An enabled account that administers the domain, by nested groups too,   *)
(* is disabled or deleted only by an operation that confirms it.           *)
AdminConfirmed ==
  \A n \in Present :
    LET u == accounts[n]  v == accounts'[n]
        inForce == /\ "account_disabled" \notin u.flags
                   /\ n = Administrator \/ \E g \in u.groups \cup {u.primary} : Token[g] \cap AdminGroup # {}
        gone == v = Absent \/ (v # u /\ "account_disabled" \in v.flags)
    IN inForce /\ gone => \E a \in AAdmin : Busy(a) /\ acting[a].n = n /\ acting[a].confirm

(* A copy's report is true: a group is reported as failed exactly if the   *)
(* copy is not in it, and a copy given every group without a failure has   *)
(* the template's primary group and groups, Domain Users aside.            *)
ReportTrue ==
  \A a \in AAdmin :
    acting[a].do = "copy" /\ Ends(a, {"ok", "partly"}) =>
      LET op == acting[a]  u == accounts'[op.n]
          has == u.groups \cup {u.primary}
          chosen == op.groups \cap TemplateGroups(op.seen)
      IN /\ op.failed = chosen \ has
         /\ Ends(a, {"ok"}) /\ chosen = TemplateGroups(op.seen) =>
              /\ u.primary = op.seen.primary
              /\ has \ {DomainUsers} = TemplateGroups(op.seen) \ {DomainUsers}

DeniesFirst(acl) ==
  \A i, j \in DOMAIN acl :
    i < j /\ acl[i] \in {"allow self", "allow everyone", "allow other"}
      => acl[j] \notin {"deny self", "deny everyone", "deny other"}
InheritedLast(acl) ==
  \A i, j \in DOMAIN acl : i < j /\ acl[i] \in Inherited => acl[j] \in Inherited

(* Setting "cannot change password" leaves every other entry and its place *)
(* alone, puts each of the two entries in once, and keeps the order the DC *)
(* evaluates by: denies, allows, inherited.  (The denies go ahead of the   *)
(* first allow: a list that has no explicit one but inherits a deny gets   *)
(* them behind that.)                                                      *)
Rewritten ==
  \A n \in Present :
    LET u == accounts[n]  v == accounts'[n] IN
    v # Absent /\ v.acl # u.acl =>
      /\ Those(v.acl, Ace \ Change) = Those(u.acl, Ace \ Change)
      /\ Len(Those(v.acl, Change)) = 2
      /\ \E a \in AAdmin : At(a, "acl") /\ acting[a].n = n /\ Cannot(v.acl) = acting[a].value
      /\ DeniesFirst(u.acl) /\ InheritedLast(u.acl) =>
           /\ DeniesFirst(v.acl)
           /\ {"allow other", "inherited deny"} \cap ToSet(u.acl) # {"inherited deny"}
                => InheritedLast(v.acl)

MustAndNever(u) == u # Absent /\ u.password /\ u.must /\ Never(u)

(* No operation but the change of account options leaves an account with   *)
(* both "must change" and "never expires" (create, copy, password, must).  *)
OnlyOptions ==
  \A n \in Username :
    MustAndNever(accounts'[n]) /\ ~MustAndNever(accounts[n])
      => \E a \in AAdmin : At(a, "write") /\ acting[a].n = n

(* What becomes of an account is what somebody asked, confirmed where it   *)
(* has to be, and was answered: refusals and failed creations leave what   *)
(* was there but for MayLeave, a copy's report is true, and a rewritten    *)
(* list keeps the rest.                                                    *)
DoneAsAnswered == [][AsFound /\ AdminConfirmed /\ ReportTrue /\ Rewritten /\ OnlyOptions]_accountVars

(* ADUC's rule: "must change at next logon" and "password never expires"   *)
(* exclude each other (_refuse_must_change_and_never_expires).             *)
NeverBoth == \A n \in Present : ~MustAndNever(accounts[n])
=============================================================================
