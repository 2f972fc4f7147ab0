-------------------------------- MODULE Tree --------------------------------
(***************************************************************************)
(* The directory tree (src/backend/samadcon/ad/ou.py, directory.py,        *)
(* computers.py, sacl.py) behind the write guard of connection.py and      *)
(* write_guard.py: creating, changing, moving, renaming and deleting       *)
(* objects, and editing their access lists.                                *)
(*                                                                         *)
(* A name (DN) is the path from the root, so "holds" is "is a prefix of".  *)
(* An operation is a plan of requests to the domain controller, one step   *)
(* each; between two steps other sessions' requests arrive.                *)
(***************************************************************************)
EXTENDS FiniteSets, Sequences, SequencesExt, Naturals, Collections

CONSTANTS
  TAdmin,      \* sessions
  Guarded,     \* SAMADCON_PROTECTED_OUS, names
  Planted,     \* the tree at the start: name -> entry
  TAsked,      \* the requests sessions may make
  TFailing,    \* {"call"} if a request to the DC may fail, else {}
  MaxTreeOps   \* bound: operations begun

(* Entries of an access list.  "protect" is Everyone denied SD and DT; the *)
(* x and y entries are others', "inherited" ones carry the flag ID.        *)
Deny == {"protect", "deny x"}
Allow == {"allow x", "allow y"}
TAce == Deny \cup Allow \cup {"inherited deny", "inherited allow"}

Kind == {"ou", "user", "computer"}
Entry == [kind : Kind, critical : BOOLEAN, admin : BOOLEAN, text : BOOLEAN, acl : Seq(TAce)]

(* Explicit denies stand ahead of the allows; no explicit entry is twice.  *)
InOrder(acl) == \A i, j \in DOMAIN acl : acl[i] \in Allow /\ acl[j] \in Deny => j < i
SaysOnce(acl) == \A i, j \in DOMAIN acl : acl[i] = acl[j] /\ acl[i] \in Deny \cup Allow => i = j

Path == Seq(STRING) \ {<<>>}
(* Every name's parent exists, and its parent's, up to the root.           *)
Rooted(dns) == \A dn \in dns : dn \in Path /\ \A n \in 1..Len(dn) : SubSeq(dn, 1, n) \in dns

TRequest ==
  [do : {"create ou", "create computer", "update", "attributes", "protect", "delete ou", "delete", "move",
         "rename", "add ace", "remove ace", "change acl", "delegate"},
   dn : Path, to : Path, value : BOOLEAN, protect : {"yes", "no", "as is"},
   recursive : BOOLEAN, confirm : BOOLEAN, remove : SUBSET Nat, add : Seq(TAce)]

ASSUME TreeConstants ==
  /\ TAsked \subseteq TRequest
  /\ Rooted(DOMAIN Planted) /\ \A dn \in DOMAIN Planted : Planted[dn] \in Entry
  /\ MaxTreeOps \in Nat

\* The lists to start from are as the directory's own tools write them.
ASSUME PlantedLists == \A dn \in DOMAIN Planted : InOrder(Planted[dn].acl) /\ SaysOnce(Planted[dn].acl)

VARIABLES
  tree,     \* the directory: name -> entry, for the names that exist
  working,  \* per session, its operation
  treeOps   \* operations begun, against the bound

treeVars == <<tree, working, treeOps>>

Idle(why) == [do |-> "none", todo |-> <<>>, result |-> why]

TreeInit ==
  /\ tree = Planted
  /\ working = [a \in TAdmin |-> Idle("ok")]
  /\ treeOps = 0

Dns == DOMAIN tree
Under(top) == {dn \in Dns : IsPrefix(top, dn)}
Children(dn) == {c \in Under(dn) : Len(c) = Len(dn) + 1}

(***************************************************************************)
(* The write guard                                                         *)
(***************************************************************************)
ProtectingOu(dn) == \E ou \in Guarded : IsPrefix(ou, dn)
ProtectedBelow(dn) == \E ou \in Guarded : IsStrictPrefix(dn, ou)

GuardRenameAtNames(old, new) == ProtectingOu(old) \/ ProtectingOu(new)

GuardDelete(dn, recursive) == ProtectingOu(dn) \/ (recursive /\ ProtectedBelow(dn))
GuardRename(old, new) == ProtectingOu(old) \/ ProtectingOu(new) \/ ProtectedBelow(old)

(***************************************************************************)
(* Access lists                                                            *)
(***************************************************************************)
IsDeleteProtected(acl) == "protect" \in ToSet(acl)
SetProtection(acl, protect) ==
  IF IsDeleteProtected(acl) = protect THEN acl
  ELSE IF protect THEN <<"protect">> \o acl
  ELSE Those(acl, TAce \ {"protect"})

PlaceLast(acl, ace) == Append(acl, ace)

(* Deny goes ahead of the first allow, an allow to the end.                *)
Place(acl, ace) ==
  LET allows == {i \in DOMAIN acl : acl[i] \in Allow \cup {"inherited allow"}}
  IN IF ace \in Deny /\ allows # {}
     THEN InsertAt(acl, CHOOSE i \in allows : \A j \in allows : i <= j, ace)
     ELSE Append(acl, ace)

AddsOld(kept, add) == \E i \in DOMAIN add : add[i] \in ToSet(kept)

(* Entries compare as what they mean; each is compared with the ones added *)
(* before it too.                                                          *)
AddsTwice(kept, add) == \E i \in DOMAIN add : add[i] \in ToSet(kept) \cup ToSet(SubSeq(add, 1, i - 1))
Kept(acl, remove) ==
  Those([i \in DOMAIN acl |-> <<i, acl[i]>>], {<<i, acl[i]>> : i \in DOMAIN acl \ remove})
Without(acl, remove) == [i \in DOMAIN Kept(acl, remove) |-> Kept(acl, remove)[i][2]]

(* Positions are of the list as it was read, before anything is added.     *)
ChangeAcl(acl, remove, add) ==
  LET placed[n \in 0..Len(add)] ==
        IF n = 0 THEN Without(acl, remove) ELSE Place(placed[n - 1], add[n])
  IN placed[Len(add)]
RefusesAcl(acl, remove, add) ==
  \/ \E i \in remove : i \notin DOMAIN acl \/ acl[i] \in {"inherited deny", "inherited allow"}
  \/ AddsTwice(Without(acl, remove), add)

(***************************************************************************)
(* Plans                                                                   *)
(***************************************************************************)
TPlan(r) ==
  CASE r.do = "create ou"       -> <<"parent", "free", "add">>
                                     \o (IF r.protect = "yes" THEN <<"acl", "write">> ELSE <<>>)
    [] r.do = "create computer" -> <<"parent", "free", "add">>
    [] r.do = "update"          -> (IF r.value THEN <<"text">> ELSE <<>>)
                                     \o (IF r.protect = "as is" THEN <<>> ELSE <<"acl", "write">>)
    [] r.do = "attributes"      -> <<"text">>
    [] r.do = "delete ou"       -> <<"unprotected">> \o (IF r.recursive THEN <<>> ELSE <<"empty">>)
                                     \o <<"entry", "delete">>
    [] r.do = "delete"          -> <<"entry", "delete">>
    [] r.do = "move"            -> <<"parent", "rename">>
    [] r.do = "rename"          -> <<"rename">>
    [] r.do = "delegate"        -> [i \in 1..2 * Len(r.add) |-> IF i % 2 = 1 THEN "acl" ELSE "write"]
    [] OTHER                    -> <<"acl", "write">>

Working(a) == working[a].todo # <<>>
AclOf(dn) == IF dn \in Dns THEN tree[dn].acl ELSE <<>>

(* An edit of permissions starts from the list its sheet was shown.        *)
TBegin(a) ==
  /\ ~Working(a) /\ treeOps < MaxTreeOps
  /\ \E r \in TAsked :
       working' = [working EXCEPT ![a] = Extended(r,
         [todo |-> TPlan(r), result |-> "none", sheet |-> AclOf(r.dn), acl |-> <<>>, next |-> <<>>,
          given |-> 0, added |-> FALSE])]
  /\ treeOps' = treeOps + 1
  /\ UNCHANGED tree

(***************************************************************************)
(* Steps                                                                   *)
(***************************************************************************)
AtStep(a, step) == Working(a) /\ Head(working[a].todo) = step
Ready(a, op) ==
  working' = [working EXCEPT ![a] =
    IF Len(op.todo) > 1 THEN [op EXCEPT !.todo = Tail(@)] ELSE Idle("ok")]
(* A new unit whose protection failed is reported, not taken back.         *)
Stop(a, why) ==
  working' = [working EXCEPT ![a] =
    Idle(IF @.do = "create ou" /\ @.added THEN "unprotected" ELSE why)]
IfElse(a, refuses, why, op) == IF refuses THEN Stop(a, why) ELSE Ready(a, op)

Parent(a) ==
  LET op == working[a] IN
  /\ AtStep(a, "parent")
  /\ IfElse(a, op.to \notin Dns, "refused", op)
  /\ UNCHANGED <<tree, treeOps>>

Free(a) ==
  LET op == working[a] IN
  /\ AtStep(a, "free")
  /\ IfElse(a, op.dn \in Dns, "refused", op)
  /\ UNCHANGED <<tree, treeOps>>

New(op) == [kind |-> IF op.do = "create ou" THEN "ou" ELSE "computer", critical |-> FALSE, admin |-> FALSE,
            text |-> FALSE, acl |-> <<"allow x", "inherited allow">>]
TAdd(a) ==
  LET op == working[a] IN
  /\ AtStep(a, "add")
  /\ IF ProtectingOu(op.dn) \/ op.dn \in Dns \/ Front(op.dn) \notin Dns
     THEN Stop(a, "failed") /\ UNCHANGED tree
     ELSE tree' = Extended([dn \in {op.dn} |-> New(op)], tree) /\ Ready(a, [op EXCEPT !.added = TRUE])
  /\ UNCHANGED treeOps

Text(a) ==
  LET op == working[a] IN
  /\ AtStep(a, "text")
  /\ IF op.dn \notin Dns \/ ProtectingOu(op.dn)
     THEN Stop(a, "failed") /\ UNCHANGED tree
     ELSE tree' = [tree EXCEPT ![op.dn].text = op.value] /\ Ready(a, op)
  /\ UNCHANGED treeOps

RefusesProtectedLeaf(op, acl) == ~op.recursive /\ IsDeleteProtected(acl)

(* delete_ou reads the protection itself; a list it cannot read counts as  *)
(* none.                                                                   *)
RefusesProtected(op, acl) == IsDeleteProtected(acl)
Unprotected(a) ==
  LET op == working[a] IN
  /\ AtStep(a, "unprotected")
  /\ IfElse(a, RefusesProtected(op, AclOf(op.dn)), "refused", [op EXCEPT !.acl = AclOf(op.dn)])
  /\ UNCHANGED <<tree, treeOps>>

Empty(a) ==
  LET op == working[a] IN
  /\ AtStep(a, "empty")
  /\ IfElse(a, op.dn \notin Dns \/ Children(op.dn) # {}, "refused", op)
  /\ UNCHANGED <<tree, treeOps>>

EntryRead(a) ==
  LET op == working[a] IN
  /\ AtStep(a, "entry")
  /\ IfElse(a, \/ op.dn \notin Dns
               \/ op.dn \in Dns /\ \/ tree[op.dn].critical
                                   \/ tree[op.dn].kind = "user" /\ tree[op.dn].admin /\ ~op.confirm,
            "refused", op)
  /\ UNCHANGED <<tree, treeOps>>

(* The DC deletes a leaf, or a whole tree when told to.                    *)
TDelete(a) ==
  LET op == working[a] IN
  /\ AtStep(a, "delete")
  /\ IF \/ GuardDelete(op.dn, op.recursive) \/ op.dn \notin Dns
        \/ ~op.recursive /\ Children(op.dn) # {}
        \/ \E c \in Under(op.dn) : tree[c].critical
     THEN Stop(a, "failed") /\ UNCHANGED tree
     ELSE tree' = Restrict(tree, Dns \ Under(op.dn)) /\ Ready(a, op)
  /\ UNCHANGED treeOps

NewName(op) == IF op.do = "move" THEN Append(op.to, Last(op.dn)) ELSE op.to
(* The name of dn, which begins with old, when old is called new.          *)
Below(new, old, dn) == new \o SubSeq(dn, Len(old) + 1, Len(dn))
Renamed(dn, old, new) == IF IsPrefix(new, dn) THEN Below(old, new, dn) ELSE dn

CarriedAlone(dn) == {dn}

Carried(dn) == Under(dn)

(* A rename takes what is below along; the DC refuses a name that is       *)
(* taken, a parent that is not there and a move into itself.               *)
Rename(a) ==
  LET op == working[a]  old == op.dn  new == NewName(op) IN
  /\ AtStep(a, "rename")
  /\ IF new = old THEN Ready(a, op) /\ UNCHANGED tree
     ELSE IF \/ GuardRename(old, new) \/ old \notin Dns \/ new \in Dns
             \/ Front(new) \notin Dns \/ IsPrefix(old, new)
     THEN Stop(a, "failed") /\ UNCHANGED tree
     ELSE /\ tree' = [dn \in (Dns \ Carried(old)) \cup {Below(new, old, d) : d \in Carried(old)}
                        |-> tree[Renamed(dn, old, new)]]
          /\ Ready(a, op)
  /\ UNCHANGED treeOps

ChecksIfAsked(op) == op.value /\ op.given = 0

(* The list a sheet was shown must be sent with a change of several        *)
(* entries and may be with the other edits (value); delegating adds one    *)
(* entry at a time, and only the first is checked.                         *)
Checks(op) == op.do = "change acl" \/ (op.value /\ op.given = 0)
Adds(op) == IF op.do = "delegate" THEN <<op.add[op.given + 1]>> ELSE op.add
AclRead(a) ==
  LET op == working[a]  acl == AclOf(op.dn)
      protects == op.do \in {"create ou", "update", "protect"}
      next == IF protects THEN SetProtection(acl, op.protect = "yes")
              ELSE ChangeAcl(acl, op.remove, Adds(op))
  IN /\ AtStep(a, "acl")
     /\ IF op.dn \notin Dns THEN Stop(a, "failed")
        ELSE IF ~protects /\ ((Checks(op) /\ acl # op.sheet) \/ RefusesAcl(acl, op.remove, Adds(op)))
        THEN Stop(a, "refused")
        ELSE Ready(a, [op EXCEPT !.acl = acl, !.next = next])
     /\ UNCHANGED <<tree, treeOps>>

AclWrite(a) ==
  LET op == working[a] IN
  /\ AtStep(a, "write")
  /\ IF op.next = op.acl THEN Ready(a, op) /\ UNCHANGED tree
     ELSE IF ProtectingOu(op.dn) \/ op.dn \notin Dns
     THEN Stop(a, "failed") /\ UNCHANGED tree
     ELSE /\ tree' = [tree EXCEPT ![op.dn].acl = op.next]
          /\ Ready(a, [op EXCEPT !.given = @ + 1])
  /\ UNCHANGED treeOps

TLost(a) ==
  /\ "call" \in TFailing /\ Working(a)
  /\ IF Head(working[a].todo) = "unprotected" THEN Ready(a, working[a]) ELSE Stop(a, "failed")
  /\ UNCHANGED <<tree, treeOps>>

TreeStep(a) ==
  \/ TBegin(a) \/ Parent(a) \/ Free(a) \/ TAdd(a) \/ Text(a) \/ Unprotected(a) \/ Empty(a)
  \/ EntryRead(a) \/ TDelete(a) \/ Rename(a) \/ AclRead(a) \/ AclWrite(a) \/ TLost(a)

TreeNext == \E a \in TAdmin : TreeStep(a)
TreeSpec == TreeInit /\ [][TreeNext]_treeVars

(***************************************************************************)
(* Properties                                                              *)
(***************************************************************************)
TreeTypeOK ==
  /\ Rooted(Dns)
  /\ \A dn \in Dns : tree[dn] \in Entry
  /\ \A a \in TAdmin : working[a].result \in {"none", "ok", "refused", "failed", "unprotected"}
  /\ treeOps \in 0..MaxTreeOps

Does(a, step) == AtStep(a, step) /\ working'[a] # working[a]

(* A configured OU that exists keeps its name, and nothing at it or below  *)
(* it is added, changed, moved in, moved out or deleted, whatever is done  *)
(* to what surrounds it (DirectoryConnection, write_guard.py).             *)
Untouched ==
  \A ou \in Guarded \cap Dns :
    /\ ou \in Dns'
    /\ Under(ou)' = Under(ou)
    /\ \A dn \in Under(ou) : tree'[dn] = tree[dn]
GuardKept == [][Untouched]_treeVars

(* Every access list has its explicit denies ahead of its allows, the      *)
(* order the directory evaluates them in (add_ace, change_acl).            *)
DenyAhead == \A dn \in Dns : InOrder(tree[dn].acl)

(* No edit makes a list hold the same entry twice, not even when edits of  *)
(* two sessions cross (same_ace, set_delete_protection).                   *)
NoEntryTwice == \A dn \in Dns : SaysOnce(tree[dn].acl)

(* The list is in the order it is evaluated in and says nothing twice.      *)
AclSound == DenyAhead /\ NoEntryTwice

(* A change of several entries acts on the list the sheet was shown: it    *)
(* writes that list less the entries at the given positions, in their      *)
(* order, with the new ones between; nothing inherited is lost.            *)
WrittenAsShown ==
  \A a \in TAdmin :
    LET op == working[a] IN
    Does(a, "write") /\ op.do = "change acl" /\ tree' # tree =>
      LET new == tree'[op.dn].acl
          stay == {i \in DOMAIN op.sheet : i \notin op.remove}
      IN /\ Len(new) = Cardinality(stay) + Len(op.add)
         /\ \A i \in stay : op.sheet[i] \in ToSet(new)
         /\ \A i, j \in stay : i < j => \E k, l \in DOMAIN new :
                k < l /\ new[k] = op.sheet[i] /\ new[l] = op.sheet[j]
         /\ \A i \in op.remove : op.sheet[i] \in ToSet(new) => op.sheet[i] \in ToSet(op.add)

(* "Delete OU" takes a unit only if the list it read of it, some requests  *)
(* before, was without protection or could not be read, and without        *)
(* recursion it takes only that unit (delete_ou).                          *)
UnitTaken ==
  \A a \in TAdmin :
    LET op == working[a] IN
    Does(a, "delete") /\ op.do = "delete ou" /\ op.dn \in Dns /\ op.dn \notin Dns' =>
      /\ ~op.recursive => Dns' = Dns \ {op.dn}
      /\ "protect" \notin ToSet(op.acl)

(* What is overwritten or deleted is what the session was shown, whatever  *)
(* others did since: the list of the sheet, the unit it saw unprotected.   *)
DoneAsShown == [][WrittenAsShown /\ UnitTaken]_treeVars

(* An account that administers the domain is deleted only with the         *)
(* confirmation ("but not by the same click as anything else",             *)
(* delete_object).                                                         *)
AdminTaken ==
  \A a \in TAdmin, dn \in Dns :
    Does(a, "delete") /\ tree[dn].admin /\ dn \notin Dns' => working[a].confirm
AdminsTakenConfirmed == [][AdminTaken]_treeVars
=============================================================================
