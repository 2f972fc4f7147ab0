---------------------------- MODULE MCPreferences ----------------------------
(* An instance of Preferences for TLC: registry values, printers, local    *)
(* groups and users, services and tasks, each with the targeting and the   *)
(* attributes the reference files show.                                    *)
EXTENDS Preferences, TLC

Cond(type, who, bool) == [type |-> type, who |-> who, bool |-> bool, dn |-> ""]
Picked(type, dn) == [type |-> type, who |-> "", bool |-> "OR", dn |-> dn]
MemberLists == {<<>>, <<[who |-> "admins", action |-> "ADD"]>>, <<[who |-> "admins", action |-> "?"]>>}
SomeInner == [group |-> MemberLists, registry |-> {<<"a", "b">>}]
SomeDirectory == ("cn=staff" :> [class |-> "group", who |-> "staff"]) @@ ("cn=pc" :> [class |-> "computer", who |-> "pc"])
SomeLists == {<<>>, <<Picked("group", "cn=staff")>>, <<Cond("user", "ann", "AND"), Picked("user", "cn=pc")>>}
SomeTyped == {"1", "n"}

NoExtra == [bypassErrors |-> "", userContext |-> "", removePolicy |-> ""]
ItemOf(kind, uid, properties) ==
  [kind |-> kind, uid |-> uid, status |-> "", action |-> IF kind = "service" \/ kind = "immediate" THEN "" ELSE "U",
   properties |-> properties, inner |-> <<>>, filters |-> [conditions |-> <<>>, foreign |-> FALSE, once |-> 0],
   extra |-> NoExtra, changed |-> uid]
Value == [ItemOf("registry", 1, [name |-> "n", type |-> "REG_DWORD", value |-> "00000001", hive |-> "HKLM"])
            EXCEPT !.status = "n", !.filters.conditions = <<Cond("group", "staff", "AND"), Cond("user", "ann", "OR")>>,
                   !.extra.bypassErrors = "1"]
Lines == [ItemOf("registry", 2, [name |-> "m", type |-> "REG_MULTI_SZ", value |-> "a"])
            EXCEPT !.status = "m", !.inner = <<"a">>, !.filters.once = 3, !.extra.bypassErrors = "0"]
Admins == [ItemOf("group", 1, [groupName |-> "n", description |-> "", removeAccounts |-> "0"])
             EXCEPT !.inner = <<[who |-> "staff", action |-> "REMOVE"]>>, !.extra.userContext = "0"]
Local == [ItemOf("user", 2, [userName |-> "u", cpassword |-> "c", newName |-> ""]) EXCEPT !.filters.foreign = TRUE]
Shared == [ItemOf("shared", 1, [path |-> "p", default |-> "0"]) EXCEPT !.status = "p", !.filters.once = 3]
Started == ItemOf("service", 1, [serviceName |-> "s", startupType |-> "AUTOMATIC"])
Planned == [ItemOf("task", 1, [name |-> "t", args |-> ""]) EXCEPT !.inner = <<"tree">>]
Now == [ItemOf("immediate", 2, [name |-> "i", args |-> ""]) EXCEPT !.filters.foreign = TRUE]

Start(type, half, items) == [type |-> type, half |-> half, items |-> items, unknown |-> FALSE]
SomeStarts == {Start("registry", "Machine", <<Value, Lines>>), Start("groups", "Machine", <<Admins, Local>>),
               Start("printers", "User", <<Shared>>), Start("services", "Machine", <<Started>>),
               Start("tasks", "User", <<Planned, Now>>), Start("printers", "Machine", <<>>),
               [Start("registry", "User", <<Lines>>) EXCEPT !.unknown = TRUE]}
Unchanged == {Start("groups", "Machine", <<Admins>>)}
SomeForeign == {[items |-> <<Value>>, unknown |-> FALSE], [items |-> <<Local>>, unknown |-> TRUE]}

(* An item the Windows console made apply once, beside a filter only it edits. *)
OnceForeign == {Start("files", "User",
  <<[ItemOf("file", 1, [path |-> "p", hidden |-> "0"]) EXCEPT !.status = "p", !.filters.foreign = TRUE, !.filters.once = 3]>>)}
=============================================================================
