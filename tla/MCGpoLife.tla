----------------------------- MODULE MCGpoLife -----------------------------
(* An instance of GpoLife for TLC: one policy whose versions disagree, a    *)
(* backup another tool took of it, with a member that points out of it.     *)
EXTENDS GpoLife, TLC

LFile(data) == [directory |-> FALSE, data |-> data, acl |-> "derived"]
LDir == [LFile(0) EXCEPT !.directory = TRUE]
GivenPolicies == "p1" :> [name |-> "one", version |-> 2, off |-> {"user"}, exts |-> {"machine"}]
GivenFolders ==
  "p1" :> ((Top :> LDir) @@ (<<"Machine">> :> LDir) @@ (<<"User">> :> LDir) @@ (Ini :> LFile(1))
             @@ (Setting :> LFile(7)) @@ (<<"User", "Logon">> :> LDir))
GivenBackups ==
  {[files |-> (Ini :> 3) @@ (Setting :> 5) @@ (<<"..", "x">> :> 6) @@ (<<"User", "Preferences", "Files", "f">> :> 4), unsafe |-> {<<"..", "x">>},
    exts |-> {"machine"}, manifest |-> FALSE, object |-> GivenPolicies["p1"]]}
LBlank == [do |-> "create", policy |-> "p1", name |-> "two", off |-> {}, on |-> {}]
LifeRequests ==
  {[LBlank EXCEPT !.do = d] : d \in {"create", "copy", "restore", "backup"}}
  \cup {[LBlank EXCEPT !.do = "restore", !.name = "of the backup"]}
  \cup {[LBlank EXCEPT !.do = d, !.policy = p] : d \in {"delete", "edit"}, p \in {"p1", "p2"}}
  \cup {[LBlank EXCEPT !.do = "status", !.off = x, !.on = y] : x \in {{}, {"machine"}}, y \in {{}, {"user"}}}
=============================================================================
