------------------------------ MODULE MCSignIn ------------------------------
(* An instance of SignIn for TLC: one realm with two controllers, one of    *)
(* them known by its address too, and a second realm found through DNS.     *)
EXTENDS SignIn, TLC

Accounts == ("ana" :> "ana") @@ ("Ana" :> "ana") @@ ("ben" :> "ben")
Dc1 == [realm |-> "EX", name |-> "dc1"]
Identities == ("dc1" :> {Silent}) @@ ("dc2" :> {[Dc1 EXCEPT !.name = "dc2"]}) @@ ("ip1" :> {Dc1, Silent})
Binds ==
  [p \in {"dc1", "dc2", "ip1"} \X {"ldap", "ldaps"} |->
     CASE p = <<"dc1", "ldaps">> -> {"ok"}
       [] p[1] = "dc1"           -> {"no logon"}
       [] p[1] = "dc2"           -> {"ok", "refused"}
       [] OTHER                  -> {"down"}]
Both == <<"ldap", "ldaps">>
Srv == {[host |-> "dc1", priority |-> 1, weight |-> 0], [host |-> "dc2", priority |-> 0, weight |-> 5]}
Attempting(login, source, right, via, hosts, realm) ==
  [login |-> login, source |-> source, right |-> right, via |-> via, hosts |-> hosts, realm |-> realm]
SignInRequests ==
  {Attempting("ana", "s1", FALSE, "typed", <<"ip1">>, Unknown), Attempting("Ana", "s2", FALSE, "typed", <<"dc2">>, "EX"),
   Attempting("ana", "s1", TRUE, "profile", <<"dc2">>, "EX"),
        Attempting("ben", "none", TRUE, "profile", <<"ip1", "dc2">>, Unknown),
        Attempting("ben", "s2", TRUE, "default", <<>>, "EX")}
=============================================================================
