----------------------------- MODULE MCManifests -----------------------------
(* An instance of Manifests for TLC: two sessions, two files, one of them  *)
(* named plainly, in capitals and with a separator before it.              *)
EXTENDS Manifests
E1(name, text, spelling) == [name |-> <<name, text, spelling>>, says |-> "s"]
SomeEntryLists ==
  {<<>>, <<E1("a", "plain", 0)>>, <<E1("b", "plain", 0), E1("a", "separator", 1)>>}
=============================================================================
