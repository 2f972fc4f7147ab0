----------------------------- MODULE MCTemplates -----------------------------
(* An instance of Templates for TLC: four policies sharing keys, with every *)
(* kind of element between them.                                            *)
EXTENDS Templates, TLC

N(base) == <<base, 0>>
Folds == [x \in {"K", "KL", "KX", "X", "N1", "B", "BL", "E", "EL", "D", "L1", "L2", "S", "T", "M", "Z", "none"} |-> x]
         @@ ("k" :> "K") @@ ("n1" :> "N1")
Dec(n) == [kind |-> "decimal", data |-> n]
Item(name, key, value) == [name |-> N(name), key |-> key, value |-> value]
PlainElement == [id |-> "d", kind |-> "decimal", name |-> N("D"), key |-> Own, required |-> FALSE, least |-> 1, most |-> 2,
          asText |-> FALSE, yes |-> Set1, no |-> Set0, yesList |-> <<>>, noList |-> <<>>, items |-> <<>>, prefix |-> "none"]
Toggle ==
  [key |-> "K", name |-> N("N1"), yes |-> Set1, no |-> Set0, yesList |-> <<>>, noList |-> <<>>,
   elements |-> <<[PlainElement EXCEPT !.id = "b", !.kind = "boolean", !.name = N("B"), !.no = Delete0,
                                !.yesList = <<Item("BL", Own, Dec(7))>>],
                  [PlainElement EXCEPT !.id = "e", !.kind = "enum", !.name = N("E"),
                                !.items = <<[value |-> Dec(0), list |-> <<Item("EL", Own, Dec(3))>>], [value |-> Dec(1), list |-> <<>>]>>],
                  [PlainElement EXCEPT !.required = TRUE]>>]
ListShape ==
  [key |-> "K", name |-> NoName, yes |-> Set1, no |-> Set0,
   yesList |-> <<Item("L1", Own, Dec(1)), Item("L2", "KL", Dec(1))>>, noList |-> <<Item("L1", Own, Dec(0))>>,
   elements |-> <<[PlainElement EXCEPT !.id = "l", !.kind = "numbered", !.key = "KL", !.prefix = "S"]>>]
Bare ==
  [ListShape EXCEPT !.yesList = <<>>, !.noList = <<>>,
     !.elements = <<[PlainElement EXCEPT !.id = "x", !.kind = "explicit", !.key = "KX", !.name = NoName],
                    [PlainElement EXCEPT !.id = "t", !.kind = "text", !.name = N("T")],
                    [PlainElement EXCEPT !.id = "m", !.kind = "multiText", !.name = N("M")]>>]
Off == [Toggle EXCEPT !.key = "k", !.name = N("Z"), !.no = Delete0, !.elements = <<>>]
Shapes == ("toggle" :> Toggle) @@ ("lists" :> ListShape) @@ ("bare" :> Bare) @@ ("off" :> Off)

FoundPol == <<PolEntry("k", N("n1"), DWORD, 0), PolEntry("K", N("X"), SZ, 5), [PolEntry("K", N("Z"), SZ, 0) EXCEPT !.gone = TRUE]>>
Wish(p, s, v) == [policy |-> p, state |-> s, values |-> v]
SomeWishes ==
  {Wish(p, s, Nil) : p \in DOMAIN Shapes, s \in {"not_configured", "disabled"}}
  \cup {Wish("toggle", "enabled", ("b" :> b) @@ ("e" :> e) @@ ("d" :> d)) : b \in 0..1, e \in 1..2, d \in 0..2}
  \cup {Wish("toggle", "enabled", ("b" :> 0) @@ ("e" :> 3) @@ ("d" :> 1)), Wish("toggle", "enabled", ("b" :> 1))}
  \cup {Wish("lists", "enabled", "l" :> l) : l \in {<<4>>, <<4, 4>>, <<3, 4>>}} \cup {Wish("lists", "enabled", Nil)}
  \cup {Wish("bare", "enabled", ("x" :> <<<<N("T"), 1>>, <<N("M"), t>>>>) @@ ("t" :> t)) : t \in 1..3}
  \cup {Wish("bare", "enabled", "m" :> 2), Wish("off", "enabled", Nil)}
MostWishes == SomeWishes \ {Wish("bare", "disabled", Nil)}

(* A checkbox with a key of its own whose extra value goes to the policy's. *)
KeyedShapes == "keyed" :> [Off EXCEPT !.name = N("N1"),
  !.elements = <<[PlainElement EXCEPT !.id = "b", !.kind = "boolean", !.name = N("B"), !.key = "KL", !.yesList = <<Item("BL", Own, Dec(7))>>]>>]
KeyedWishes == {Wish("keyed", "enabled", "b" :> b) : b \in 0..1} \cup {Wish("keyed", s, Nil) : s \in {"not_configured", "disabled"}}
=============================================================================
