------------------------------ MODULE Templates ------------------------------
(***************************************************************************)
(* Administrative templates: a policy's state and the registry values that *)
(* express it (src/backend/samadcon/gpo/admx/resolver.py, writer.py and    *)
(* gpo/registry_pol.py).  Saves of several policies follow one another on  *)
(* one Registry.pol; GpoEdit has the protocol of a save, this module what  *)
(* it writes and what the form reads back.                                 *)
(*                                                                         *)
(* A value name is <<base, number>>: number 0 but for the entries of a     *)
(* numbered list.  A "**del." marker is an entry with gone = TRUE.  Data   *)
(* are numbers, told apart by the type they are stored with.               *)
(***************************************************************************)
EXTENDS FiniteSets, Sequences, SequencesExt, Integers

CONSTANTS
  Shape,       \* policy -> its definition, as the parser built it
  Fold,        \* keys and names in lower case
  FoundFile,       \* Registry.pol at the start
  Wishes,      \* what administrators may save: [policy, state, values]
  MaxWishes    \* bound: saves

Defined == DOMAIN Shape
NoName == <<"none", 0>>     \* no valueName
Own == "own"                \* no key of its own: the policy's

SZ == "REG_SZ"
DWORD == "REG_DWORD"
QWORD == "REG_QWORD"
MULTI == "REG_MULTI_SZ"
Set1 == [kind |-> "decimal", data |-> 1]
Set0 == [kind |-> "decimal", data |-> 0]
Delete0 == [kind |-> "delete", data |-> 0]

ASSUME TemplateConstants ==
  /\ MaxWishes \in Nat
  /\ \A w \in Wishes : w.policy \in Defined /\ w.state \in {"not_configured", "enabled", "disabled"}

VARIABLES pol,    \* the entries of Registry.pol, in their order
          saved,  \* the last save: the wish, the file before, whether it wrote
          wishes  \* saves so far, against the bound
templateVars == <<pol, saved, wishes>>

Ident(e) == <<Fold[e.key], Fold[e.name[1]], e.name[2], e.gone>>
KeyOf(p, key) == IF key = Own THEN p.key ELSE key
PolEntry(key, name, type, data) == [key |-> key, name |-> name, gone |-> FALSE, type |-> type, data |-> data]

(***************************************************************************)
(* State to entries                                                        *)
(***************************************************************************)
EntryLeftOut(key, name, value) ==
  IF value.kind = "delete" THEN <<>>
  ELSE <<PolEntry(key, name, IF value.kind = "decimal" THEN DWORD ELSE SZ, value.data)>>
EntryFor(key, name, value) ==
  IF value.kind = "delete" THEN <<[PolEntry(key, name, SZ, 0) EXCEPT !.gone = TRUE]>>
  ELSE <<PolEntry(key, name, IF value.kind = "decimal" THEN DWORD ELSE SZ, value.data)>>

(* enabledList and its friends: an item may bring a key of its own.        *)
ListEntries(p, items) == FlattenSeq([i \in DOMAIN items |-> EntryFor(KeyOf(p, items[i].key), items[i].name, items[i].value)])
Valued(key, name, value) == IF name = NoName THEN <<>> ELSE EntryFor(key, name, value)

TypeOf(e) == CASE e.kind = "longDecimal" -> QWORD [] e.kind = "multiText" -> MULTI
               [] e.kind = "decimal" /\ ~e.asText -> DWORD [] OTHER -> SZ

ElementEntries(p, e, given, v) ==
  LET key == KeyOf(p, e.key) IN
  CASE e.kind = "boolean"  ->
         LET on == given /\ v = 1
         IN Valued(key, e.name, IF on THEN e.yes ELSE e.no) \o ListEntries(p, IF on THEN e.yesList ELSE e.noList)
    [] ~given              -> <<>>
    [] e.kind = "numbered" -> [i \in DOMAIN v |-> PolEntry(key, <<e.prefix, i>>, SZ, v[i])]
    [] e.kind = "explicit" -> [i \in DOMAIN v |-> PolEntry(key, v[i][1], SZ, v[i][2])]
    [] e.name = NoName     -> <<>>
    [] e.kind = "enum"     -> Valued(key, e.name, e.items[v].value) \o ListEntries(p, e.items[v].list)
    [] OTHER               -> <<PolEntry(key, e.name, TypeOf(e), v)>>

EntriesFor(p, state, values) ==
  LET on == state = "enabled"
      own == Valued(p.key, p.name, IF on THEN p.yes ELSE p.no)
      lists == ListEntries(p, IF on THEN p.yesList ELSE p.noList)
      written(e) == ElementEntries(p, e, e.id \in DOMAIN values, IF e.id \in DOMAIN values THEN values[e.id] ELSE 0)
      elements == IF on THEN FlattenSeq([i \in DOMAIN p.elements |-> written(p.elements[i])]) ELSE <<>>
  IN IF state = "not_configured" THEN <<>> ELSE own \o lists \o elements

(* What is refused: a required element left empty, a number or an index    *)
(* out of its range, a text (here its number is its length) too long.  A   *)
(* checkbox and a list need nothing, and what is not written is not asked. *)
Acceptable(w) ==
  w.state = "enabled" => \A e \in ToSet(Shape[w.policy].elements) :
    IF e.id \notin DOMAIN w.values THEN ~e.required \/ e.kind \in {"boolean", "numbered", "explicit"}
    ELSE e.name # NoName =>
         CASE e.kind = "enum" -> w.values[e.id] \in DOMAIN e.items
           [] e.kind = "text" -> w.values[e.id] <= e.most
           [] e.kind \in {"decimal", "longDecimal"} -> w.values[e.id] \in e.least..e.most
           [] OTHER -> TRUE

(***************************************************************************)
(* What a policy owns                                                      *)
(***************************************************************************)
Same(e, key, name) == Fold[e.key] = Fold[key] /\ <<Fold[e.name[1]], e.name[2]>> = <<Fold[name[1]], name[2]>>
Named(e, items) == \E i \in DOMAIN items : <<Fold[e.name[1]], e.name[2]>> = <<Fold[items[i].name[1]], items[i].name[2]>>

ElementClaimsByName(p, el, e) ==
  /\ Fold[e.key] = Fold[KeyOf(p, el.key)]
  /\ CASE el.kind = "explicit" -> el.key # Own
       [] el.kind = "numbered" -> ~e.gone /\ e.name[2] > 0 /\ Fold[e.name[1]] = Fold[el.prefix]
       [] OTHER -> el.name # NoName /\ Same(e, e.key, el.name)

(* As the code has it: the extra values of an element are looked for under *)
(* the element's key, whatever key they were written to.                   *)
ElementClaims(p, el, e) ==
  /\ Fold[e.key] = Fold[KeyOf(p, el.key)]
  /\ CASE el.kind = "explicit" -> el.key # Own
       [] el.kind = "numbered" -> ~e.gone /\ e.name[2] > 0 /\ Fold[e.name[1]] = Fold[el.prefix]
       [] OTHER ->
            \/ el.name # NoName /\ Same(e, e.key, el.name)
            \/ Named(e, el.yesList) \/ Named(e, el.noList)
            \/ \E i \in DOMAIN el.items : Named(e, el.items[i].list)

ClaimsKey(p, e) == Fold[e.key] = Fold[p.key]
Claims(p, e) ==
  \/ p.name # NoName /\ Same(e, p.key, p.name)
  \/ \E items \in {p.yesList, p.noList} : \E i \in DOMAIN items : Same(e, KeyOf(p, items[i].key), items[i].name)
  \/ \E i \in DOMAIN p.elements : ElementClaims(p, p.elements[i], e)

(***************************************************************************)
(* Entries to state                                                        *)
(***************************************************************************)
In(file, key, name, gone) == {e \in ToSet(file) : Same(e, key, name) /\ e.gone = gone}
Equals(e, value) ==
  CASE value.kind = "delete"  -> FALSE
    [] value.kind = "decimal" -> e.type \in {DWORD, QWORD} /\ e.data = value.data
    [] OTHER                  -> e.data = value.data

FoundValue(file, p, el) ==
  LET key == KeyOf(p, el.key)
      here == IF el.name = NoName THEN {} ELSE In(file, key, el.name, FALSE)
      numbered == {e \in ToSet(file) : Fold[e.key] = Fold[key] /\ ~e.gone /\ e.name[2] > 0 /\ Fold[e.name[1]] = Fold[el.prefix]}
      Says(e) == {IF Equals(e, el.yes) THEN 1 ELSE 0}
      Picked(e) == {i \in DOMAIN el.items : Equals(e, el.items[i].value)}
  IN CASE el.kind = "numbered" -> {SetToSortSeq(numbered, LAMBDA e, g : e.name[2] < g.name[2])} \ {<<>>}
       [] el.kind = "explicit" -> {SelectSeq(file, LAMBDA e : Fold[e.key] = Fold[key])} \ {<<>>}
       [] el.kind = "boolean" -> IF here # {} THEN UNION {Says(e) : e \in here}
                                 ELSE IF el.name # NoName /\ In(file, key, el.name, TRUE) # {} THEN {0} ELSE {}
       [] el.kind = "enum"    -> UNION {{i \in Picked(e) : \A j \in Picked(e) : i <= j} : e \in here}
       [] OTHER               -> {e.data : e \in here}

(* The data of a list as the form shows them.                              *)
ListShown(el, v) ==
  CASE el.kind = "numbered" -> [i \in DOMAIN v |-> v[i].data]
    [] el.kind = "explicit" -> [i \in DOMAIN v |-> <<v[i].name, v[i].data>>]
    [] OTHER -> v

AllPresent(file, p, items) == \A i \in DOMAIN items : In(file, KeyOf(p, items[i].key), items[i].name, FALSE) # {}
ElementValues(file, p) ==
  LET found == {el \in ToSet(p.elements) : FoundValue(file, p, el) # {}}
      of(id) == CHOOSE el \in found : el.id = id
  IN [id \in {el.id : el \in found} |-> ListShown(of(id), CHOOSE v \in FoundValue(file, p, of(id)) : TRUE)]

OwnState(file, p) ==
  LET here == In(file, p.key, p.name, FALSE) IN
  CASE p.name # NoName /\ here # {} ->
         IF \A e \in here : Equals(e, p.no) THEN "disabled" ELSE "enabled"
    [] p.name # NoName /\ In(file, p.key, p.name, TRUE) # {}                 -> "disabled"
    [] p.name = NoName /\ p.yesList # <<>> /\ AllPresent(file, p, p.yesList)    -> "enabled"
    [] p.name = NoName /\ p.noList # <<>> /\ AllPresent(file, p, p.noList)      -> "disabled"
    [] OTHER -> "not_configured"

Nil == [id \in {} |-> 0]
StateOf(file, p) ==
  LET values == ElementValues(file, p)  own == OwnState(file, p) IN
  CASE own # "not_configured" -> [state |-> own, values |-> values]
    [] own = "not_configured" /\ p.name = NoName /\ DOMAIN values # {} -> [state |-> "enabled", values |-> values]
    [] OTHER -> [state |-> "not_configured", values |-> Nil]

(***************************************************************************)
(* Planning and merging                                                    *)
(***************************************************************************)
(* The last entry of an ident wins, where the first one stood.             *)
LastOfEach(desired) ==
  LET first == SelectSeq([i \in DOMAIN desired |-> i], LAMBDA i : \A j \in 1..i - 1 : Ident(desired[j]) # Ident(desired[i]))
      last(i) == CHOOSE j \in DOMAIN desired : /\ Ident(desired[j]) = Ident(desired[i])
                                               /\ \A k \in j + 1..Len(desired) : Ident(desired[k]) # Ident(desired[i])
  IN [n \in DOMAIN first |-> desired[last(first[n])]]

Idents(es) == {Ident(e) : e \in ToSet(es)}
RemovedBy(p, file, desired) ==
  LET kept == Idents(desired) IN SelectSeq(file, LAMBDA e : Claims(p, e) /\ Ident(e) \notin kept)
AlreadyNever(file, d) == FALSE
Already(file, d) == \E e \in ToSet(file) : Ident(e) = Ident(d) /\ e.type = d.type /\ e.data = d.data
SetBy(file, desired) == SelectSeq(LastOfEach(desired), LAMBDA d : ~Already(file, d))

MergeAppending(file, new, gone) ==
  SelectSeq(file, LAMBDA e : Ident(e) \notin Idents(gone) /\ e \notin ToSet(new)) \o new
Merge(file, new, gone) ==
  LET written == Idents(new)  dropped == Idents(gone) \ written
      kept == SelectSeq(file, LAMBDA e : Ident(e) \notin dropped)
      known == Idents(kept)
      now(e) == IF Ident(e) \in written THEN CHOOSE n \in ToSet(new) : Ident(n) = Ident(e) ELSE e
  IN [i \in DOMAIN kept |-> now(kept[i])] \o SelectSeq(new, LAMBDA n : Ident(n) \notin known)

TemplatesInit ==
  /\ pol = FoundFile /\ wishes = 0
  /\ saved = [policy |-> "none", state |-> "not_configured", values |-> Nil, before |-> <<>>, wrote |-> FALSE]

\* What the wishes the form accepts come to.
Desired == [w \in {v \in Wishes : Acceptable(v)} |-> EntriesFor(Shape[w.policy], w.state, w.values)]
ApplyState(w) ==
  LET p == Shape[w.policy]
      desired == Desired[w]
      new == SetBy(pol, desired)  gone == RemovedBy(p, pol, desired)
  IN /\ wishes < MaxWishes /\ wishes' = wishes + 1
     /\ pol' = IF new = <<>> /\ gone = <<>> THEN pol ELSE Merge(pol, new, gone)
     /\ saved' = [policy |-> w.policy, state |-> w.state, values |-> w.values, before |-> pol,
                  wrote |-> new # <<>> \/ gone # <<>>]

TemplatesNext == \E w \in DOMAIN Desired : ApplyState(w)
TemplatesSpec == TemplatesInit /\ [][TemplatesNext]_templateVars

-----------------------------------------------------------------------------
(* A value has one entry in the file, however its name is spelled.         *)
TemplatesTypeOK ==
  /\ wishes \in 0..MaxWishes
  /\ \A i, j \in DOMAIN pol : i # j => Ident(pol[i]) # Ident(pol[j])

Just == saved.policy # "none"
Was == Shape[saved.policy]

(* The form shows what was saved: the state and, while enabled, the values. *)
ReadsBack ==
  Just => /\ StateOf(pol, Was).state = saved.state
          /\ saved.state = "enabled" => StateOf(pol, Was).values = saved.values

PlaceOf(e) == <<Fold[e.key], Fold[e.name[1]], e.name[2]>>
\* Per policy, where any save of it would ever write.
Writable ==
  [id \in DOMAIN Shape |->
     UNION {{PlaceOf(d) : d \in ToSet(Desired[w])} : w \in {v \in DOMAIN Desired : v.policy = id}}]
Untouchable(e) ==
  /\ \A el \in ToSet(Was.elements) : el.kind = "explicit" => Fold[e.key] # Fold[KeyOf(Was, el.key)]
  /\ PlaceOf(e) \notin Writable[saved.policy]

(* The values of other policies, and those no template knows, keep their   *)
(* data and their order through every save.                                *)
OthersKept == Just => SelectSeq(pol, Untouchable) = SelectSeq(saved.before, Untouchable)

(* Of the values a policy can write, the file holds exactly those of the   *)
(* state just saved: a setting or an element switched off leaves none.     *)
SaysExactly ==
  Just => {Ident(e) : e \in {x \in ToSet(pol) : ~Untouchable(x)}} = Idents(EntriesFor(Was, saved.state, saved.values))

(* Saving once more what was just saved finds nothing to write.            *)
NothingAgain ==
  Just => LET desired == EntriesFor(Was, saved.state, saved.values)
          IN SetBy(pol, desired) = <<>> /\ RemovedBy(Was, pol, desired) = <<>>

(* After a save the file says the state asked for and nothing else of the  *)
(* policy, keeps what is not the policy's, and reads back as it was saved. *)
SavedExactly == ReadsBack /\ OthersKept /\ SaysExactly /\ NothingAgain
=============================================================================
