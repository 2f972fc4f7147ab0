----------------------------- MODULE Preferences -----------------------------
(***************************************************************************)
(* Group Policy preferences: one preference file of one policy, an editor  *)
(* that reads it, changes one item and sends the whole list back, and the  *)
(* Windows console writing the same file                                   *)
(* (src/backend/samadcon/gpo/preferences/: catalogue, store, xmlfile and   *)
(* targeting).  GpoEdit has the steps of a save; this module has what a    *)
(* save makes of the file: which item meets which, what is carried, what   *)
(* the form may change.  Attribute order, escaping and XML layout are left *)
(* out; paths and icons are values, and a fresh identifier is a number.    *)
(***************************************************************************)
EXTENDS Naturals, FiniteSets, Sequences, SequencesExt

CONSTANTS
  Starts,      \* the files to begin with: [type, half, items, unknown]
  Foreign,     \* what the Windows console may write over it: [items, unknown]
  Typed,       \* values a form's text box is given
  Lists,       \* the condition lists a form may hold
  InnerLists,  \* the lists a form may hold: members of a group, lines of a registry value
  Directory,   \* objects conditions are picked from: DN -> [class, who]
  MaxVersion   \* bound: the policy's version

(***************************************************************************)
(* The catalogue: kinds of item and the flags read off reference files.    *)
(* "name" is the property shown as the item's name; "status" whether the   *)
(* element repeats it in a status attribute.                               *)
(***************************************************************************)
ActionLetters == {"C", "R", "U", "D"}
Both == {"Machine", "User"}
KindName(name, fields) ==
  [name |-> name, fields |-> fields, secret |-> {}, halves |-> Both, status |-> TRUE,
   action |-> TRUE, creatable |-> TRUE]
Quiet(kind) == [kind EXCEPT !.status = FALSE]

Drive == [KindName("letter", [letter |-> "", path |-> ""]) EXCEPT !.halves = {"User"}]
RegistryValue == KindName("name", [name |-> "", type |-> "REG_SZ", value |-> ""])
FileOrFolder == KindName("path", [path |-> "", hidden |-> "0"])
Shortcut == KindName("shortcutPath", [shortcutPath |-> "", targetPath |-> ""])
Environment == KindName("name", [name |-> "", value |-> ""])
SharedPrinter == [KindName("path", [path |-> "", default |-> "0"]) EXCEPT !.halves = {"User"}]
PortPrinter == [KindName("ipAddress", [ipAddress |-> "", location |-> ""]) EXCEPT !.halves = {"Machine"}]
LocalPrinter == [KindName("name", [name |-> "", location |-> ""]) EXCEPT !.halves = {"Machine"}]
LocalGroup == Quiet(KindName("groupName", [groupName |-> "", description |-> ""]))
LocalUser == Quiet([KindName("userName", [userName |-> "", cpassword |-> ""]) EXCEPT !.secret = {"cpassword"}])
Service == Quiet([KindName("serviceName", [serviceName |-> "", startupType |-> "AUTOMATIC"])
                    EXCEPT !.halves = {"Machine"}, !.action = FALSE])
Task == Quiet([KindName("name", [name |-> "", args |-> ""]) EXCEPT !.creatable = FALSE])
ImmediateTask == [Task EXCEPT !.action = FALSE]

Kinds == [drive |-> Drive, registry |-> RegistryValue, file |-> FileOrFolder, shortcut |-> Shortcut,
          environment |-> Environment, shared |-> SharedPrinter, port |-> PortPrinter,
          local |-> LocalPrinter, group |-> LocalGroup, user |-> LocalUser, service |-> Service,
          task |-> Task, immediate |-> ImmediateTask]
KindsOf == [drives |-> {"drive"}, registry |-> {"registry"}, files |-> {"file"}, shortcuts |-> {"shortcut"},
            environment |-> {"environment"}, printers |-> {"shared", "port", "local"},
            groups |-> {"group", "user"}, services |-> {"service"}, tasks |-> {"task", "immediate"}]

ConditionList(cs) ==
  /\ cs \in Seq({cs[k] : k \in DOMAIN cs})
  /\ \A k \in DOMAIN cs : cs[k] = [type |-> cs[k].type, who |-> cs[k].who, bool |-> cs[k].bool, dn |-> cs[k].dn]
FilterBlock(f) ==
  /\ f = [conditions |-> f.conditions, foreign |-> f.foreign, once |-> f.once]
  /\ ConditionList(f.conditions) /\ f.foreign \in BOOLEAN /\ f.once \in Nat
FirstUid == 10   \* identifiers below are those of the files found

(* In a file conditions name accounts, not where to look them up, and the  *)
(* first is joined to nothing.                                             *)
AsInFile(cs) == \A k \in DOMAIN cs : cs[k].dn = "" /\ (k = 1 => cs[k].bool = "AND")

(* An item as a file holds it: a secret of its kind is there, if empty.    *)
FileItem(i) ==
  /\ i = [kind |-> i.kind, uid |-> i.uid, status |-> i.status, action |-> i.action, properties |-> i.properties,
          inner |-> i.inner, filters |-> i.filters, extra |-> i.extra, changed |-> i.changed]
  /\ i.kind \in DOMAIN Kinds /\ i.uid \in Nat \ {0} /\ i.changed \in Nat
  /\ FilterBlock(i.filters) /\ (i.filters.foreign \/ AsInFile(i.filters.conditions))
  /\ DOMAIN i.extra = {"bypassErrors", "userContext", "removePolicy"}
  /\ Kinds[i.kind].action \/ i.action = ""
  /\ Kinds[i.kind].secret \subseteq DOMAIN i.properties

FileItems(items, bound) ==
  /\ items \in Seq({items[n] : n \in DOMAIN items})
  /\ \A n \in DOMAIN items :
       /\ FileItem(items[n]) /\ items[n].uid < bound /\ items[n].changed < bound
       /\ \A m \in DOMAIN items : items[m].uid = items[n].uid => m = n

ASSUME PreferenceConstants ==
  /\ MaxVersion \in Nat \ {0} /\ \A l \in Lists : ConditionList(l)
  /\ \A s \in Starts : /\ s.type \in DOMAIN KindsOf /\ s.half \in Both
                       /\ \A i \in DOMAIN s.items : s.items[i].kind \in KindsOf[s.type]

(* The files found, and those the Windows console writes, are preference   *)
(* files: an identifier is one item's.                                     *)
ASSUME PreferenceFiles ==
  /\ \A s \in Starts : /\ FileItems(s.items, FirstUid)
                       /\ \A n \in DOMAIN s.items : s.half \in Kinds[s.items[n].kind].halves
  /\ \A w \in Foreign : w \in [items : {w.items}, unknown : BOOLEAN] /\ FileItems(w.items, FirstUid)

DisplayName(kind, p) == p[Kinds[kind].name]
StatusText(kind, p) ==
  CASE kind = "environment" -> DisplayName(kind, p) \o " = " \o p.value
    [] kind = "local" -> p.location
    [] OTHER -> DisplayName(kind, p)

(* What is typed for a number or for bytes, by the spelling the file has;  *)
(* anything else is refused.  Eight digits are hexadecimal.                *)
SpelledOut ==
  [REG_DWORD |-> [t \in {"", "00000000", "1", "00000001", "10", "0000000A"} |->
                    CASE t \in {"", "00000000"} -> "00000000" [] t \in {"1", "00000001"} -> "00000001"
                      [] OTHER -> "0000000A"],
   REG_BINARY |-> [t \in {"", "10", "0010", "00 10"} |-> IF t = "0010" THEN "00 10" ELSE t]]
Numeric(kind, p) == kind = "registry" /\ p.type \in DOMAIN SpelledOut
Normalised(kind, p) == IF Numeric(kind, p) THEN [p EXCEPT !.value = SpelledOut[p.type][p.value]] ELSE p

VARIABLES place,      \* the file's [type, half]
          prefFile,   \* its items and whether it holds an element of no known kind; items <<>>: no file
          listed,     \* the type's extension is registered on the policy
          prefVersion,\* the policy's version number
          next,       \* clock and source of fresh identifiers
          form,       \* what the editor read, as a set of at most one
          sent        \* the save just answered, as a set of at most one
preferenceVars == <<place, prefFile, listed, prefVersion, next, form, sent>>

(***************************************************************************)
(* Targeting.  A block is its conditions, whether it holds a filter only   *)
(* the Windows console edits, and the run-once marker's id (0: none).      *)
(***************************************************************************)
NoFilters == [conditions |-> <<>>, foreign |-> FALSE, once |-> 0]
ReadFilters(b) == IF b.foreign THEN NoFilters ELSE b
RenderFilters(conditions, once) ==
  [conditions |-> [i \in DOMAIN conditions |-> IF i = 1 THEN [conditions[i] EXCEPT !.bool = "AND"] ELSE conditions[i]],
   foreign |-> FALSE, once |-> once]

(* A condition with a DN was picked in the console: the directory says who *)
(* it is, and its class must be the condition's.                           *)
Resolvable(c) == c.dn # "" => c.dn \in DOMAIN Directory /\ c.type = Directory[c.dn].class
Resolve(cs) == [i \in DOMAIN cs |-> IF cs[i].dn = "" THEN cs[i] ELSE [cs[i] EXCEPT !.dn = "", !.who = Directory[cs[i].dn].who]]
ConditionsValid(cs) == \A i \in DOMAIN cs : Resolvable(cs[i]) /\ (cs[i].dn = "" => cs[i].who # "")

(***************************************************************************)
(* The common options, read off the item's attributes ("": absent).        *)
(***************************************************************************)
NoOptions == [stop |-> FALSE, context |-> FALSE, remove |-> FALSE, once |-> FALSE]
OptionsOf(item) ==
  [stop |-> item.extra.bypassErrors = "0", context |-> item.extra.userContext = "1",
   remove |-> item.extra.removePolicy = "1", once |-> ReadFilters(item.filters).once # 0]
SetOptionOn(was, on) == IF on THEN "1" ELSE was
SetOption(was, on) == IF on THEN "1" ELSE IF was = "" THEN "" ELSE "0"

The(S) == CHOOSE x \in S : TRUE
(* The item a sent one is matched with, by its uid: a set of at most one.  *)
Previous(items, i) == {items[j] : j \in {k \in DOMAIN items : items[k].uid = i.uid}}
Options(old, i) ==
  IF i.options # {} THEN The(i.options)
  ELSE IF old = {} THEN NoOptions ELSE OptionsOf(The(old))
FiltersOf(old) == IF old = {} THEN NoFilters ELSE The(old).filters

(***************************************************************************)
(* One incoming item, refused or merged onto the one in the file           *)
(***************************************************************************)
PropertiesShown(old, i) ==
  LET kind == Kinds[i.kind]
  IN [f \in DOMAIN kind.fields |-> IF f \in DOMAIN i.properties THEN i.properties[f] ELSE kind.fields[f]]
Properties(old, i) ==
  LET kind == Kinds[i.kind]
      had == UNION {{<<f, o.properties[f]>> : f \in DOMAIN o.properties} : o \in old}
      kept == {h[1] : h \in had}
  IN [f \in kept \cup DOMAIN kind.fields |->
        IF f \in DOMAIN kind.fields \cap DOMAIN i.properties /\ f \notin kind.secret THEN i.properties[f]
        ELSE IF f \in kept THEN (CHOOSE h \in had : h[1] = f)[2]
        ELSE kind.fields[f]]

OptionsRefused(half, old, i) ==
  LET now == Options(old, i)
      was == ReadFilters(FiltersOf(old))
  IN /\ i.options # {} \/ i.targeting # {}
     /\ \/ now.remove /\ now.once
        \/ now.context /\ half = "Machine"
        \/ FiltersOf(old).foreign /\ (i.targeting # {} \/ now.once # (was.once # 0))
        \/ ~FiltersOf(old).foreign /\ \E t \in i.targeting : ~ConditionsValid(t)

ItemRefused(half, old, i) ==
  LET p == Properties(old, i)
  IN \/ half \notin Kinds[i.kind].halves
     \/ old = {} /\ ~Kinds[i.kind].creatable
     \/ Kinds[i.kind].action /\ i.action \notin ActionLetters
     \/ i.kind = "group" /\ \E n \in DOMAIN i.inner : i.inner[n].action \notin {"ADD", "REMOVE"}
     \/ Numeric(i.kind, p) /\ p.value \notin DOMAIN SpelledOut[p.type]
     \/ OptionsRefused(half, old, i)

(* The block a save writes: the file's own unless the form could edit it.  *)
FiltersAnew(old, i, fresh) ==
  LET had == FiltersOf(old)
  IN IF (i.options = {} /\ i.targeting = {}) \/ had.foreign THEN had
     ELSE RenderFilters(IF i.targeting = {} THEN had.conditions ELSE Resolve(The(i.targeting)),
                        IF Options(old, i).once THEN fresh ELSE 0)
Filters(old, i, fresh) ==
  LET had == FiltersOf(old)
      mark == IF ~Options(old, i).once THEN 0 ELSE IF had.once # 0 THEN had.once ELSE fresh
      conditions == IF i.targeting = {} THEN had.conditions ELSE Resolve(The(i.targeting))
  IN IF (i.options = {} /\ i.targeting = {}) \/ had.foreign THEN had ELSE RenderFilters(conditions, mark)

Extras(old, i) ==
  LET had == IF old = {} THEN [bypassErrors |-> "", userContext |-> "", removePolicy |-> ""]
             ELSE The(old).extra
      now == Options(old, i)
  IN IF i.options = {} THEN had
     ELSE [removePolicy |-> SetOption(had.removePolicy, now.remove),
           userContext |-> SetOption(had.userContext, now.context),
           bypassErrors |-> IF now.stop THEN "0"
                            ELSE IF had.bypassErrors # "" \/ old = {} THEN "1" ELSE ""]

(* Members of a group and lines of a REG_MULTI_SZ come from the form; what *)
(* else is nested in an item - a task's definition - is the file's.        *)
Inner(old, i, p) ==
  LET had == IF old = {} THEN <<>> ELSE The(old).inner
  IN CASE i.kind = "group" -> i.inner
       [] i.kind = "registry" -> IF p.type = "REG_MULTI_SZ" THEN i.inner ELSE <<>>
       [] OTHER -> had
Joined(lines) == IF lines = <<>> THEN "" ELSE FoldLeft(LAMBDA a, b : a \o " " \o b, Head(lines), Tail(lines))

GivenUid(i, fresh) == i.uid
FreshUid(i, fresh) == IF i.uid = 0 THEN fresh ELSE i.uid

(* The item as it is built, and as the file holds it: the status attribute *)
(* is not written for every kind.                                          *)
Built(old, i, fresh) ==
  LET p == Normalised(i.kind, Properties(old, i))
      inner == Inner(old, i, p)
      q == IF i.kind = "registry" /\ p.type = "REG_MULTI_SZ" THEN [p EXCEPT !.value = Joined(inner)] ELSE p
      action == IF ~Kinds[i.kind].action THEN ""
                ELSE IF i.options # {} /\ Options(old, i).remove THEN "R" ELSE i.action
      item == [kind |-> i.kind, uid |-> FreshUid(i, fresh), status |-> StatusText(i.kind, q), action |-> action,
               properties |-> q, inner |-> inner, filters |-> Filters(old, i, fresh), extra |-> Extras(old, i), changed |-> 0]
      same == {o \in old : [o EXCEPT !.changed = 0] = item}
  IN [item EXCEPT !.changed = IF same = {} THEN fresh ELSE The(same).changed]
WrittenBare(item) == [item EXCEPT !.status = ""]
Written(item) == IF Kinds[item.kind].status THEN item ELSE [item EXCEPT !.status = ""]

Rendered(old, asked, fresh) == [n \in DOMAIN asked |-> Written(Built(Previous(old, asked[n]), asked[n], fresh))]

(***************************************************************************)
(* What the editor sends: the list it read with at most one item changed,  *)
(* added, moved or left out.  Targeting the form cannot edit is not sent.  *)
(***************************************************************************)
Draft(item) ==
  [kind |-> item.kind, uid |-> item.uid, action |-> item.action, properties |-> item.properties,
   inner |-> IF item.kind \in {"group", "registry"} THEN item.inner ELSE <<>>,
   options |-> {OptionsOf(item)},
   targeting |-> IF item.filters.foreign THEN {} ELSE {item.filters.conditions}]
Drafts(items) == [n \in DOMAIN items |-> Draft(items[n])]
BlankDraft(kind) ==
  [kind |-> kind, uid |-> 0, action |-> IF Kinds[kind].action THEN "C" ELSE "",
   properties |-> [f \in DOMAIN Kinds[kind].fields \ Kinds[kind].secret |-> Kinds[kind].fields[f]],
   inner |-> <<>>, options |-> {NoOptions}, targeting |-> {<<>>}]
Offered == {k \in KindsOf[place.type] : place.half \in Kinds[k].halves /\ Kinds[k].creatable}

Ticked(o, name) ==
  CASE name = "remove" -> [o EXCEPT !.remove = ~o.remove, !.once = o.once /\ o.remove]
    [] name = "once" -> [o EXCEPT !.once = ~o.once, !.remove = o.remove /\ o.once]
    [] OTHER -> [o EXCEPT ![name] = ~@]
Boxes(d, o) ==
  {"stop"} \cup (IF place.half = "User" THEN {"context"} ELSE {})
  \cup (IF o.once THEN {} ELSE {"remove"}) \cup (IF o.remove \/ d.targeting = {} THEN {} ELSE {"once"})
FieldTyped(d) == {[d EXCEPT !.properties[f] = v] : f \in DOMAIN Kinds[d.kind].fields \ Kinds[d.kind].secret, v \in Typed}
ActionChosen(d) == {[d EXCEPT !.action = a] : a \in IF Kinds[d.kind].action THEN ActionLetters ELSE {}}
InnerSet(d) == {[d EXCEPT !.inner = l] : l \in IF d.kind \in DOMAIN InnerLists THEN InnerLists[d.kind] ELSE {}}
ConditionsSet(d) == {[d EXCEPT !.targeting = {l}] : l \in IF d.targeting = {} THEN {} ELSE Lists}
BoxTicked(d, o) ==
  {[d EXCEPT !.options = {Ticked(o, b)},
             !.action = IF b = "remove" /\ ~o.remove /\ d.action # "" THEN "R" ELSE d.action] : b \in Boxes(d, o)}
AnyTicked(d) == UNION {BoxTicked(d, o) : o \in d.options}
Withheld(d) == [d EXCEPT !.options = {}, !.targeting = {}]   \* a caller of the API that sends neither
EditedItem(d) ==
  FieldTyped(d) \cup ActionChosen(d) \cup InnerSet(d) \cup ConditionsSet(d) \cup AnyTicked(d) \cup {Withheld(d)}
Requests(items) ==
  LET list == Drafts(items)
  IN {list} \cup {Append(list, BlankDraft(k)) : k \in Offered}
     \cup {RemoveAt(list, n) : n \in DOMAIN list}
     \cup {InsertAt(RemoveAt(list, n), n - 1, list[n]) : n \in DOMAIN list \ {1}}
     \cup UNION {{[list EXCEPT ![n] = d] : d \in EditedItem(list[n])} : n \in DOMAIN list}

(***************************************************************************)
(* Actions                                                                 *)
(***************************************************************************)
PreferencesInit ==
  \E s \in Starts :
    /\ place = [type |-> s.type, half |-> s.half]
    /\ prefFile = [items |-> s.items, unknown |-> s.unknown]
    /\ listed = (s.items # <<>>)
    /\ prefVersion = 1 /\ next = FirstUid
    /\ form = {} /\ sent = {}

ReadItems ==
  /\ form' = {[items |-> prefFile.items, version |-> prefVersion]}
  /\ form' # form
  /\ sent' = {}
  /\ UNCHANGED <<place, prefFile, listed, prefVersion, next>>

Answer(asked, result) == sent' = {[asked |-> asked, result |-> result]}
BumpFor(items, on) ==
  /\ prefFile' = [prefFile EXCEPT !.items = items] /\ listed' = on
  /\ prefVersion' = prefVersion + 1 /\ next' = next + 1

SetItems ==
  \E f \in form : \E asked \in Requests(f.items) :
    /\ prefVersion < MaxVersion
    /\ UNCHANGED <<place, form>>
    /\ \/ f.version # prefVersion
          /\ Answer(asked, "conflict") /\ UNCHANGED <<prefFile, listed, prefVersion, next>>
       \/ /\ f.version = prefVersion
          /\ \/ prefFile.unknown
             \/ \E n \in DOMAIN asked : ItemRefused(place.half, Previous(prefFile.items, asked[n]), asked[n])
          /\ Answer(asked, "refused") /\ UNCHANGED <<prefFile, listed, prefVersion, next>>
       \/ /\ f.version = prefVersion /\ ~prefFile.unknown
          /\ \A n \in DOMAIN asked : ~ItemRefused(place.half, Previous(prefFile.items, asked[n]), asked[n])
          /\ IF Rendered(prefFile.items, asked, next) = prefFile.items
             THEN Answer(asked, "unchanged") /\ UNCHANGED <<prefFile, listed, prefVersion, next>>
             ELSE /\ Answer(asked, "written")
                  /\ BumpFor(Rendered(prefFile.items, asked, next), asked # <<>>)

(* The Windows console saves the file.                                     *)
ConsoleSaves ==
  \E w \in Foreign :
    /\ prefVersion < MaxVersion
    /\ \A n \in DOMAIN w.items : /\ w.items[n].kind \in KindsOf[place.type]
                               /\ place.half \in Kinds[w.items[n].kind].halves
    /\ prefFile' = w /\ listed' = (w.items # <<>>)
    /\ prefVersion' = prefVersion + 1 /\ next' = next + 1
    /\ sent' = {} /\ UNCHANGED <<place, form>>

PreferencesNext == ReadItems \/ SetItems \/ ConsoleSaves
PreferencesSpec == PreferencesInit /\ [][PreferencesNext]_preferenceVars

(***************************************************************************)
(* Properties                                                              *)
(***************************************************************************)
(* One file, one list: identifiers are distinct and none is from the       *)
(* future, kinds belong to the type and to the half, and the extension is  *)
(* registered exactly while there are items (store.write, store._clear).   *)
PrefsTypeOK ==
  /\ prefVersion \in 1..MaxVersion /\ next \in Nat
  /\ listed = (prefFile.items # <<>>)
  /\ \A n \in DOMAIN prefFile.items :
       LET item == prefFile.items[n]
       IN /\ item.kind \in KindsOf[place.type] /\ place.half \in Kinds[item.kind].halves
          /\ item.uid < next /\ item.changed < next
          /\ \A m \in DOMAIN prefFile.items : prefFile.items[m].uid = item.uid => m = n

Saving == sent' # {}
ByUid(items, u) == {items[n] : n \in {m \in DOMAIN items : items[m].uid = u}}
Uids(items) == {items[n].uid : n \in DOMAIN items}
(* A save leaves both the item before and the item after with uid u.       *)
Pairs(u) == ByUid(prefFile.items, u) \X ByUid(prefFile'.items, u)

(* Who an item applies to changes only on request: a block the form cannot *)
(* edit stays as it is, conditions change to the ones sent, and an item    *)
(* that stays "apply once" keeps its marker, or clients apply it again.    *)
FiltersAsRequested(u) ==
  \A pair \in Pairs(u) :
    LET was == pair[1].filters
        now == pair[2].filters
        requests == UNION {{q.asked[n] : n \in {m \in DOMAIN q.asked : q.asked[m].uid = u}} : q \in sent'}
    IN /\ was.foreign => now = was
       /\ was.once # 0 /\ now.once # 0 => now.once = was.once
       /\ now.once = 0 /\ was.once # 0 => \E r \in requests : r.options # {}
       /\ now.conditions # was.conditions => \E r \in requests : r.targeting \notin {{}, {was.conditions}}

(* What no form shows is carried from the item with the same identifier,   *)
(* wherever it moved in the list - a stored password, an attribute no      *)
(* field names, a task's definition - and no password is ever introduced.  *)
Unseen(item) ==
  [properties |-> {<<f, item.properties[f]>> : f \in {g \in DOMAIN item.properties :
                      g \in Kinds[item.kind].secret \/ g \notin DOMAIN Kinds[item.kind].fields}},
   inner |-> IF item.kind \in {"group", "registry"} THEN <<>> ELSE item.inner]
CarriedUnseen(u) ==
  \A after \in ByUid(prefFile'.items, u) :
    LET before == ByUid(prefFile.items, u)
    IN IF before = {} THEN \A p \in Unseen(after).properties : p[2] = ""
       ELSE \A b \in before : Unseen(after) = Unseen(b)

(* What was saved reads back as what the form sent: position by position,  *)
(* its kind, its conditions, its options, its fields (a registry value is  *)
(* respelled) and - with removal, as Replace - its action.                 *)
ReadsAsSent(item, draft) ==
  /\ item.kind = draft.kind
  /\ \A o \in draft.options : OptionsOf(item) = o
  /\ \A t \in draft.targeting :
       /\ Len(item.filters.conditions) = Len(t)
       /\ \A k \in DOMAIN t : LET c == item.filters.conditions[k]
                             IN c.type = t[k].type /\ c.dn = "" /\ c.bool = IF k = 1 THEN "AND" ELSE t[k].bool
  /\ \A f \in DOMAIN draft.properties \ {"value"} : item.properties[f] = draft.properties[f]
  /\ item.action = IF \E o \in draft.options : o.remove /\ draft.action # "" THEN "R" ELSE draft.action
SavedAsAsked ==
  \A q \in sent' : q.result \in {"written", "unchanged"} =>
    /\ Len(prefFile'.items) = Len(q.asked)
    /\ \A n \in DOMAIN q.asked : ReadsAsSent(prefFile'.items[n], q.asked[n])

(* The stamp of an item moves only when something else of it did; a stamp  *)
(* that moves alone rewrites the file and has every client in scope apply  *)
(* a policy that did not change (store._prepare).                          *)
MovedAlone(u) == \E pair \in Pairs(u) : pair[1] # pair[2] /\ [pair[2] EXCEPT !.changed = pair[1].changed] = pair[1]
StampHonest == [][Saving => \A u \in Uids(prefFile.items) : ~MovedAlone(u)]_preferenceVars
(* The same for the kinds whose element repeats the name as its status.    *)
NamedStampHonest ==
  \A u \in Uids(prefFile.items) :
    MovedAlone(u) => \E item \in ByUid(prefFile.items, u) : ~Kinds[item.kind].status

(* A save is what the form sent and nothing more: who an item applies to,  *)
(* what no form shows and when it last changed stay as they were.          *)
PreferencesKept ==
  [][Saving => /\ \A u \in Uids(prefFile.items) : FiltersAsRequested(u)
               /\ \A u \in Uids(prefFile'.items) : CarriedUnseen(u)
               /\ SavedAsAsked /\ NamedStampHonest]_preferenceVars

(* An item is removed when it no longer applies or is applied once, never  *)
(* both (store._options_and_targeting).                                    *)
RemovedOrOnce ==
  \A n \in DOMAIN prefFile.items :
    LET item == prefFile.items[n] IN ~(item.extra.removePolicy = "1" /\ item.filters.once # 0)
=============================================================================
