------------------------------ MODULE Manifests ------------------------------
(***************************************************************************)
(* Samba's own policies: a manifest of entries and, beside it, the files   *)
(* the entries name (src/backend/samadcon/gpo/vgp.py, api/v1/vgp.py).      *)
(* Sessions replace the list and upload files while others do; a save is   *)
(* taken step by step.  What an entry says besides its file is one value.  *)
(* A name is <<file, text, spelling>>: the share takes separators around   *)
(* it and its case for nothing, the text is what is left without the case. *)
(***************************************************************************)
EXTENDS Naturals, FiniteSets, Sequences, SequencesExt

CONSTANTS
  Writer,       \* sessions
  VgpPolicies,     \* kinds of policy: "startup", "files" (entries name a file) or another
  FileNames,    \* files, by the names the share gives them
  Contents,     \* what an uploaded file may hold
  EntryLists,   \* lists of entries a form may send: [name, says]
  MaxManifests, \* bound: the policy's version
  MaxUploads    \* bound: uploads, and saves that fail

Missing == "missing"
NoDigest == "none"

ASSUME ManifestConstants ==
  /\ MaxManifests \in Nat /\ MaxUploads \in Nat
  /\ \A l \in EntryLists : \A i \in DOMAIN l : l[i].name[1] \in FileNames
  /\ Missing \notin Contents

VARIABLES vgpKind,    \* the kind of policy
          beside,     \* the files beside the manifest
          manifest,   \* the manifests there are: a set of at most one list of [name, says, hash]
          revision,   \* the policy's version number
          opened,     \* the version each session's form was filled from
          saving,     \* the save each session is in
          spent       \* uploads and failed saves so far
manifestVars == <<vgpKind, beside, manifest, revision, opened, saving, spent>>

(* The kinds that point at files, and the one that carries a digest.       *)
HasPayload == vgpKind \in {"files", "startup"}
HashesPayload == vgpKind = "startup"

Resting == [at |-> "rest"]
InSave(w) == saving[w].at # "rest"
Lowered(entries) == IF HasPayload THEN {entries[i].name[1] : i \in DOMAIN entries} ELSE {}
AsText(name) == <<name[1], name[2]>>
AsTexts(entries) == IF HasPayload THEN {AsText(entries[i].name) : i \in DOMAIN entries} ELSE {}
HashOfName(name) == IF HashesPayload THEN name[1] ELSE NoDigest
Hash(name) == IF HashesPayload THEN beside[name[1]] ELSE NoDigest
Stated(m) == UNION {Lowered(l) : l \in m}

ManifestsInit ==
  /\ vgpKind \in VgpPolicies
  /\ beside = [n \in FileNames |-> Missing]
  /\ manifest = {} /\ revision = 1
  /\ opened = [w \in Writer |-> 0]
  /\ saving = [w \in Writer |-> Resting]
  /\ spent = 0

(* read, read_all: the entries and the version to write back against.      *)
ReadManifest(w) ==
  /\ ~InSave(w) /\ opened[w] # revision
  /\ opened' = [opened EXCEPT ![w] = revision]
  /\ UNCHANGED <<beside, manifest, revision, saving, spent, vgpKind>>

(* Beginning, ending or uploading crosses the saves of the others.         *)
Others(w) == [v \in Writer |-> IF v # w /\ InSave(v) THEN [saving[v] EXCEPT !.alone = FALSE] ELSE saving[v]]
End(w) == saving' = [Others(w) EXCEPT ![w] = Resting]

(* write_payload: the file, and nothing in the list.  A call that fails    *)
(* leaves part of it, or none at all where write removes what is there to  *)
(* put the file in its place.                                              *)
UploadPayload(w) ==
  \E n \in FileNames, c \in Contents \cup {Missing} :
    /\ HasPayload /\ ~InSave(w) /\ spent < MaxUploads /\ beside[n] # c
    /\ beside' = [beside EXCEPT ![n] = c]
    /\ spent' = spent + 1
    /\ saving' = Others(w)
    /\ UNCHANGED <<manifest, revision, opened, vgpKind>>

Turn(w, op) == saving' = [saving EXCEPT ![w] = op]
To(w, at) == Turn(w, [saving[w] EXCEPT !.at = at])

(* A save begins with the version the form was filled from, or without one *)
SetEntries(w) ==
  \E l \in EntryLists, versioned \in BOOLEAN :
    /\ ~InSave(w) /\ revision < MaxManifests
    /\ versioned => opened[w] = revision
    /\ saving' = [Others(w) EXCEPT ![w] =
                    [at |-> "check", dropped |-> {}, respelt |-> {}, alone |-> \A v \in Writer : ~InSave(v),
                     entries |-> [i \in DOMAIN l |-> [name |-> l[i].name, says |-> l[i].says, hash |-> NoDigest]]]]
    /\ UNCHANGED <<beside, manifest, revision, opened, spent, vgpKind>>

(* Every file an entry names has to be there before the manifest says so.  *)
CheckPayloads(w) ==
  /\ saving[w].at = "check"
  /\ IF \E n \in Lowered(saving[w].entries) : beside[n] = Missing
     THEN End(w) ELSE To(w, "fill")
  /\ UNCHANGED <<beside, manifest, revision, opened, spent, vgpKind>>

Filled(entries) == [i \in DOMAIN entries |-> [entries[i] EXCEPT !.hash = Hash(entries[i].name)]]
FillHashes(w) ==
  /\ saving[w].at = "fill"
  /\ IF HashesPayload /\ \E n \in Lowered(saving[w].entries) : beside[n] = Missing
     THEN End(w)
     ELSE Turn(w, [saving[w] EXCEPT !.at = "compare", !.entries = Filled(saving[w].entries)])
  /\ UNCHANGED <<beside, manifest, revision, opened, spent, vgpKind>>

(* The files of the names of the old list that the new one has in no case. *)
(* Among them may be one it names with a separator more or less: respelt.  *)
DroppedAll(old, entries) == Stated(old)
Gone(old, entries) == UNION {AsTexts(l) : l \in old} \ AsTexts(entries)
Dropped(old, entries) == {t[1] : t \in Gone(old, entries)}
Respelt(old, entries) == {n \in Lowered(entries) : \E t \in Gone(old, entries) : t[1] = n}

Compare(w) ==
  /\ saving[w].at = "compare"
  /\ IF saving[w].entries \in manifest THEN End(w)
     ELSE Turn(w, [saving[w] EXCEPT !.at = "write", !.dropped = Dropped(manifest, saving[w].entries),
                                    !.respelt = Respelt(manifest, saving[w].entries)])
  /\ UNCHANGED <<beside, manifest, revision, opened, spent, vgpKind>>

WriteManifestUnlessEmpty(w) ==
  /\ saving[w].at = "write"
  /\ manifest' = IF saving[w].entries = <<>> THEN manifest ELSE {saving[w].entries}
  /\ To(w, "remove")
  /\ UNCHANGED <<beside, revision, opened, spent, vgpKind>>
WriteManifest(w) ==
  /\ saving[w].at = "write"
  /\ manifest' = {saving[w].entries}
  /\ To(w, "remove")
  /\ UNCHANGED <<beside, revision, opened, spent, vgpKind>>

(* One file after the other; one that cannot be removed is left behind.    *)
RemoveDropped(w) ==
  /\ saving[w].at = "remove" /\ saving[w].dropped # {}
  /\ \E n \in saving[w].dropped :
       /\ beside' \in {beside, [beside EXCEPT ![n] = Missing]}
       /\ Turn(w, [saving[w] EXCEPT !.dropped = @ \ {n}])
  /\ UNCHANGED <<manifest, revision, opened, spent, vgpKind>>

BumpRevision(w) ==
  /\ saving[w].at = "remove" /\ saving[w].dropped = {}
  /\ revision' = revision + 1
  /\ End(w)
  /\ UNCHANGED <<beside, manifest, opened, spent, vgpKind>>

(* Any other call may fail, the file's after the old one has been removed  *)
(* and the version's after the directory has it.                           *)
SaveFails(w) ==
  /\ End(w) /\ spent < MaxUploads /\ spent' = spent + 1
  /\ \/ saving[w].at \in {"check", "fill", "compare"} /\ UNCHANGED <<manifest, revision>>
     \/ /\ saving[w].at = "write" /\ UNCHANGED revision
        /\ manifest' \in {manifest, {}, {saving[w].entries}}
     \/ /\ saving[w].at = "remove" /\ saving[w].dropped = {} /\ UNCHANGED manifest
        /\ revision' \in {revision, revision + 1}
  /\ UNCHANGED <<beside, opened, vgpKind>>

ManifestsNext ==
  \E w \in Writer :
    \/ ReadManifest(w) \/ UploadPayload(w) \/ SetEntries(w) \/ CheckPayloads(w) \/ FillHashes(w)
    \/ Compare(w) \/ WriteManifest(w) \/ RemoveDropped(w) \/ BumpRevision(w)
    \/ SaveFails(w)
ManifestsSpec == ManifestsInit /\ [][ManifestsNext]_manifestVars

(***************************************************************************)
(* Properties                                                              *)
(***************************************************************************)
(* There is one manifest, only the kinds that name files have any beside   *)
(* it, only startup scripts carry digests, and a save removes of the files *)
(* its list names those alone that the list names by another text.         *)
ManifestsTypeOK ==
  /\ Cardinality(manifest) <= 1 /\ revision \in 1..MaxManifests + Cardinality(Writer)
  /\ ~HasPayload => \A n \in FileNames : beside[n] = Missing
  /\ \A l \in manifest : \A i \in DOMAIN l : (l[i].hash = NoDigest) = ~HashesPayload
  /\ \A w \in Writer :
       saving[w].at = "remove" => saving[w].dropped \cap Lowered(saving[w].entries) \subseteq saving[w].respelt

Crossed(w) == ~saving[w].alone
SaysWhole(w) == \A l \in manifest' : \A i \in DOMAIN l :
           HasPayload /\ l[i].name[1] \notin saving[w].respelt =>
             /\ beside'[l[i].name[1]] # Missing
             /\ HashesPayload => l[i].hash = beside'[l[i].name[1]]
SaveAccepted(w) == (Compare(w) /\ saving'[w] = Resting) \/ BumpRevision(w)
(* A save no other session crossed leaves a policy members can apply: each *)
(* file its entries name is there, unless the list before named it by      *)
(* another text, and each digest is that of the file as it is now - also   *)
(* when the save found nothing to change, so a replaced script with the    *)
(* same entries counts as a change (vgp.write).                            *)
SavedWhole == \A w \in Writer : SaveAccepted(w) /\ ~Crossed(w) => SaysWhole(w)

(* A file goes only in an upload of it that fails, or because a list that  *)
(* named it was replaced by one that does not name it, and only after that *)
(* list is in place, unless another session crossed or the new list names  *)
(* it by another text (vgp._remove_dropped_payloads).                      *)
Removed(n) == beside[n] # Missing /\ beside'[n] = Missing
RemovedUnnamed ==
  \A n \in FileNames : Removed(n) /\ ~(\E w \in Writer : UploadPayload(w)) =>
    \E w \in Writer :
      /\ saving[w].at = "remove" /\ n \in saving[w].dropped
      /\ Crossed(w) \/ n \notin Stated(manifest) \/ n \in saving[w].respelt

(* A policy's list and the files beside it fit together: what the list     *)
(* names is there as stated, and what a save removes is named no longer.   *)
ListAndFilesAgree == [][SavedWhole /\ RemovedUnnamed]_manifestVars

(* Every digest is that of the file beside it while no save is under way.  *)
DigestsFollow ==
  (\A w \in Writer : ~InSave(w)) =>
    \A l \in manifest : \A i \in DOMAIN l : HashesPayload => l[i].hash = beside[l[i].name[1]]
=============================================================================
