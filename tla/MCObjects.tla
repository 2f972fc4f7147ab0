------------------------------ MODULE MCObjects ------------------------------
(* One run of the modules about what an administrator edits: accounts, the  *)
(* tree and its access lists, groups, DNS zones, sites, the life of         *)
(* policies, their registry settings, preferences and manifests.  They      *)
(* share no variable and no step reads another's, so a behaviour is of one  *)
(* of them, chosen at the start; the others keep a first state of theirs.   *)
EXTENDS MCAccounts, MCTree, MCGroups, MCZones, MCSites,
        MCGpoLife, MCTemplates, MCPreferences, MCManifests

VARIABLE focus

SessionsAlike == Permutations(AAdmin)  \* the same two in every component

directoryVars == <<accountVars, treeVars, groupVars, zoneVars, siteVars>>
policyVars == <<lifeVars, templateVars, preferenceVars, manifestVars>>
objectVars == <<directoryVars, policyVars, focus>>

ObjectsInit ==
  /\ AccountsInit /\ TreeInit /\ GroupsInit /\ ZonesInit /\ SitesInit
  /\ LifeInit /\ TemplatesInit /\ PreferencesInit /\ ManifestsInit
  /\ focus \in {"accounts", "tree", "groups", "zones", "sites",
                "life", "templates", "preferences", "manifests"}
  /\ focus # "preferences" => place = [type |-> "services", half |-> "Machine"]
  /\ focus # "manifests" => vgpKind = "motd"

DirectoryNext ==
  \/ focus = "accounts" /\ AccountsNext /\ UNCHANGED <<treeVars, groupVars, zoneVars, siteVars>>
  \/ focus = "tree" /\ TreeNext /\ UNCHANGED <<accountVars, groupVars, zoneVars, siteVars>>
  \/ focus = "groups" /\ GroupsNext /\ UNCHANGED <<accountVars, treeVars, zoneVars, siteVars>>
  \/ focus = "zones" /\ ZonesNext /\ UNCHANGED <<accountVars, treeVars, groupVars, siteVars>>
  \/ focus = "sites" /\ SitesNext /\ UNCHANGED <<accountVars, treeVars, groupVars, zoneVars>>
PolicyNext ==
  \/ focus = "life" /\ LifeNext /\ UNCHANGED <<templateVars, preferenceVars, manifestVars>>
  \/ focus = "templates" /\ TemplatesNext /\ UNCHANGED <<lifeVars, preferenceVars, manifestVars>>
  \/ focus = "preferences" /\ PreferencesNext /\ UNCHANGED <<lifeVars, templateVars, manifestVars>>
  \/ focus = "manifests" /\ ManifestsNext /\ UNCHANGED <<lifeVars, templateVars, preferenceVars>>
ObjectsNext ==
  /\ UNCHANGED focus
  /\ \/ DirectoryNext /\ UNCHANGED policyVars
     \/ PolicyNext /\ UNCHANGED directoryVars
ObjectsSpec == ObjectsInit /\ [][ObjectsNext]_objectVars

(* Each component's state is of its type, with what the code relies on in  *)
(* reading it back.                                                        *)
ObjectsTypeOK ==
  /\ AccountsTypeOK /\ TreeTypeOK /\ GroupsTypeOK /\ ZonesTypeOK /\ SitesTypeOK
  /\ LifeTypeOK /\ TemplatesTypeOK /\ PrefsTypeOK /\ ManifestsTypeOK
=============================================================================
