# SAMADCON: specification, model checking and proofs

SAMADCON is a web console for Samba Active Directory domains: a FastAPI backend
(`src/backend/samadcon`) that serves one JSON API, and a React frontend
(`src/frontend`). One process serves every administrator. It keeps no data of
its own: the directory lives on the domain controllers (LDAP), the contents of
group policies on their SYSVOL share (SMB). Both are shared with every other
administrator, every other instance of the console, and the domain itself.

This directory holds TLA+ modules that model the parts of the backend where
order, concurrency and partial failure matter, TLC configurations that check
them on small instances, and theorems with proofs that TLAPS checks. Each module
says in its header which source files it models; `PROJECT.json` maps each
definition to its lines.

## 1. Inventory

How a request runs: uvicorn's single event loop runs the async handlers, one
coroutine at a time up to its next `await`; FastAPI runs the synchronous
dependencies (`current_session`, `session_worker`) on a thread pool; the blocking
Samba calls of one session run on that session's one worker thread.

| Part (`src/backend/samadcon/...`) | State it keeps | Operations | Hard because | Correct when |
|---|---|---|---|---|
| Session store `auth/session.py` | sessions in memory, under a lock | create, get, drop, sweep, close_all | pool threads, event loop and worker threads interleave; time passes | a stored session can be served; an ended one leaves nothing behind |
| Worker registry and threads `core/executor.py` | one worker per session id, its queue, `_closed` | get, drop, run, close, shutdown | a timed-out call goes on; close runs beside run | one thread per session; every caller gets an answer |
| Connection bridge `ad/access.py` | the connection cached in the worker | ad_read (reconnects once), ad_write (never) | the connection is lost in the middle of a call | a modification is never sent twice |
| Sign-in `api/v1/auth.py`, `auth/kerberos.py` | credential caches on tmpfs | login, logout, acquire_ticket, destroy_ticket | four awaits, each with its own failure path | every path undoes what the earlier steps made |
| Throttling `auth/session.py`, `core/ratelimit.py` | failures per user and address, probe times | check, record_failure, record_success, prune | check and record are apart by the whole Kerberos exchange | no more attempts than configured per window |
| GPO settings editors `gpo/admx/writer.py`, `scripts.py`, `folders.py`, `security.py`, `audit_csv.py`, `preferences/store.py`, `vgp.py` | a file on SYSVOL per editor and GPO | read, set, remove, with the version the editor read | two stores (LDAP, SYSVOL), no transaction, other administrators | a client that sees a new version finds the new file; no silent overwrite |
| GPO container `gpo/container.py`, `gpo/cse.py` | versionNumber, GPT.INI, the lists of registered extensions | get, create, delete, rename, set_status, bump_version, register | read-modify-write on shared attributes; a create in seven steps with a rollback | versionNumber and GPT.INI agree; a failed create leaves nothing |
| GPO transfer `gpo/transfer.py` | none | copy, backup, restore | builds on create, then many writes | as create |
| GPO links and inheritance `gpo/links.py`, `gpo/gpmc.py` | gPLink, gPOptions | link, unlink, reorder, set flags, inheritance | read-modify-write of a string; reversed order | links of others survive; precedence as Windows computes it |
| SYSVOL access `gpo/sysvol.py` | SMB connections, DFS referral state | read, write (three-step fallback), delete, mkdir, tree copy | retries on a broken connection, partial writes | a write is complete or reported |
| Registry.pol, ADMX, preferences formats `gpo/registry_pol.py`, `gpo/admx/*`, `gpo/preferences/*` | none | parse, merge, serialise, resolve a policy's state | binary and XML formats | what is written reads back |
| Directory objects `ad/users.py`, `groups.py`, `computers.py`, `ou.py`, `directory.py`, `sites.py` | attributes in LDAP | create (with rollback), update, move, delete, membership | several LDAP operations per request; last-administrator guards | a failed create is undone; the last administrator is not locked out |
| DNS `ad/dns.py`, `ad/dnsrecords.py` | dnsRecord values, SOA serial | add, update, delete records, create zone | read-modify-write of a multi-valued attribute, 32-bit serial | records of others survive; the serial only grows |
| Write guard `ad/write_guard.py` | the set of protected objects | check before add, modify, rename, delete | DN comparison | no protected object is changed |
| Connection `ad/connection.py`, discovery `ad/discovery.py`, `targets.py` | LDB and SMB handles | connect, search, modify (diff then replace) | DC selection and fall back | writes go to the DC that was chosen |
| Caches `core/cache.py` | values with a time to live | get_or_set, invalidate | a load that overlaps an invalidation | no value older than its time to live |
| Audit log `core/audit.py` | a log file | record | rotation | every change is recorded |
| Diagnostics, reports, certificates, functional level | none | read only | | |
| Frontend `src/frontend/src` | window stack, draft sheets, CSRF token, console location | open and close windows, edit drafts, call the API | answers arriving out of order | a draft is never saved over newer data unseen |

## 2. Modules

| Module | What it is | Sources |
|---|---|---|
| `Sessions` | the life of a signed-in session | `auth/session.py`, `core/executor.py`, `ad/access.py`, `auth/deps.py`, `api/v1/auth.py`, `auth/kerberos.py`, `main.py` |
| `GpoEdit` | saving the content of one group policy | `gpo/admx/writer.py`, `gpo/scripts.py`, `gpo/folders.py`, `gpo/security.py`, `gpo/audit_csv.py`, `gpo/preferences/store.py`, `gpo/vgp.py`, `gpo/container.py`, `gpo/cse.py`, `gpo/report.py`, `gpo/sysvol.py` |
| `GpoLinks` | linking policies, and which of them reach a container | `gpo/links.py`, `gpo/gpmc.py`, `delete_gpo` of `gpo/container.py` |
| `LinkOrder` | the abstract specification `GpoLinks` implements | what linking promises |
| `SignIn` | what comes before a session: rate limit, probe, throttle, krb5.conf, choice of a controller | `auth/session.py`, `core/ratelimit.py`, `core/cache.py`, `ad/target.py`, `ad/targets.py`, `ad/discovery.py`, `ad/connection.py`, `auth/krb5conf.py`, `api/v1/auth.py` |
| `Accounts` | user accounts: create, copy, options, password, groups, delete | `ad/users.py`, `ad/uac.py`, `api/v1/users.py` |
| `Tree` | units, computers, moving, renaming, deleting, access lists, the write guard | `ad/ou.py`, `ad/directory.py`, `ad/computers.py`, `ad/sacl.py`, `ad/write_guard.py`, `ad/connection.py` |
| `Groups` | scope and type, members, the walks over nested groups | `ad/groups.py`, `api/v1/groups.py` |
| `Zones` | DNS zones and records | `ad/dns.py`, `ad/dnsrecords.py`, `api/v1/dns.py` |
| `Sites` | sites, subnets, servers, site links, UPN suffixes | `ad/sites.py`, `ad/upn.py`, `api/v1/sites.py` |
| `GpoLife` | a policy from creation to deletion, copies and backups | `gpo/container.py`, `gpo/transfer.py`, `gpo/sysvol.py`, `api/v1/gpos.py` |
| `Templates` | an administrative template's state and the registry values that say it | `gpo/admx/resolver.py`, `gpo/admx/writer.py`, `gpo/admx/model.py`, `gpo/registry_pol.py` |
| `Preferences` | what a save makes of a preference file | `gpo/preferences/*.py`, the list editor of the frontend |
| `Manifests` | Samba's own policies and the files they name | `gpo/vgp.py`, `api/v1/vgp.py` |
| `MC...` | instances for TLC; `MCObjects` and `MCLogins` put several components in one run | |
| `Collections` | filtering sequences and merging functions, in a form the provers can use | |
| `SessionsProofs`, `GpoEditProofs`, `PolicyProofs`, `SignInProofs`, `AccountsProofs`, `DirectoryProofs`, `GpoLifeProofs` | theorems and proofs; `PolicyProofs` is about `GpoLinks`, `Manifests` and `Preferences`, `AccountsProofs` about `Accounts` and `Groups`, `DirectoryProofs` about `Tree`, `Sites` and `Zones` | |
| `CollectionsProofs` | lemmas about sequences the others use | |

The components share no state inside the console: a session's worker
thread (`Sessions`) runs the calls the other modules describe. What
`Sessions` establishes for them is used there: the calls of one
session are serialised by its one thread, those of two sessions are not, so in each
module a session has one operation at a time and sessions interleave at every
remote call. `SignIn` ends where `Sessions` begins, with the bind. `GpoLife` makes and deletes the
policies whose content `GpoEdit` saves and whose links `GpoLinks` keeps;
`Templates`, `Preferences` and `Manifests` say what one save of `GpoEdit` writes.

### Sessions

| State | In the program |
|---|---|
| `sessions`, `clock` | `SessionStore._sessions`; `last_seen` and `ticket_expires` of each session, abstracted to live / idle too long / ticket ended |
| `workers`, `owner`, `closed`, `shut`, `queue`, `phase` | `ExecutorRegistry._workers`; a `SessionWorker`: its session id, `_closed`, its shut pool, its queue, how far the running call is |
| `conn`, `ccache`, `applied` | the `DirectoryConnection` in the worker's state, the credential cache on tmpfs, how often a modification reached the directory |
| `pc`, `answer`, `cookie`, `hand` | where each handler is, what its awaited future has come to, the session id it carries, the worker its dependency returned |
| `drop`, `dropper`, `victim`, `stale`, `mode` | `SessionStore.drop` between its pop and its unlink, the lists of `sweep` and `close_all`, the lifespan |

A step is what runs without another thread being able to look: the event loop
from one `await` to the next (`LoopFree` keeps other coroutines out while it is
inside a synchronous `drop`), a locked section of the store or the registry
on a pool thread, one stage of a blocking call on a worker thread. `login` is
`LoginStart`, `Resolved`, `Ticketed`, `SignedIn`, with `LoginFails` and
`ConnectFails` for its two except branches; a request is `Lookup`, `Refused`,
`Touch`, `GetWorker`/`MakeWorker`, `RunCheck`, `RunSubmit`, `Answered`. `GiveUp`
is `asyncio.wait_for` running out: the caller goes on, the call stays where it is
on its thread (`core/executor.py`, "the thread itself cannot be killed").
`SessionStore.drop` is five steps (pop, unregister, queue the cleanup, shut the
pool, unlink), because its caller may be a pool thread while the event loop and
the worker go on.

### GpoEdit

| State | In the program |
|---|---|
| `version`, `ini` | `versionNumber` of the directory object, `Version` in GPT.INI: two words of `Word` values each |
| `files`, `registered` | the editors' files on SYSVOL, `gPCMachineExtensionNames` and `gPCUserExtensionNames` |
| `pc`, `task`, `expect`, `view` | what each window edits, and the version and content it was loaded with |
| `new`, `changed`, `number`, `fix`, ... | the local variables of a save between two remote calls |
| `at`, `got` | a client of the domain (external): the words and files of its last fetch |
| `last`, `whole` | history: how the last save of each file ended |

The seven editors follow one protocol and differ in details that matter: which
of them compare the version, which answer "unchanged" before they write and which
of those still repair the registration, which delete the file with its last
item, which unregister, which share an extension with a second file. The
actions `Load`, `Start`, `Read...`, `Write`, `Count`, `RegRead`, `RegWrite`,
`BumpRead`, `BumpWrite`, `IniWrite`, `Report` are the remote calls of a save in
order, each a step; `Fail` ends a save at any of them with the state written so
far. A write of a file may also stop halfway (`"file"` in `Failing`). `Rename`
(which rewrites GPT.INI) and `Reconcile` (which repairs registrations) write parts
of the same state. `Poll` is the client.

### GpoLinks and LinkOrder

`gplink` is the attribute as it is stored: the entry that takes precedence is the
last one, and parsing reverses it. An operation is `Begin`, `Read`, `Write` (or
`Find`, `Drop` for the deletion of a policy); `Accepted` and `Changed` are the
checks and the list manipulation of `links.py`, `Format`/`Parse` its string
conversion with both reversals. `Applied(c)` is what `inheritance` of `gpmc.py`
computes for a container from the links on its way up. `LinkOrder` knows nothing
of attributes: containers have an order of policies, and operations insert,
remove, change, block, waive and delete. `Promise` maps it: `order` is the parsed
attribute.

### Accounts, Tree, Groups, Zones, Sites

These five modules have one form. The first variable is the directory (`accounts`, `tree`,
`entries`, `zones`, `topo`): a function from the names that exist to what the code reads of
them. The second holds each session's operation (`acting`, `working`, `task`, `dnsWork`,
`order`): the request, what has been read so far, and `todo`, the requests to the
domain controller the handler has yet to send. A handler is translated as a plan, the
sequence of its requests in their order, and one definition per kind of request: its
guard is the handler's check at that place, what it changes is what the controller is
told. Between two requests those of other sessions arrive; a request may fail, and then
the handler's `except` branch is what remains to do. What the controller does by itself
(a new account's groups, references that follow a renamed site, a refused change of scope) is
marked as such and follows from how the code relies on it.

- `Accounts`: the plan of `create_user` is add, password, options and reading back (`GetUser`); `Unfinished` says when an error
  leads to the rollback, and `Lost` on the rollback is the failure the code suppresses. `AOverlapping` says whether two sessions may work on one account at once. An access list is a sequence of abstract entries, because order is what it is about.
- `Tree`: a name is its path, so being inside is being a prefix, and the write guard
  (`GuardDelete`, `GuardRename`, ...) is one definition per check of `DirectoryConnection`. An
  access list distinguishes protection, two kinds of other entries and inherited ones.
- `Groups`: `groupType` is a signed word with the real bits, the security bit placed by `TopBit`.
  The two walks are loops that ask for one object a step.
- `Zones`: the records of a name are one sequence, an SOA, undecodable ones and records of a type and a datum;
  requests may spell a datum in several ways (`Spelling`). A serial at `MaxSerial` stays where it is, as the library takes no larger number.
- `Sites`: references are by identity, so they follow a rename; a subnet is an address of `Width` bits and a length.

### GpoLife

`gpcs` is the directory's policies, `sysvol` the folders with what is at each path, its data
and whose permissions it has, `backups` the archives. Operations are plans as above; the rollbacks of
`create_gpo`, `copy_gpo` and `restore_gpo` are plans too. `Faults` has two kinds of failure: `"call"`,
nothing happened, and `"answer"`, it was carried out and reported as failed (a lost answer, or a
call that `sysvol.py` repeats on a new connection). Walking a folder, copying it and
packing it are steps per file.

### SignIn

`failures`, `events`, `cached`, `realms` and `file` are the throttle's counters, the limiter's times,
the probe cache, the KDCs in memory and in `krb5.conf`. An attempt goes from step to step of `login`:
`Limit`, `FindTarget` and `Probe`, `CheckThrottle`, `Register` (the KDCs), `Kinit`, then one `BindTo` after the other.
Servers answer what `Identity` and `Bind` allow, and time passes between steps. `tried` and `let`
are history: wrong passwords seen by a KDC, and requests the limiter let through.

### Templates, Preferences, Manifests

- `Templates`: `EntriesFor` is `entries_for` of the resolver with all element kinds, `StateOf` is `state_of`,
  `RemovedBy` and `Merge` what a save takes out and puts in. An entry's data are numbers with the type they
  are stored as; a value name has a number, for list elements.
- `Preferences`: the catalogue's kinds with the flags that change what happens, items with their
  properties, conditions, options, stamp and identifier, and three actors: a window that read the file, a save, and the
  Windows console writing the same file.
- `Manifests`: a save is check payloads, take digests, write the manifest, remove what was dropped, advance the version;
  uploads by other sessions come in between, and any call may fail (`SaveFails`; a failed `UploadPayload` leaves part of the file or none).
  A name is a file, a text and a spelling: the list is kept by the text (without case, separators included), checked and removed by the file.

## 3. Runs

`tlc -config <cfg> <module>` in this directory; Java and TLC 2 suffice.

| Run | Configuration | Checks | Shows |
|---|---|---|---|
| `live` | `SessLive.cfg` | `TypeOK` `SessionServed` `OneThreadPerSession` `WrittenOnce` `NeverRevived` `LapsedTicketRemoved` `HandlersEnd` | one session with a read and a write, every caller may stop waiting, the session may lapse: what is in the store can be served on one thread, nothing is written twice or revived; an expired ticket goes whether or not its user returns, and every handler ends |
| `logins` | `Logins.cfg` | `NothingLeftBehind`; `LimitsKept` `KdcsNamed` `FreshIdentity` `FallsOver` | two sign-ins, one with a refused name, with requests, sign-out and shutdown: every path releases tickets and connections. Two sign-ins at once: an account gets no more tries than the limit and those in flight, the shared Kerberos file names the controllers, a controller is passed over only for a reason |
| `kinit_timeout` | `SessKinit.cfg` | violates `NoStrayTicket` | finding 1 |
| `gpo` | `Gpo.cfg` | `TypeOK` `HalvesAgree` `RegistrationFollows` `ChangedIsFetched` `InUseKept` | templates and both script files of one half, a preference type of the other, every remote call may fail |
| `gpo_shared` | `GpoShared.cfg` | `EditorSawIt` `OnlyItsOwn` `ClientsCatchUp` | two editors one after the other, a kind that merges and is never unregistered (security), one that replaces (preferences); `OnlyItsOwn` includes `SecurityKept` |
| `gpo_overwrite` | `GpoOverwrite.cfg` | violates `EditorSawIt` | finding 2 |
| `gpo_repeat` | `GpoRepeat.cfg` | violates `RepeatedIsFetched` | finding 3 |
| `links` | `GpoLinks.cfg` | `TypeOK` `OneLinkEach` `InheritanceHolds` `ImplementsOrder` `MovesLand` | two sessions link, unlink, move, block and delete in a domain with two levels of units and a site |
| `link_order` | `LinksOrderOne.cfg` | violates `OrderOneWins` | finding 4 |
| `objects` | `Objects.cfg` | 15 properties, see below | two sessions on each kind of object |
| `prefs_stamp` | `PrefsStamp.cfg` | violates `StampHonest` | finding 5 |
| `templates_keyed` | `TemplatesKeyed.cfg` | violates `SaysExactly` | finding 6 |

`objects` and `logins` put components into one run that share no variable. A
variable `focus` picks one at the start, only its actions are taken, and the others stay in their first
state: the states are the sum of the components' and not their product, and nothing is
lost, because no step of one reads a variable of another. A property that says one thing of several steps is the conjunction of named parts, each stated and commented by itself
in its module; a mutant in `PROJECT.json` breaks each part in turn. What `objects` checks:

| Module | Properties |
|---|---|
| all | `ObjectsTypeOK`: the type invariants of the nine modules, with what their readers rely on: no DNS name without data (`NoEmptyName`), no UPN suffix twice (`SuffixesTell`), no registry value twice, ... |
| `Accounts` | `MustOrCannot`: options that exclude each other. `DoneAsAnswered`: what is refused, and a creation that fails, leaves what was there, but for what `MayLeave` admits (`AsFound`; section 5); an administrator is not disabled or deleted unasked (`AdminConfirmed`); the report of a copy is true (`ReportTrue`); the access list keeps every other entry, and the order the controller wants of one that had it (`Rewritten`; for inherited entries see section 5); `OnlyOptions` |
| `Tree` | `GuardKept`: nothing happens to a configured unit. `AclSound`: denies first (`DenyAhead`), no entry twice (`NoEntryTwice`). `DoneAsShown`: a list is written from what the sheet showed (`WrittenAsShown`), a unit is only taken by an operation that read it without protection, though it may be protected by then (`UnitTaken`) |
| `Groups` | `MembershipsHold`: a change of scope nobody crosses makes no legal nesting illegal, but for the groups a new domain-local group is in (`Rescoped`), others' members kept (`Membership`). `WalkShows`: a walk shows each object once, all of it within the guard |
| `Zones` | `RecordsChanged`: one record (`OneRecord`), one advance of the serial and none for a refusal (`Moved`) |
| `Sites` | `ReferencesHold`: no server or subnet goes with a site (`DeletedEmpty`), a link joins sites that exist (`LinksJoin`) |
| `GpoLife` | `MadeAsAsked`: creation, copy and restore are whole or undone (`MadeWhole`), hold what they were made of (`Faithful`) without what status reports (`Sound`); `HalfAlone`. `FoldersOwned`: `NoOrphanTree`, `PermissionsInherited`, both but for folders a save made again (`MadeAgain`; section 5) |
| `Templates` | `SavedExactly`: the form shows what was saved (`ReadsBack`), the file has that (`SaysExactly`) and what others put there (`OthersKept`), saving it again finds nothing to write (`NothingAgain`) |
| `Preferences` | `PreferencesKept`: what the form does not show is carried (`FiltersAsRequested`, `CarriedUnseen`), what it shows is what was asked (`SavedAsAsked`), the stamp moves with a change (`NamedStampHonest`) |
| `Manifests` | `ListAndFilesAgree`: every file named is there with the digest stated (`SavedWhole`), no save removes one that is named (`RemovedUnnamed`), both but for names respelt with a separator (section 5) |

`NothingLeftBehind` of `logins` is `NoStrayTicket`, `ClosedHoldsNoHandle` and `ShutdownEmpties`; `LimitsKept` is
`SignInTypeOK`, `AtMostAttempts` and `RateKept`; `InheritanceHolds` of `links` is `StoppedByABlockBelow` and `CloserWins`.

### Bounds

- **Sessions.** One session id suffices for all that happens to one session (ids
  are never reused, and sessions meet only in the registry's size); `logins` has
  two. Requests are a reader and a writer: one can be running, the other queued or
  between the registry and the queue. Threads: the worker of each sign-in,
  one for each late registry lookup. `Slow` names the calls whose caller may stop
  waiting; `logins` leaves `"kinit"` out, and `kinit_timeout` is why; it
  has `Lapsing = {}` too: with a session that lapses during a request
  `ClosedHoldsNoHandle` does not hold (section 5). Threads and attempts are interchangeable and form the
  symmetry set of `logins` (one thread is left out of it, which is sound and cheaper); `live` has none.
- **SignIn.** Limits of one (`MaxAttempts`, `MaxEvents`, `MaxCached`, and tables pruned above one) so that each is reached; two
  sign-ins in flight and three in all: one that fills a counter and two that pass it together. Two clock
  ticks: an entry can lapse.
- **GpoEdit.** `Word = 4` stands for 2^16. `FirstVersion` is `Brink`, both words at
  their last value, so the first save of each half wraps. `MaxSaves` bounds the
  saves that start and is smaller than `Word`: a window does not stay open over
  2^16 saves by others. With `Word` saves while a window is open its version
  would match again; the program has that limit too. Two saves reach: fail and repeat or another edit,
  with rename and reconcile before, between and after; two windows and two saves reach every overtaking.
  One `Entry` makes a file present, absent or without content; which value a setting has is nobody's guard.
- **GpoLinks.** Two policies, containers on three levels and a site, starting
  lists of up to two links with every option; three operations begun by two
  sessions. Lists get as long as there are policies. A move needs only two links
  to land wrongly, and places 0 to 3 include none, both ends and past the end.
- **objects.** Two sessions and two operations per component: every pair of requests in every interleaving of their
  calls (for accounts: on different accounts, `AOverlapping = FALSE`; section 5 says what happens on one), and two in a row, over instances chosen so that requests meet: one template account and one that is an
  administrator by a nested group, a guarded unit under an ordinary one, groups in a cycle, a zone whose serial is one below its
  largest, a policy whose two versions disagree and a backup of another tool. Any call may fail (`AFailing` and
  its like), except for groups, whose one-step changes leave nothing to undo. In `GpoLife` one call fails, plainly (`Faults = {"call"}`), and nobody
  deletes or edits a policy that is still being made (`Meddling = FALSE`; such a policy has no link and its creator has no answer yet).
  `MaxDepth = 2`, `MaxLevels = 2`: the guards are reached. `TopBit = 16`, `MaxSerial = 2`: words wrap.
  `Templates` makes three saves, which is one that sets, one that changes and one that takes away, over four policies with every kind of
  element; `Preferences` and `Manifests` three versions, in `Manifests` with two uploads or failed saves (`MaxUploads`).

`CHECK_DEADLOCK FALSE` where a bounded number of operations ends in rest: `GpoLinks.cfg`, `LinksOrderOne.cfg`, `Objects.cfg`,
`PrefsStamp.cfg` and `TemplatesKeyed.cfg`. `Sessions` has `Stopped`, `GpoEdit` a client that polls, and in `logins` the
sign-ins may rest at their bound while sessions must not get stuck.

### Fairness

`Sessions!Fairness`: the event loop runs ready coroutines and the pool ready
dependencies (weak fairness of each handler's steps after its first one), the
sweeper wakes each minute (`main.py`), and a blocking call ends, with an error if
not otherwise, because LDAP, SMB and `kinit` are given time limits of their own.
Users need not sign in, send anything or sign out, and a session need not lapse.
Nothing is assumed of `GiveUp`.

`GpoEdit!Fairness`: a save that runs goes on (its worker executes the queue), and
clients refresh their policies periodically (every 90 minutes by default; external).
Nobody needs to open an editor or save.

## 4. Findings

1. **A ticket no session owns** (`kinit_timeout`). When `login` gives up on `kinit` it
   drops the worker and deletes the credential cache, and the abandoned call
   then writes it. `main.py:26` and `main.py:100` say what should
   hold; neither the sweeper nor the shutdown knows the file.
2. **The version check does not exclude two saves** (`gpo_overwrite`). It is made at the
   beginning and the number advanced at the end, with every remote call of the
   save in between; `writer.py:95` promises that administrators do not silently overwrite
   each other. With saves that do not overlap the promise holds, and that is a theorem.
3. **Repeating a failed save does not publish it** (`gpo_repeat`). The repeated save finds
   its content in the file, has nothing to write and answers without advancing the
   version: the fault `writer.py:13` describes, for every failure but the one it was
   fixed for.
4. **Link order is read the wrong way round by inheritance** (`link_order`). Of two links on
   one container `inheritance` gives the one with order 1 the lower precedence;
   `gpmc.py:254` and `schemas/requests.py:379` say 1 wins.

5. **A save that changes nothing counts as a change** (`prefs_stamp`). `store.py:232` says why the stamp moves only with a change.
   For the kinds that write no status attribute (local users and groups, services, tasks) the comparison always
   fails, so saving such an item as it is gives it a new stamp, rewrites the file and raises the version.
   `NamedStampHonest`, the same for the other kinds, holds.
6. **A value under the policy's own key stays behind** (`templates_keyed`). A checkbox or choice with a key of its own may
   bring values without one, which are written under the policy's key; `claims` looks for them under the
   element's. They stay when the policy is disabled, where `resolver.py:15` says that they are removed. In
   `objects`, without such an element, `SaysExactly` holds.

## 5. What else the models show

These are not runs of their own. The properties named are in the modules, the
constants that violate them are given, and each can be checked by putting both in a configuration.

- `Sessions!WorkerPerActiveSession`. With `BadName = {s1}`: `acquire_ticket` refuses a
  malformed name on a branch that leaves the worker registered. Also a request
  whose registry lookup runs after the session was dropped makes a worker for a
  session that is gone.
- `Sessions!NeverTwoThreads` (`core/executor.py`: "serialised by construction"): after such a late
  lookup the old thread may still run its last call. `OneThreadPerSession` is
  what does hold: not while the session is stored.
- `Sessions!ClosedHoldsNoHandle` with `Lapsing = {s1}`: a call that was submitted after the
  cleanup job opens a connection that nobody closes.
- `GpoEdit!OnlyItsOwn` in `GpoShared.cfg` with `Overlapping = TRUE`: a save puts back the
  extension list it read, without what the other registered meanwhile.
- `GpoEdit!ChangedIsFetched` with `Overlapping = TRUE`, one file, two editors, `MaxSaves = 4` and
  `Word = 5`: a save that read the version early writes it back late; the next
  number is then one that clients have already fetched.
- `GpoEdit!RepeatedIsRegistered` with both script files in `File` and `Failing = {"call"}`: as finding 3, for the
  registration of the scripts extension.
- `GpoEdit!NeverUnregisteredKept`: reconciling removes the audit extension when no file is
  left, which saving never does; `SecurityKept`, in `OnlyItsOwn`, is the part that holds.
- `GpoEdit!InUseKept` with a file of kind `"other"`: reconciling unregisters what the report
  does not understand.
- `GpoLinks!BlockStopsAllAbove` (`gpmc.py:391`): of two blocking containers on the way,
  only the upper one is looked at (`gpmc.py:412`). `StoppedByABlockBelow` is the
  direction that holds.
- `GpoLinks!ImplementsOrder` with `Overlapping = TRUE`: an operation writes back the list it read, and
  the other session's link is gone.
- Deleting a policy is refused while it is linked, but a search that fails counts as one
  without links (`links.py:318`): a policy may go while a container names it.
  `LinkOrder!Waive` admits exactly this.

The following are violated with the constants of `Objects.cfg`, or with the ones given.

- `Tree!AdminsTakenConfirmed` (`CHANGELOG.md:1188`, "the server enforces it on every path"): `delete_object` asks
  about the object it is given (`ad/directory.py:779`). Deleting a container or a unit with everything
  in it takes an administrator along without asking.
- `Accounts!MustOrCannot` with `AOverlapping = TRUE`, two sessions on one account: setting "cannot change" reads `pwdLastSet`
  (`ad/users.py:1026`), setting "must change" reads the access list (`ad/users.py:920`), and both write afterwards. Each
  check passes, and the two options `_must_and_cannot` calls exclusive are both set. `AdminConfirmed` is violated in the same
  way (the account joins an administrators' group between the check and the write), and `OnlyOptions`. `AsFound` then sees the other session's change;
  types and `Rewritten` hold in that instance too.
- `Accounts!AsFound` without the last three lines of `MayLeave`. An update whose request names an option that `uac.apply` refuses
  (`ad/uac.py:100`) has already written the other attributes (`ad/users.py:672`, then 679; the docstring's "a refusal does not leave the
  other fields of the same request already saved" is true of the administrator check alone). A creation whose
  rollback fails too leaves the disabled account, since the failure is suppressed (`ad/users.py:369`). And a creation or copy is
  answered with an error although all of it, or a copy's account without its groups, is there, when only `get_user` fails at the
  end (`ad/users.py:372`, 610). `MayLeave` admits these and nothing else.
- `SignIn!KdcsNamed` while the console's own disk takes no file: `_write` logs the error and returns with the realm recorded in memory
  (`auth/krb5conf.py:173`), so the next sign-in to that realm finds nothing new to record (`auth/krb5conf.py:83`) and the file is never
  written. `Register` always writes.
- `Accounts!NeverBoth` (`ad/users.py:907`): "must change at next logon" and "never expires" are
  refused together where an account is made or its password set; the route that writes the
  options has no such check. `OnlyOptions` says that it is the only way.
- `Groups!WithinDepthShown`: the walks remember an object at the depth at which they first met it
  (`ad/groups.py:404`). Met first on a long way it is not expanded, and what lies behind it is
  missing although a short way leads there. `WalkShows` is what holds.
- `Zones!SerialsDiffer`: `advance_zone_serial` reads and writes in two calls (`ad/dns.py:243`), so two sessions'
  changes can carry one serial. A secondary that took the first does not ask for the second.
- `Zones!Answerable`: a zone is added before its apex (`ad/dns.py:520`); a failure in between
  leaves a zone without SOA and NS, which no operation of the console completes.
- `Sites!LinksStayJoined` with `MaxSiteOps = 3`: deleting a site does not look at the links it is in
  (`ad/sites.py:308`), and a link of two sites is left with one, what `_validate_members` refuses to write.
- `Sites!SitesComplete`: creating a site is three calls without rollback (`ad/sites.py:238`).
  After a failure the site exists, a second attempt is refused with `site_exists`.
- `GpoLife!RestoredAgrees`: a backup of another tool, without this console's manifest, is restored with
  the GPT.INI it holds; the object keeps version 0.
- `GpoLife!NoOrphanTree` with `MaxFaults = 2`: a creation fails, and its rollback cannot remove the folder; the
  object goes all the same (`gpo/container.py:316`) and the folder has no owner. With `Faults = {"answer"}`: the directory added or deleted the object and the answer
  was lost (`gpo/container.py:292`), or `sysvol.py` repeated a call that had been carried out (`gpo/sysvol.py:166`).
- `GpoLife!NoOrphanTree` without the exception `MadeAgain`, with no failing call at all: a save makes the folders above its file
  (`gpo/admx/writer.py:221`, `gpo/preferences/store.py:116`) after it last asked for the policy. If another session deletes the policy
  before, `makedirs` makes its whole folder again with the share's permissions, and the file goes into it; then `bump_version` finds no object and the save
  fails. The folder stays, which `gpo/container.py:554` calls "invisible in every console", and its permissions are nobody's.
  `MadeAgain` tells such a folder from every other; `FoldersOwned` says that these are the only ones.
- `Preferences!RemovedOrOnce` with `Starts <- OnceForeign`: conditions the console does not edit are read
  without their apply-once marker (`gpo/preferences/targeting.py:108`), so the check of the two options
  (`gpo/preferences/store.py:296`) lets removal through and the marker is written back beside it.
- `Manifests!ListAndFilesAgree` without its exception for `respelt`, in one save nobody crossed. Files are checked, digested and unlinked by
  `payload_name`, which takes separators around a name away (`gpo/vgp.py:652`); what the new list keeps is compared by `strip().lower()` alone
  (`gpo/vgp.py:696`). A list that names `run.sh`, replaced by one that names `/run.sh`, passes the check, is written, and then loses the file both
  mean: "a file deleted while the manifest still names it is a broken policy" (`gpo/vgp.py:629`).
- `Manifests`, an upload that fails: `share.write` answers a file in use, or one it may not overwrite, by removing it and writing it anew
  (`gpo/sysvol.py:378`, 392). If the second half fails the file is gone while the manifest names it; the same may befall the manifest, and the
  next save then finds no list and removes nothing. `RemovedUnnamed` is about what saves remove.
- `Manifests!DigestsFollow`: replacing a script (`gpo/vgp.py:707`) does not touch the manifest. Until it is
  saved again its digest is the old file's, and a client that goes by it keeps the old script.

Four things that have no property of their own, because they follow from one definition:

- An administrative template is read back differently from what was written where the
  definition is ambiguous: enum items with the same value and different lists read as the
  first; a policy whose `enabledValue` is a deletion reads as disabled; lists and enum items of
  deletions read as not configured (`Templates!StateOf` and `ReadsBack`'s premise).
- Denying the password change puts the two entries ahead of the first one that allows (`ad/users.py:993`), inherited or not. A
  list with an inherited deny and no explicit allow gets them behind that deny, which is no longer the order explicit
  before inherited (`Rewritten`'s premise).
- An item whose action returns to Create keeps the icon of the action it had, because the
  computed index 0 counts as unknown (`gpo/preferences/store.py:400`).
- A preference file that is not XML reads as one without foreign elements
  (`gpo/preferences/xmlfile.py:106`), so a save is not asked to confirm and replaces it.

## 6. Proofs

`tlapm <module>` checks each proof module. Every theorem is for all values of the constants within the named
assumptions of its module, and within the hypotheses it states itself. The assumptions say what the constants are and,
where a directory is given at the start, that it is one the program can meet:

| Module | Assumption |
|---|---|
| `Sessions`, `GpoEdit` | `ConstantsAssumption`: types; `MaxSaves < Word` |
| `GpoLinks` | `GivenAssumption`: no other tool has linked a policy twice to one container; `ParentAssumption`: the containers are a tree |
| `Tree` | `TreeConstants`: of every name its parents exist; `PlantedLists`: access lists are found as the code keeps them, denies first and nothing twice |
| `Sites` | `SiteConstants`; `LaidSound`: the sites found have different numbers, servers are in a site's container, references lead to sites that are there |
| `Zones` | `ZoneConstants`: types; a datum's normal form is its own; `ZonedSound`: the zones found hold records, no name without one |
| `SignIn` | `SignInConstants`: types, the limits are positive, there are finitely many attempts |
| `GpoLife` | `LifeConstants`, `LifeStart`: the folders found at the start have their objects and derived permissions |
| `Manifests` | `ManifestConstants`: that a file is missing is not one of its contents |
| `Preferences` | `PreferenceConstants`: types; `PreferenceFiles`: the files found, and those the Windows console writes, are preference files: items of the half's kinds with the parts the reader knows (`FileItem`), no identifier twice |
| `Groups` | `GroupConstants`: types; there are finitely many objects, the place of the sign bit leaves room for the scope bits; `FormedSound`: every group found has a scope, no group lists a member twice |
| `Accounts` | `AccountConstants`, `AskedAccounts`, `AccountsGiven`: types; no account found has both options, or its primary group among its groups |

### CollectionsProofs

What the other modules need of sequences of any length. `Those`, the entries of a sequence
that are in a set, is a recursive function; `ThoseFiltered` and `ThoseConcat` say what it computes, by an
induction over the length that uses only that every non-empty set of numbers has a least element (`NatInd`).
`RemoveAtIs` and `InsertAtIs` are the list operations of the community modules.

### SessionsProofs

`Invariant == Spec => []IInv`, and from it `TypeCorrect`, `SessionServedHolds`,
`OneThreadHolds`, `WrittenOnceHolds`; `NeverRevivedHolds` is the action property. No
assumption about what lapses, fails or stops waiting, so they cover also the
configurations in which other properties fail.

`SessionServed` is not inductive: that a session enters the store with its ticket
needs to know that the answer `ok` of the ticket request can come only from a call
on the thread the registry still names. `IInv` adds, each for one actor:

- `LoginInv`: a sign-in has one thread and at most the one call on it that it waits for;
- `JobInv`: a ticket request is queued only while awaited or after its sign-in failed,
  so it cannot overwrite the cache of a stored session;
- `StoredInv`: a stored session is not being dropped, and its only thread is registered and open;
- `DropInv`: whoever drops a session has already taken it out of the store;
- `CookieInv`, `OwnerInv`: a request's id was signed in, and the worker it holds was made for that id;
- `ClosingInv`: after the lifespan has ended every session left is on `close_all`'s list;
- `WriteInv`: a modification is queued at most once and not after it was applied.

`NoStrayTicketHolds` assumes that every ticket request is waited for (`"kinit" \notin Slow`);
without that finding 1 refutes it. `TicketsInv` adds that a queued request's sign-in is at that
step (`AwaitedInv`), so a cache is only written while a sign-in, a stored session or a drop
holds it (`TicketInv`).

`NothingLeftBehindHolds` (the tickets, the connections and the end of the program together) assumes in
addition that no session lapses, which section 5 shows to be needed. `HandlesInv` is the reason that no
connection stays open: the last call in a closing worker's queue is its cleanup (`LastInv`), because nobody is between
the check of a worker and the submission to it while a session is dropped (`LoopInv`), and
an open connection belongs to a closed worker or to its session's registered one (`ClosedInv`, `GoingInv`, `HandleInv`).

The proof has one lemma per action.

### GpoEditProofs

All of `GpoEdit`'s safety properties. `TypeCorrect` has no restriction. The others assume `Overlapping = FALSE`; finding 2 and
section 5 show why. They cover every kind of failure, except `EditorSawItHolds`, which also assumes `Failing = {}` (finding 3: a failed save has changed the file and not the number).

- `EditorSawItHolds`. What has to be shown is that equal version numbers mean equal content although both words wrap.
  `AgeInv` counts how often either word has been advanced since `FirstVersion`: at most
  once per save, and a save that has changed its file but not the number owes one, so
  with `MaxSaves < Word` a number never comes back. `SeenInv` says that a window
  whose version is still current shows the current content, unless a save is between
  its file and its version; `CheckedInv` carries the check through the save.
- `HalvesAgreeHolds`. `CopyInv` says that the number on its way to GPT.INI is the directory's. `BumpedWords` is the
  arithmetic of the two words: advancing one half counts modulo `Word` and leaves the other half alone.
- `RegistrationFollowsHolds`. An extension may belong to two files (the two script lists), so the property of one
  file depends on the last save of another. `ListedInv` says that when all files of an extension are finished
  the list has it as they need it; `OwedInv` and `DiffInv` say that a save past its file owes
  exactly the change that makes it so, and is about to write it.
- `OnlyItsOwnHolds` from the same invariant, since the list a save writes differs from the stored one by what it owes.
- `InUseKeptHolds` has one more hypothesis: no reconciling, or no file of kind `"other"`. What reconciling removes is what
  is registered and not wanted (`gpo/report.py:267`), and wanted knows only content the report understands; its
  comment (`report.py:244`) says that there is nothing behind a surplus. Section 5 has the counterexample.
- `ChangedIsFetchedHolds`. `FetchInv` counts for one half at a time (`HalfAge`): a client's word is
  never ahead of the directory's (`CountedInv`), and a change that was answered is fetched already or its
  client's word is behind (`DueInv`). Equal words then mean that nothing is due, because a count below `Word` never wraps onto itself.

### PolicyProofs: links and inheritance

`TypeCorrect`, `OneLinkEachHolds`, `MovesLandHolds`, each for any number of sessions,
operations that overlap included, and lists of any length. The invariant `ListInv` says that a list
about to be written has no policy twice whatever the attribute holds by then,
and `PlaceInv` that the moved link is at its place in it. They rest on lemmas about the list
operations (`RemoveAtIs`, `InsertAtIs`, `ReverseOnce`, `RemoveOnce`, `InsertOnce`, `PositionOf`, `ChangedOnce`).

`ImplementsOrderHolds` is the refinement: with `Overlapping = FALSE`, `Spec` implements `LinkOrder` under the mapping of
`Promise`. The initial states correspond, and each step is one step of the order or none: `Begin` and `Read` change nothing
it can see, a `Write` is the one change the request asked for. That is the invariant `AloneInv`:
operations are about different containers (`ApartInv`), so the list about to be written is the change of
what the attribute still holds (`FreshInv`), the policy linked still exists (`TargetInv`), and a policy about to be deleted
was given no link after the search (`UnlinkedInv`). `ParseFormat` says that storing a list and reading it, each of
which reverses it, gives the list back. With operations that overlap the refinement fails (section 5).

`InheritanceHoldsAlways` needs no invariant but the types: it is about what `Applied` computes of any path, blocks and
lists. `PathSound` follows a container up to the root, `FlattenIs` is the concatenation of the lists on that way, both by
`NatInd`; their items lie in the order of depths (`ItemsSound`), filtering keeps that (`FilterByDepth`), and `AppliedHalves` has the
enforced ones behind the others.

### SignInProofs

`LimitsKeptHolds`, `KdcsNamedHolds`, `FreshIdentityHolds`, `FallsOverHolds`: all of `SignIn`'s properties, for any number of sign-ins at once, servers and
limits, from one invariant, `SignInInv`:

- `CountInv`: the failures counted are at most the sign-ins there were, and those under way are counted in what may still come.
- `TriedInv`, for `AtMostAttempts`: a sign-in that passed the throttle is one that may still present a wrong password; doing
  it moves the sign-in from these to the history. So the passwords a KDC has seen within a lockout never exceed the limit and the sign-ins in flight.
- `RateInv`, for `RateKept`: the limiter's list is the newest part of what it let through, so looking at
  the list is looking at the history.
- `RealmsInv`: `krb5.conf` says what is in memory, and a realm's list only grows; so what a sign-in registered is
  still there when it asks for its ticket, whoever wrote the file in between.
- `CacheInv`: an identity in the cache expires when its time is over, so `FreshIdentity` holds whatever time passes.
- `LeftInv`: a controller and transport that is not left to try is one that may have failed.

### AccountsProofs

`MustOrCannotHolds`, `DoneAsAnsweredHolds` and `AccountsTyped`, for any access lists, groups and any administrator's membership,
with sessions that keep to different accounts (`AOverlapping = FALSE`, see section 5).

What is left of an operation's plan says where it is (`OnWay`), and `Phase` what its account looks like
there: untouched (`Opening`), made but not finished (`Making`), being given its groups (`Grouping`), done and to be reported (`Reported`), or found to be what the
handler's checks let pass (`Serving`, `Granted`). `Steps` says what one step may make of the operation and the
account; there is one lemma for each request, and `AInv` is `Phase` for every operation under way.
`AsFound` is the hardest part: it needs that a creation which is refused or fails after its first
request and before its options are set ends in its rollback, and that the account the rollback finds is the one it made, still disabled.
Any number of requests may be lost, the rollback's too; what then may stay is `MayLeave` (section 5).

`Rewritten` says something about access lists of any length; it rests on what `Those` computes (`CollectionsProofs`).
`WithCannotIs` and `InsertedOrder` are what the option does to a list: two entries of its own ahead of the first that allows,
all others kept in their order.

### AccountsProofs: groups

`WalkShowsHolds` and `MembershipsHoldHolds`, for any directory, nesting (cycles included), `MaxDepth`, number of sessions
and failures; `GroupsTyped` from the same invariant, `GInv` (`GInvAlways`). `GInv` says that the directory is formed
(`EntriesSound`), and of each operation under way

- `Doing`: what is left of its plan is a way of the handler that made it (`Way`; `After` is which request may follow which), so that the
  kind of the next request says what has been asked so far;
- `Alone`: an operation nobody crossed is the only one there is, and what it has learnt (`Learnt`) is what the directory still says.

Neither property is inductive without `Learnt`: the scopes `scope_change_problem` is given, and the members taken for
missing or present, come from earlier requests.

For the walks `Learnt` has what a traversal keeps (`Walk`, `Downs`, `Ups`): what was seen is reachable and seen once; of what was
seen, everything one step further is seen or on the stack, unless the guard has stopped it there. When the stack
is empty the objects seen are closed under the step. `Beyond`, the property's own notion of what is reachable, is a recursive
function that grows a set as often as there are objects; `BeyondIs` and the lemmas after it show by `NatInd` that it then
has stopped growing and is the smallest closed set that contains the roots, so both inclusions follow.
Downwards an object's depth is at most the number of objects seen before it, so the guard stops nothing while no more than
`MaxDepth` were seen. Upwards the guard counts the objects taken off the stack; each of these, and each still on it, is a root or
stands for a membership of an object seen (`Edges`), which bounds them by `MembershipsMet`.

The bits of `groupType` are arithmetic with `TopBit` left open: adding the sign, scope and system bits and reading
each of them back (`GroupTypeValue`, `GroupScope`, `IsSecurity`).

### DirectoryProofs: names and access lists

`GuardKeptHolds`: the write guard holds for any directory, any configured units, requests,
sessions and failures. `DirectoryConnection` checks names only, before each call; that this is enough
rests on the directory being a tree, and that is the invariant: `TInv` says that with every
name all its parents exist (`Rooted`) and that operations are about names. It is needed twice. A
deletion that is not recursive does not look for configured units below; but one below would mean
a child, and the controller refuses a unit with children (`DeleteStep`). And no rename can put a subtree
above a configured unit, since the new name would be one of that unit's parents and exist already
(`RenameStep`). What the names of a moved subtree look like is in `BelowIs` and `BelowBegins`,
what beginnings of names are to each other in `PrefixIs`, `PrefixesMeet` and `PrefixOrder`.

`AclSoundHolds` and `DoneAsShownHolds`, also for any number of sessions and lists of any length. `ListsInv` joins to `TInv` that every list in
the directory is `Sound` (in order, nothing said twice) and what each operation under way knows (`Stage`): a change of
the sheet's list has compared it with the stored one (`Changing`), a delegation reads before each of its writes
(`Paired`), a deletion has read a list without protection (`Deleting`). The rest is about one operation on
lists: `ChangeAcl` is a recursive function over the entries to add, `ChangeAclIs` what it computes, and `Built` says after
n of them that the list is sound and has the kept entries in their order (`Selects`) and of the others only those asked for.

### DirectoryProofs: sites

`ReferencesHoldHolds`, for any partition that can be found and any interleaving. `SInv` is the topology's
consistency (`TopoSound`: `Numbered`, `Contained`, `Referred`), shown for each of the eleven changes, and what a deletion nobody crosses has
learnt so far (`Crossed`, `Emptied`): its site has no servers once these were asked for, and no subnets. A server
can only be in a site that has its container, which is why an empty answer to "servers of this site" settles
the question even where the container is missing. `TopologySound` states it for a reader.

### DirectoryProofs: zones

`RecordsChangedHolds`, for any zones, records and interleaving. `EditedIs` is the half about one write: what `Edited` makes of
the records read differs from them in one place and still has the same first SOA, also where a removal moves
that SOA forward (`RemovedChange`). `ZInv` is the half about the serial: `ZoneKnown` says of a change
nobody crossed that the zone's serial is the one found until it has advanced it and one more afterwards, that the SOA it
writes back is the one there is, and that the record it is about is still there when it reads again. The last is why a refusal at the second
read, after the serial has moved, needs another session. `ZonesTyped` covers also the crossed ones: `Finds` at the write
is enough for no name to be left without a record.

### GpoLifeProofs

`FoldersOwnedHolds`: no folder without its policy, and in every folder the policy's own permissions, for any number of policies,
sessions, backups and files; excepted are the folders a save made again while another session deleted the policy (`MadeAgain`, section 5).
Its hypotheses are the configuration's: one call fails at most and plainly
(`Faults \subseteq {"call"}`, `MaxFaults \in {0, 1}`), and nobody meddles with a policy that is still being made. The first two are needed:
section 5 has what happens when a rollback fails too, or an answer is lost.

`LifeInv` says of every operation what is in the directory and in the folder at its place in the plan
(`ShapesInv`; the rollbacks are plans too, and in one of them no further call can fail), that a policy in the making is its
maker's alone (`AloneInv`), that each folder has its object even while operations are under way or was made again (`OwnedInv`, stronger
than the property), and that the permissions are the same throughout a folder and the share's own only
before they are stamped, while the folder is removed, or in a folder that was made again and that no maker is at (`FoldersInv`, `Unmade`). A
deletion whose folder comes back between its two calls removes the object all the same: `OtherShape` speaks of the folder as it was (`Original`).

### PolicyProofs: manifests

`ListAndFilesAgreeHolds`: every file a saved manifest names is there with the digest stated, and no save removes one that is
named, for any sessions, files and lists, when any call may fail. The property speaks of saves nobody crossed, and not of files the list
before named by another text (`respelt`; section 5); `UncrossedInv` says that what such a
save has checked and taken digests of is still so at each later step (`Faithful`).

### PolicyProofs: preferences

`PreferencesKeptHolds` and `PrefsTyped`, for any preference files, condition lists and order of windows, saves and the
Windows console. `PrefsInv` says that the file is a list of distinct items with identifiers and stamps below `next`, and that a form
read at the current version holds the file's items. What one save makes of them is computed item by
item: `DraftsAre` and `AskedIs` are the list the form sends, `PreviousOld` and `PreviousNew` which item of the file each meets, `ItemOld` and `ItemNew` what
is then written for an item that was there and for a new one, and `SavedList` the list as a whole. `PropertiesOld` and `PropertiesNew` go through the
catalogue's kinds; `ResolveIs` and `RenderIs` follow conditions from the form to the file, and `StampFollows` has when a stamp moves.

### Only model-checked

- Liveness (`LapsedTicketRemoved`, `HandlersEnd`, `ClientsCatchUp`) is out of the prover's reach.
- `MadeAsAsked` of `GpoLife`, `SavedExactly` of `Templates`, and the parts of `ObjectsTypeOK` that are
  of neither `Accounts`, `Tree`, `Groups`, `Zones` nor `Preferences`. Several fold over sequences in forms of the community modules, whose recursion
  the prover does not see; the way of `Those` (a recursive function of one's own and `NatInd`) is open to them.

## 7. Abstractions

- Sessions: times are the three states of `clock`; the keys, the CSRF token and the principal
  play no part. What comes before the ticket is one branch of `Resolved`; `SignIn` has the detail.
- GpoEdit: file formats, ADMX resolution and encodings are left out; a file is
  the set of settings it makes. Every client sends `expected_version`. `Count` and `Survey` read several files in one step.
- GpoLinks: `Applied` reads the containers of a path at one moment. Failing
  calls other than the searches for links leave everything as it was and are not
  actions. The files of a deleted policy are in `GpoLife`.
- `Overlapping = FALSE` stands for the windows of one session, which share a worker
  thread, or for sessions that do not save at the same moment. Within `GpoEdit` a
  request is one call of the worker, so saves of one session cannot interleave.
- SignIn: a clock that counts; DNS answers as a set of records, ordered by priority and then in any
  order their weights allow. The probe, the bind and the KDC answer as `Identity` and `Bind` allow at that moment.
  The console's own disk does not fail: `krb5.conf` is written whenever memory changes (section 5).
- Accounts: an access list keeps the entries "cannot change password" is about and stands-ins for others; attributes
  without influence on the rest are one. `AOverlapping = FALSE` keeps two sessions from one account at the same
  time; with `TRUE` they meet, see section 5. The domain controller computes an account's token from `Token`. A request
  that is lost (`Lost`) was not carried out. One that was carried out and not answered is not an action: an account whose addition
  is not answered stays, because `conn.add` (`ad/users.py:349`) is ahead of what the rollback covers.
- Tree: escaping of names is left out, names are compared as the normal form the code makes of them. Searches
  for children and the deletion of a subtree are one call to the domain controller, as in the code.
- Groups: the signed `groupType` has `TopBit` in place of 2^31. A failing read within a walk ends the request.
- Zones: record types other than A, NS and SOA behave as A does. TTLs, timestamps and the
  encoding of names are left out; a datum has a normal form and spellings.
- Sites: addresses have `Width` bits. Costs and intervals keep their real limits.
- GpoLife: a policy's two version words are one number, since creating, copying and restoring write both at
  once. A file's content is a number; permissions are the share's or the ones derived from the object.
- Templates: registry data are numbers, compared with the type they are stored as. The text of ADMX files is the
  constant `Shape`, a definition as the parser builds it. An expandable text is a text; a text's number stands for its length too.
- Preferences: a kind has the properties that show each rule of the catalogue; encodings and the
  rendering of XML are left out, what is carried through unread is one attribute. Times count saves.
- Manifests: a digest is the content it was taken from. A manifest is written whole or not at all, and names that are no plain file names, which
  are refused before anything is written, are not asked for.

## 8. Not modelled, and the plan

`PROJECT.json` lists every component with the reason. What a model could add, in this order:

1. The **frontend**'s draft sheets and windows: answers that arrive after another object was opened.
2. **Settings in the directory** (application settings, password policy, certificates, WMI filter): one read,
   one check, one write each; what can go wrong is the compare-then-write of `GpoEdit` again.
3. **SYSVOL referrals** and the three-step write as the detailed specification of the file steps of
   `GpoEdit` and `GpoLife`.

Not worth a model: the audit log, reports, diagnostics and the HTTP layer, which keep no state or
only write lines, and the text of the file formats, which round-trip tests serve better.

Theorems left, the most valuable first: `MadeAsAsked` on top of `LifeInv`, and `SavedExactly` in the way of `Those`.
