SPECIFICATION ObjectsSpec
CONSTANTS
  template = template
  member = member
  fresh = fresh
  users = users
  sales = sales
  desk = desk
  admins = admins
  AAdmin = {a1, a2}
  Username = {template, member, fresh}
  GroupName = {users, sales, desk, admins}
  Administrator = None
  DomainUsers = users
  AdminGroup = {admins}
  Token <- Nesting
  Absent = Absent
  Existing <- GivenAccounts
  AAsked <- AccountRequests
  AFailing = {"call"}
  AOverlapping = FALSE
  MaxAccountOps = 2
  TAdmin = {a1, a2}
  Guarded <- Vip
  Planted <- GivenTree
  TAsked <- TreeRequests
  TFailing = {"call"}
  MaxTreeOps = 2
  MAdmin = {a1, a2}
  Group = {"g1", "g2", "g3", "g4", "g5", "g6"}
  Person = {"u1", "u2"}
  Sam <- Sams
  Formed <- GivenGroups
  MAsked <- GroupRequests
  MFailing = {}
  MaxDepth = 2
  TopBit = 16
  MaxGroupOps = 2
  ZAdmin = {a1, a2}
  Zone = {"lan", "sys", "new"}
  SystemZone = {"sys"}
  Node = {"www"}
  Datum = {"ip1", "ip2"}
  Spelling <- Spelled
  Zoned <- GivenZones
  ZAsked <- ZRequests
  ZFailing = {"call"}
  MaxSerial = 2
  MaxZoneOps = 2
  SAdmin = {a1, a2}
  SiteDn = {"A", "B", "b", "C", "d d"}
  SiteName <- SiteSpelled
  Valid = {"a", "b", "c"}
  Server = {"dc1"}
  Subnet = {"n1", "n2", "n3"}
  SiteLink = {"l1", "l2"}
  Prefix <- Networks
  Width = 3
  Suffix = {"X.de", "x.de", "y.de"}
  Folded <- Lower
  Domains = {"ex.lan"}
  Laid <- LaidOut
  SAsked <- SiteRequests
  SFailing = {"call"}
  MaxSiteOps = 2
  MaxIds = 3
  LAdmin = {a1, a2}
  Guid = {"p1", "p2", "p3"}
  LName = {"one", "two"}
  Gpos <- GivenPolicies
  Folders <- GivenFolders
  Archives <- GivenBackups
  LAsked <- LifeRequests
  Faults = {"call"}
  MaxFaults = 1
  Meddling = FALSE
  MaxLevels = 2
  MaxFiles = 3
  MaxLifeOps = 2
  Shape <- Shapes
  Fold <- Folds
  FoundFile <- FoundPol
  Wishes <- MostWishes
  MaxWishes = 3
  Starts <- SomeStarts
  Foreign <- SomeForeign
  Typed <- SomeTyped
  Lists <- SomeLists
  InnerLists <- SomeInner
  Directory <- SomeDirectory
  MaxVersion = 3
  Writer = {a1, a2}
  VgpPolicies = {"startup", "files", "motd"}
  FileNames = {"a", "b"}
  Contents = {"x", "y"}
  EntryLists <- SomeEntryLists
  MaxManifests = 3
  MaxUploads = 2
SYMMETRY SessionsAlike
INVARIANTS
  ObjectsTypeOK
  MustOrCannot AclSound WalkShows FoldersOwned SavedExactly
PROPERTIES
  DoneAsAnswered GuardKept DoneAsShown MembershipsHold RecordsChanged ReferencesHold
  MadeAsAsked PreferencesKept ListAndFilesAgree
CHECK_DEADLOCK FALSE
