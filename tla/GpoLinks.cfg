CONSTANTS
  A = A
  B = B
  dom = dom
  ou = ou
  sub = sub
  site = site
  Admin = {a1, a2}
  Policy = {A, B}
  Container = {dom, ou, sub, site}
  None = None
  Parent <- Above
  Site = {site}
  Given <- SomeLinks
  Asked <- SomeOps
  Failing = {"search"}
  Overlapping = FALSE
  MaxOps = 3
SPECIFICATION Spec
INVARIANTS TypeOK OneLinkEach InheritanceHolds
PROPERTIES ImplementsOrder MovesLand
CHECK_DEADLOCK FALSE
