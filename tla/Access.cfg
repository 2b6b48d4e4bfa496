SPECIFICATION FairSpec
CONSTANTS
  r1 = r1
  r2 = r2
  r3 = r3
  root = root
  ann = ann
  bob = bob
  eve = eve
  kr = kr
  ka = ka
  kb = kb
  e1 = e1
  e2 = e2
  site = site
  sub = sub
  other = other
  Absent = Absent
  Requests = {r1, r2, r3}
  Users = {root, ann, bob, eve}
  Keys = {kr, ka, kb}
  Engagements = {e1, e2}
  Targets = {site, sub, other}
  Subdomains <- Covered
  Plans <- Asked
  SwitchDefault = FALSE
  RoleMap <- Meaning
  TTL = 1
  MaxGen = 2
  MaxFailed = 1
INVARIANTS
  TypeOK
  OnlyTheFitAreServed
  OnlyTheUnfitAreRefused
PROPERTIES
  RequestsEnd
CHECK_DEADLOCK FALSE
