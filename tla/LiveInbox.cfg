SPECIFICATION FairSpec
CONSTANTS
  t1 = t1
  acme = acme
  Servers = {s1, s2}
  Tabs <- MCTabs
  Orgs = {acme}
  OrgOf <- MCOrgOf
  MaxMessages = 2
  MaxConnects = 2
  MaxFaults = 2
INVARIANTS
  TypeOK
  SettledIsCurrent
  LeftIsSilent
PROPERTIES
  ShownNeverGoesBack
  BroadcastIsShown
CHECK_DEADLOCK FALSE
