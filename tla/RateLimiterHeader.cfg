SPECIFICATION Spec
CONSTANTS
  k1 = k1
  k2 = k2
  k3 = k3
  acme = acme
  zeta = zeta
  ann = ann
  bob = bob
  NoOrg = NoOrg
  OrgIds = {acme, zeta}
  Gateways = {g1}
  Keys <- MCKeys
  OrgOf <- MCOrgOf
  OwnerOf <- MCOwnerOf
  Limit = 2
  Window = 3
  Second = 2
  MaxTime = 7
  MaxPause = 5
  MaxRequests = 5
INVARIANT QuotaSpentByItsOwn
