SPECIFICATION Spec
CONSTANTS
  a = a
  b = b
  u = u
  acme = acme
  NoOrg = NoOrg
  Clients <- MCClients
  Orgs = {acme}
  OrgOf <- MCOrgOf
  Overrides = {"true"}
  MaxMessages = 2
  MaxRequests = 2
SYMMETRY Symmetry
INVARIANTS
  TypeOK
  RowsFollowTheirOrg
  ReplayStaysInTenant
  AnswersStayInTenant
  ConfirmedIsKept
