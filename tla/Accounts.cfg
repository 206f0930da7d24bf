SPECIFICATION Spec
CONSTANTS
  c1 = c1
  c2 = c2
  ann = ann
  bob = bob
  Clients = {c1, c2}
  Users = {ann, bob}
  Founder = ann
  MaxKeys = 2
  MaxOrgs = 2
  MaxTeams = 1
SYMMETRY Symmetry
INVARIANTS
  TypeOK
  KeyOwnersAreMembers
  TeamUsersAreMembers
  RotationKeepsIdentity
  RetiredStaysRevoked
  OrganizationsAreManaged
PROPERTY OnlyAdminsChange
