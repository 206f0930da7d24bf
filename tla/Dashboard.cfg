SPECIFICATION Spec
CONSTANTS
  OrgIds = {1, 2, 3}
  FirstOrgs = {1, 2}
  NameOf <- MCNameOf
  TeamIds = {1}
  MaxOps = 4
  RowIds = {1, 2, 3}
  FirstRows = {1, 2}
  Texts = {"a", "b"}
  MaxActs = 4
  Messages = {1, 2, 3, 4}
  Foreign = {2}
  BatchSize = 2
INVARIANTS
  TypeOK
  WritesHitTheirOrg
  SelectionIsListed
  TeamsAreOfSelection
  ListIsCurrent
  KeysShowConfirmed
  ExportIsFaithful
  StatisticsAddUp
CHECK_DEADLOCK FALSE
