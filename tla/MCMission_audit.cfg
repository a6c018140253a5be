\* A mission whose approval lapses before its deadline.
SPECIFICATION Spec
CONSTANTS
  alice = alice
  bob = bob
  carol = carol
  Absent = Absent
  None = None
  Capabilities <- MCCapabilities
  Contract <- MCContract
  People <- MCPeople
  Reviewers = {bob}
  Admins = {carol}
  NRuns = 1
  MaxSteps = 1
  Mission <- WriteMission
  Values = {"yes"}
  Tokens = {1, 2, 3}
  Workers = {w1}
  ClaimLimit = 1
  Revocable = {}
  MaxActive = 1
  MaxVersion = 0
INVARIANTS
  AuditExplainsStatus
