\* Liveness: two workers on a read that needs approval, with a reviewer whose membership and
\* a contract that change.
SPECIFICATION FairSpec
CONSTANTS
  alice = alice
  bob = bob
  carol = carol
  Absent = Absent
  None = None
  Capabilities <- LookCapabilities
  Contract <- LookContract
  People <- MCPeople
  Reviewers = {bob}
  Admins = {carol}
  NRuns = 1
  MaxSteps = 1
  Mission <- LookMission
  Values = {"yes"}
  Tokens = {1, 2, 3, 4}
  Workers = {w1, w2}
  ClaimLimit = 1
  Revocable = {bob}
  MaxActive = 1
  MaxVersion = 1
PROPERTIES
  EventuallySettles
