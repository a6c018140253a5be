\* Two workers on one mission: a read, an approved effect that depends on it, a read.
SPECIFICATION Spec
CONSTANTS
  alice = alice
  bob = bob
  carol = carol
  Absent = Absent
  None = None
  Capabilities <- MCCapabilities
  Contract <- MCContract
  People <- MCPeople
  Reviewers = {bob}
  Admins = {carol}
  NRuns = 1
  MaxSteps = 3
  Mission <- EffectMission
  Values = {"yes", "no"}
  Tokens = {1, 2, 3, 4, 5}
  Workers = {w1, w2}
  ClaimLimit = 1
  Revocable = {}
  MaxActive = 1
  MaxVersion = 0
SYMMETRY WorkerSymmetry
INVARIANTS
  TypeOK
  EffectAtMostOnce
  PendingIffWaiting
  WithinLimits
  UncertainEffectHeld
  LeaseIffRunning
  CursorFollowsOutputs
  OutputsHaveCauses
  CallsWereApproved
PROPERTIES
  KeepsPromise
  CancellationHolds
  LeaseHeldAlone
