\* Outbox: two workers, an interrupted round and a malformed entry.  Adapter:
\* three callers of one key, two with the same content, two attempts each.
\* Legacy runtime: nested calls, restarts under other contracts, reviews and
\* cancellations of two runs.
SPECIFICATION JournalsSpec
CONSTANTS
  Workers = {w1, w2}
  NEvents = 1
  Batch = 2
  MaxForeign = 1
  MaxFaults = 1
  Callers = {read, copy, other}
  Keys = {k1}
  KeyOf <- OneKey
  Content <- TwoContents
  Effectful = {other}
  Outputs = {o1, o2}
  NoOutput = NoOutput
  MaxAttempts = 2
  read = read
  copy = copy
  other = other
  k1 = k1
  content1 = content1
  content2 = content2
  alice = alice
  bob = bob
  None = None
  Runs = {1, 2}
  MaxSteps = 2
  Capabilities = {"read", "write"}
  Offers <- MCOffers
  Submission <- MCSubmission
  People <- MCPeople
  Values = {"a", "b"}
INVARIANTS
  OutboxTypeOK
  KeptUntilReceipted
  AcknowledgedIsRecorded
  HandlerOnce
  DoneIsExecuted
PROPERTIES
  UncertaintyStays
  DeliveryLiveness
  KeepsPromise
