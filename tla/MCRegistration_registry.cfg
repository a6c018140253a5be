\* Three requests or restarts on two threads, and a worker that ticks.
SPECIFICATION FairSpec
CONSTANTS
  t1 = t1
  t2 = t2
  w1 = w1
  api = api
  Workers = {w1}
  Handlers = {t1, t2}
  Processes = {api, w1}
  ProcessOf <- MCProcessOf
  Workspaces = {"red", "blue"}
  Anyone = Anyone
  Names = {"fixed", "free"}
  Versions = {1, 2}
  Contents = {"read", "write", "off"}
  Disabled = "off"
  Base <- MCBase
  Registered <- MCRegistered
  Offers <- MCOffers
  MaxRequests = 3
  None = None
INVARIANTS
  TypeOK
  NamesHaveOneHome
PROPERTIES
  WorkersCatchUp
