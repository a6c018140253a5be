\* Three requests or commands at a time, of two administrators and the local operator.
SPECIFICATION Spec
CONSTANTS
  Users = {"ann", "ben", "cid"}
  Workspaces = {"red", "new"}
  Roles = {"admin", "viewer"}
  Grants = {"tool", "platform"}
  Platform = "platform"
  Tools = {"tool"}
  Members <- MCMembers
  Inputs <- MCInputs
  Accounts <- MCAccounts
  Targets <- MCTargets
  Callers <- MCCallers
  Limit = 1
  Threads = {t1, t2, t3}
  MaxRequests = 3
  None = None
SYMMETRY ThreadSymmetry
CHECK_DEADLOCK FALSE
INVARIANTS
  TypeOK
  AdminsRemain
  GuessesBounded
PROPERTIES
  AccessRisesKnowingly
