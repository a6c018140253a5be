\* One connection and a quota of one: a group's first mission is held, another comes in, and the first is queued again.
SPECIFICATION Spec
CONSTANTS
  Clients = {p1}
  Users = {u1, u2}
  Submitter = u1
  Keys = {k1}
  Groups = {g1}
  Events = {}
  RuleOwner <- RuleOwners
  Contents = {c1}
  Assigned = 1
  Effects <- GroupEffects
  MaxActive = 1
  Nobody = Nobody
  r1 = r1
  r2 = r2
  u2 = u2
INVARIANT
  AtMostMaxActive
