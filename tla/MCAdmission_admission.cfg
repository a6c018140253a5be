\* Two connections, a group of two, a mission under a key of the group, an event with two rules; a quota of two.
SPECIFICATION Spec
CONSTANTS
  Clients = {p1, p2}
  Users = {u1, u2}
  Submitter = u1
  Keys = {}
  Groups = {g1}
  Events = {e1}
  RuleOwner <- RuleOwners
  Contents = {c1, c2}
  Assigned = 2
  Effects <- GroupEffects
  MaxActive = 2
  Nobody = Nobody
  r1 = r1
  r2 = r2
  u2 = u2
SYMMETRY AdmissionSymmetry
INVARIANTS
  TypeOK
  LostRaceIsAnswered
  KeyMeansContent
  GroupAtomic
  EventOnce

  
