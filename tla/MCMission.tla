----------------------------- MODULE MCMission -----------------------------
(* Instances of MissionRuntime for TLC: small catalogs, plans and limits    *)
(* that the .cfg files assign to the constants.                             *)
EXTENDS MissionRuntime, TLC

CONSTANTS alice, bob, carol   \* owner, reviewer, administrator

MCPeople == {alice, bob, carol}

MCCapabilities == {"read", "write"}
MCContract ==
  [c \in MCCapabilities |->
    IF c = "read" THEN [effect |-> "read", approval |-> FALSE, max_attempts |-> 2, cost |-> 1]
    ELSE [effect |-> "write", approval |-> TRUE, max_attempts |-> 2, cost |-> 2]]

Always    == [op |-> "always", step |-> 0, value |-> Absent]
Exists(i) == [op |-> "exists", step |-> i, value |-> Absent]
Eq(i, v)  == [op |-> "eq", step |-> i, value |-> v]

Plain(c) == [capability |-> c, when |-> Always, binds |-> {}]

Owned(steps, max_tool_calls, budget) ==
  [owner |-> alice, steps |-> steps, max_tool_calls |-> max_tool_calls, budget |-> budget]

(* One approved effect.                                                     *)
WriteMission == [r \in {1} |-> Owned(<<Plain("write")>>, 2, 2)]

(* A read, then an approved effect on what it returned if it says yes, then *)
(* a read if the effect returned anything.  The limits allow three calls:   *)
(* a mission whose read was tried again is stopped before its last one.     *)
EffectMission ==
  [r \in {1} |-> Owned(
     << Plain("read"),
        [capability |-> "write", when |-> Eq(1, "yes"), binds |-> {1}],
        [capability |-> "read", when |-> Exists(2), binds |-> {1}] >>, 3, 5)]

(* A read that needs approval and may be attempted twice.                   *)
LookCapabilities == {"look"}
LookContract ==
  [c \in LookCapabilities |-> [effect |-> "read", approval |-> TRUE, max_attempts |-> 2, cost |-> 1]]
LookMission == [r \in {1} |-> Owned(<<Plain("look")>>, 2, 2)]

(* A read that may be attempted twice.                                      *)
ReadMission == [r \in {1} |-> Owned(<<Plain("read")>>, 2, 2)]

WorkerSymmetry == Permutations(Workers)
=============================================================================
