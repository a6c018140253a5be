----------------------------- MODULE MCIdentity -----------------------------
(* Two administrators of a workspace, a user to come and a workspace to     *)
(* come.                                                                    *)
EXTENDS Identity, TLC

Having(role, grants, enabled) == [role |-> role, grants |-> grants, enabled |-> enabled]

MCMembers ==
  [p \in {"red", "new"} \X {"ann", "ben", "cid"} |->
     IF p = <<"red", "ann">> THEN Having("admin", {"platform"}, TRUE)
     ELSE IF p = <<"red", "ben">> THEN Having("admin", {}, TRUE)
     ELSE None]

MCInputs == {Having("viewer", {}, TRUE), Having("admin", {"tool"}, FALSE)}

MCAccounts == {<<"red", "ben">>}
MCTargets == {<<"red", "ben">>, <<"red", "cid">>, <<"new", "ben">>}
MCCallers == {<<"red", "ann">>}

ThreadSymmetry == Permutations(Threads)
=============================================================================
