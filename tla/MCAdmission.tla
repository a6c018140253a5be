---------------------------- MODULE MCAdmission ----------------------------
(* Instances of Admission for TLC.                                           *)
EXTENDS Admission, TLC

CONSTANTS r1, r2, u2

(* The submitter owns one rule, another member the other.                    *)
RuleOwners == [r \in {r1, r2} |-> IF r = r1 THEN Submitter ELSE u2]

(* The group's first mission may be held and made active again.             *)
GroupEffects == {GroupKey(g, 1) : g \in Groups}

(* A request may come over either connection, with either content.           *)
AdmissionSymmetry == Permutations(Clients) \union Permutations(Contents)
=============================================================================
