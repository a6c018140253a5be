--------------------------- MODULE MissionService ---------------------------
(***************************************************************************)
(* The API service's operations on missions: submit, cancel, review and    *)
(* reconcile, and the administration that missions depend on.  A request   *)
(* is one transaction.  review() reads the approval and the mission before *)
(* its two conditional updates, so it is two steps: what it read may have  *)
(* changed between them.                                                   *)
(***************************************************************************)
EXTENDS MissionStore

CONSTANTS
  Reviewers,   \* humans with the role admin or reviewer
  Admins,      \* humans with the role admin
  Revocable,   \* whose membership an administrator changes
  MaxActive,   \* active missions a workspace may have (100 in the code)
  MaxVersion   \* bound on contract versions

ASSUME ServiceAssumption ==
  /\ Reviewers \subseteq People /\ Admins \subseteq People /\ Revocable \subseteq People
  /\ MaxActive \in Nat /\ MaxVersion \in Nat

VARIABLE desk  \* the decision each reviewer has checked and not yet written

Decision == [run: Runs, step: StepIds, allow: BOOLEAN]

ServiceInit == desk = [p \in People |-> None]

ServiceTypeOK == desk \in [People -> Decision \cup {None}]

-----------------------------------------------------------------------------
Submitted(r) == run[r].status # "none"

(* submit_in() for a new request key: admission is serialised by a lock on *)
(* the workspace's row, and the plan captures each contract's fingerprint. *)
Submit(r) ==
  /\ ~Submitted(r)
  /\ \A q \in 1 .. (r - 1) : Submitted(q)
  /\ Mission[r].owner \in access
  /\ Cardinality(ActiveRuns) < MaxActive
  /\ run' = [run EXCEPT ![r] = [NoRun EXCEPT !.status = "queued",
                !.fingerprint = catalog, !.last_event = "workflow.submitted"]]
  /\ UNCHANGED <<approval, access, catalog, calls, desk>>

(* cancel(): the flag on any active mission, and the status of one that no *)
(* worker holds.                                                           *)
CancelledNow(row) ==
  [row EXCEPT !.cancel_requested = TRUE,
              !.status = IF row.status = "running" THEN @ ELSE "cancelled",
              !.last_event = "workflow.cancellation_requested"]

Cancel(p, r) ==
  /\ p \in access /\ (p = Mission[r].owner \/ p \in Admins)
  /\ run[r].status \in Active
  /\ run' = [run EXCEPT ![r] = CancelledNow(run[r])]
  /\ approval' = [q \in Runs \X StepIds |->
       IF q[1] = r /\ approval[q].status = "pending"
       THEN [approval[q] EXCEPT !.status = "cancelled"] ELSE approval[q]]
  /\ UNCHANGED <<access, catalog, calls, desk>>

(* review(), up to its updates: every check is on rows read without a lock.*)
ReviewRead(p, r, i, allow) ==
  /\ desk[p] = None
  /\ p \in Reviewers \cap access /\ p # Mission[r].owner
  /\ approval[<<r, i>>].status # "none" /\ ~approval[<<r, i>>].lapsed
  /\ run[r].status = "waiting_approval" /\ ~run[r].cancel_requested
  /\ desk' = [desk EXCEPT ![p] = [run |-> r, step |-> i, allow |-> allow]]
  /\ UNCHANGED storeVars

Undecided(r, i) == approval[<<r, i>>].status = "pending"
StillWaits(r)   == run[r].status = "waiting_approval" /\ ~run[r].cancel_requested

DecidedRun(row, allow) ==
  [row EXCEPT !.status = IF allow THEN "queued" ELSE "rejected",
              !.last_event = "approval.decided"]

DecidedApproval(row, p, allow) ==
  [row EXCEPT !.status = IF allow THEN "approved" ELSE "rejected", !.reviewer = p]

(* The two conditional updates; when either misses, both are rolled back.  *)
ReviewWrite(p) ==
  /\ desk[p] # None
  /\ LET r == desk[p].run
         i == desk[p].step
     IN  \/ /\ Undecided(r, i) /\ StillWaits(r)
            /\ approval' = [approval EXCEPT ![<<r, i>>] =
                 DecidedApproval(approval[<<r, i>>], p, desk[p].allow)]
            /\ run' = [run EXCEPT ![r] = DecidedRun(run[r], desk[p].allow)]
         \/ /\ ~(Undecided(r, i) /\ StillWaits(r))
            /\ UNCHANGED <<run, approval>>
  /\ desk' = [desk EXCEPT ![p] = None]
  /\ UNCHANGED <<access, catalog, calls>>

(* Mutant: the request's outcome is written where the status belongs.      *)
SettledAsOutcome(r, status) ==
  [run[r] EXCEPT !.status = IF status = "failed" THEN "confirmed_failed" ELSE status,
                 !.last_event = "step.reconciled"]

(* reconcile(): another administrator says what became of an effect.       *)
Settled(r, status) ==
  [run[r] EXCEPT !.status = status, !.last_event = "step.reconciled"]

ConfirmedRow(r, output) ==
  Advance(Settled(r, IF run[r].cancel_requested THEN "cancelled"
                     ELSE IF IsLast(r) THEN "completed" ELSE "queued"), output)

Reconcile(p, r) ==
  /\ p \in Admins \cap access /\ p # Mission[r].owner
  /\ run[r].status = "needs_reconciliation"
  /\ \E row \in {ConfirmedRow(r, output) : output \in Output}
                \cup {Settled(r, "failed"), Settled(r, "cancelled")} :
       run' = [run EXCEPT ![r] = row]
  /\ UNCHANGED <<approval, access, catalog, calls, desk>>

(* user_access(): a membership is disabled, loses a grant, or regains it.  *)
ChangeAccess(p) ==
  /\ p \in Revocable
  /\ access' = IF p \in access THEN access \ {p} ELSE access \cup {p}
  /\ UNCHANGED <<run, approval, catalog, calls, desk>>

(* A registration, or the manifest, gives a capability another contract.   *)
Register(c) ==
  /\ catalog[c] < MaxVersion
  /\ catalog' = [catalog EXCEPT ![c] = @ + 1]
  /\ UNCHANGED <<run, approval, access, calls, desk>>

Request ==
  \/ \E r \in Runs : Submit(r)
  \/ \E p \in People, r \in Runs : Cancel(p, r)
  \/ \E p \in People, r \in Runs, i \in StepIds, allow \in BOOLEAN :
       ReviewRead(p, r, i, allow)
  \/ \E p \in People : ReviewWrite(p)
  \/ \E p \in People, r \in Runs : Reconcile(p, r)
  \/ \E p \in People : ChangeAccess(p)
  \/ \E c \in Capabilities : Register(c)
=============================================================================
