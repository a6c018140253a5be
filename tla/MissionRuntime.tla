--------------------------- MODULE MissionRuntime ---------------------------
(***************************************************************************)
(* The API service, the workers and the clock over one set of rows.        *)
(***************************************************************************)
EXTENDS MissionWorker, MissionService

vars == <<run, approval, access, catalog, calls, job, scan, desk>>

Init == StoreInit /\ WorkerInit /\ ServiceInit

TypeOK == StoreTypeOK /\ WorkerTypeOK /\ ServiceTypeOK

-----------------------------------------------------------------------------
(* Time passes a row's timestamps.  Only rows that some operation still    *)
(* compares with the clock are aged.                                       *)

LeaseLapses(r) ==
  /\ run[r].status = "running" /\ ~run[r].lapsed
  /\ run' = [run EXCEPT ![r] = [@ EXCEPT !.lapsed = TRUE]]
  /\ UNCHANGED approval

BackoffElapses(r) ==
  /\ run[r].status \in Active /\ ~run[r].due
  /\ run' = [run EXCEPT ![r] = [@ EXCEPT !.due = TRUE]]
  /\ UNCHANGED approval

ApprovalLapses(r, i) ==
  /\ run[r].status \in Active
  /\ approval[<<r, i>>].status \in {"pending", "approved"} /\ ~approval[<<r, i>>].lapsed
  /\ approval' = [approval EXCEPT ![<<r, i>>] = [@ EXCEPT !.lapsed = TRUE]]
  /\ UNCHANGED run

(* An approval never outlives the mission's deadline.                      *)
DeadlinePasses(r) ==
  /\ run[r].status \in Active \cup {"needs_reconciliation"} /\ ~run[r].overdue
  /\ run' = [run EXCEPT ![r] = [@ EXCEPT !.overdue = TRUE]]
  /\ approval' = [p \in Runs \X StepIds |->
       IF p[1] = r /\ approval[p].status # "none"
       THEN [approval[p] EXCEPT !.lapsed = TRUE] ELSE approval[p]]

Clock ==
  /\ \/ \E r \in Runs : LeaseLapses(r) \/ BackoffElapses(r) \/ DeadlinePasses(r)
     \/ \E r \in Runs, i \in StepIds : ApprovalLapses(r, i)
  /\ UNCHANGED <<access, catalog, calls, job, scan, desk>>

Work == \E w \in Workers : (Tick(w) \/ Crash(w) \/ Restart(w)) /\ UNCHANGED desk

Serve == Request /\ UNCHANGED <<job, scan>>

Next == Work \/ Serve \/ Clock

Spec == Init /\ [][Next]_vars

-----------------------------------------------------------------------------
(* Safety                                                                  *)

(* An effect is requested at most once.  prepare() may reserve the step of *)
(* a mission again after retries, lost leases, crashes and recovery by     *)
(* other workers, but never a step whose contract is not a read.           *)
EffectAtMostOnce ==
  \A r \in Runs : \A i \in 1 .. Len(Steps(r)) : Effectful(r, i) => calls[<<r, i>>] <= 1

(* A step that needs approval is requested only with a decision of someone *)
(* other than the owner, on the action as it is at that step: review(),    *)
(* cancel(), recover() and prepare() never leave an approval of one action *)
(* to cover another.                                                       *)
CallsWereApproved ==
  \A r \in Runs : \A i \in 1 .. Len(Steps(r)) :
    calls[<<r, i>>] > 0 /\ ContractOf(r, i).approval =>
      /\ approval[<<r, i>>].status = "approved"
      /\ approval[<<r, i>>].reviewer # Mission[r].owner
      /\ approval[<<r, i>>].action.fingerprint = run[r].fingerprint[Steps(r)[i].capability]
      /\ approval[<<r, i>>].action.input = SubSeq(run[r].outputs, 1, i - 1)

(* A pending approval is that of the step a waiting mission stands at, and *)
(* a waiting mission has one: cancel(), recover() and review() always move *)
(* the two rows together.                                                  *)
PendingIffWaiting ==
  \A r \in Runs : \A i \in StepIds :
    approval[<<r, i>>].status = "pending" <=> run[r].status = "waiting_approval" /\ i = At(r)

(* The requests made for a mission: the first, the second... for each step.*)
Requests(r) == UNION {{i} \X (1 .. calls[<<r, i>>]) : i \in StepIds}

(* What was requested is what was reserved: calls never exceed the counted *)
(* tool calls, which with the cost stay within the mission's limits, and a *)
(* step is requested at most max_attempts times although the counter that  *)
(* limits its attempts is reset and a lost call is never counted back.     *)
WithinLimits ==
  \A r \in Runs :
    /\ run[r].tool_calls <= Mission[r].max_tool_calls
    /\ run[r].cost <= Mission[r].budget
    /\ \A i \in 1 .. Len(Steps(r)) : calls[<<r, i>>] <= ContractOf(r, i).max_attempts
    /\ Cardinality(Requests(r)) <= run[r].tool_calls

(* An effect that was requested and whose output is not recorded is being  *)
(* waited for, is held for reconciliation, or was settled by a person.     *)
UncertainEffectHeld ==
  \A r \in Runs : At(r) <= Len(Steps(r)) /\ Effectful(r, At(r)) /\ calls[<<r, At(r)>>] > 0 =>
    \/ run[r].status \in {"running", "needs_reconciliation"}
    \/ run[r].status \in {"failed", "cancelled"} /\ run[r].last_event = "step.reconciled"

(* A lease is held exactly by a running mission, no two missions share a   *)
(* token, and at most one worker holds the lease of a mission.             *)
LeaseIffRunning ==
  /\ \A r \in Runs : run[r].status = "running" <=> run[r].lease_token # None
  /\ \A q, r \in Runs : run[q].lease_token = run[r].lease_token => q = r \/ run[r].lease_token = None
  /\ \A v, w \in Workers : job[v].token = job[w].token => v = w \/ job[v].token = None

(* A mission that goes on has a step to stand at, and one output for every *)
(* step before it.                                                         *)
CursorFollowsOutputs ==
  \A r \in Runs :
    /\ Len(run[r].outputs) = run[r].cursor
    /\ run[r].status = "completed" => run[r].cursor = Len(Steps(r))
    /\ run[r].status \in Active \cup {"needs_reconciliation"} =>
         run[r].cursor < Len(Steps(r))

(* A step is requested only when its condition holds on the outputs that   *)
(* are recorded, and every output of a read comes from a request or from a *)
(* condition that does not hold.                                           *)
Holds(r, i) ==
  LET when == Steps(r)[i].when
  IN  \/ when.op = "always"
      \/ when.op = "exists" /\ run[r].outputs[when.step] # Absent
      \/ when.op = "eq" /\ run[r].outputs[when.step] = when.value

OutputsHaveCauses ==
  \A r \in Runs : \A i \in 1 .. Len(Steps(r)) :
    /\ calls[<<r, i>>] > 0 =>
         Holds(r, i) /\ \A j \in Steps(r)[i].binds : run[r].outputs[j] # Absent
    /\ i <= run[r].cursor /\ calls[<<r, i>>] = 0 =>
         (~Holds(r, i) /\ run[r].outputs[i] = Absent) \/ Effectful(r, i)

(* The last event of a mission explains its status.                        *)
Explains(kind, status) ==
  CASE status = "queued" -> kind \in {"workflow.submitted", "step.completed", "step.skipped",
                                      "approval.decided", "step.reconciled"}
    [] status = "retry_wait" -> kind \in {"step.failed", "step.lease_expired"}
    [] status = "waiting_approval" -> kind = "approval.requested"
    [] status = "completed" -> kind \in {"workflow.completed", "step.reconciled"}
    [] status = "failed" -> kind \in {"step.failed", "step.lease_expired", "step.reconciled"}
    [] status = "cancelled" -> kind \in {"workflow.cancellation_requested", "step.completed",
                                 "step.failed", "step.lease_expired", "step.reconciled"}
    [] status = "rejected" -> kind = "approval.decided"
    [] status = "blocked" -> kind = "step.blocked"
    [] status = "needs_reconciliation" -> kind \in {"step.failed", "step.lease_expired"}
    [] status = "expired" -> kind = "workflow.expired"
    [] status \in {"none", "running"} -> TRUE

(* "Every domain transition emits a record in the same transaction": the   *)
(* event log tells an auditor how each mission came to its status.         *)
AuditExplainsStatus == \A r \in Runs : Explains(run[r].last_event, run[r].status)

(* A mission in retry_wait has a retry coming: claim() will take it.       *)
RetryWaitIsScheduled ==
  \A r \in Runs : run[r].status = "retry_wait" => ~run[r].cancel_requested

-----------------------------------------------------------------------------
(* Action properties                                                       *)

(* "Cancellation stops queued work; an already-started call may complete": *)
(* no tool call is reserved for a mission whose cancellation is recorded,  *)
(* and the flag is never withdrawn.                                        *)
CancellationHolds ==
  [][\A r \in Runs : run[r].cancel_requested =>
       /\ run'[r].cancel_requested
       /\ run'[r].tool_calls = run[r].tool_calls]_vars

(* A worker has a mission to itself until its lease is over: whoever else  *)
(* claims, recovers, reviews or cancels on rows it read before, a lease    *)
(* that has not lapsed is ended only by the worker that holds it, when it  *)
(* lets go of the mission.                                                 *)
LeaseHeldAlone ==
  [][\A r \in Runs :
       run[r].status = "running" /\ ~run[r].lapsed /\ run'[r].lease_token # run[r].lease_token =>
         \E w \in Workers : job[w].token = run[r].lease_token /\ job'[w] = IdleJob]_vars

-----------------------------------------------------------------------------
(* Refinement: what the rows, the workers and the calls amount to.         *)

(* "held" is a status of its own; every other active status is "open".     *)
Stage(r) ==
  CASE run[r].status = "none" -> "absent"
    [] run[r].status \in Active -> "open"
    [] run[r].status = "needs_reconciliation" -> "held"
    [] OTHER -> run[r].status

Plans ==
  [r \in Runs |-> [i \in 1 .. Len(Steps(r)) |->
    [approval |-> ContractOf(r, i).approval, repeatable |-> ~Effectful(r, i),
     optional |-> Steps(r)[i].when.op # "always"]]]

Ledger(r) ==
  [stage |-> Stage(r),
   plan |-> IF Submitted(r) THEN Plans[r] ELSE <<>>,
   done |-> run[r].cursor,
   approved |-> {i \in StepIds : /\ approval[<<r, i>>].status = "approved"
                                 /\ approval[<<r, i>>].reviewer # Mission[r].owner},
   permitted |-> [i \in StepIds |->
     {w \in Workers : job[w].pc = "prepared" /\ job[w].run = r /\ job[w].step = i}],
   asked |-> [i \in StepIds |-> calls[<<r, i>>]]]

Promise == INSTANCE MissionPromise
             WITH Missions <- Runs, Agents <- Workers,
                  ledger <- [r \in Runs |-> Ledger(r)]

(* Leases, tokens, retries, recovery, reviews and crashes together do what *)
(* MissionPromise says: every transaction is one of its steps or none.     *)
KeepsPromise == Promise!PromiseSpec

-----------------------------------------------------------------------------
(* Liveness                                                                *)

(* A worker's loop does not stop by itself, and the clock does not stop.   *)
Fairness ==
  /\ \A w \in Workers : WF_vars(Tick(w) /\ UNCHANGED desk)
  /\ \A r \in Runs :
       /\ WF_vars(LeaseLapses(r) /\ UNCHANGED <<access, catalog, calls, job, scan, desk>>)
       /\ WF_vars(DeadlinePasses(r) /\ UNCHANGED <<access, catalog, calls, job, scan, desk>>)

FairSpec == Spec /\ Fairness

(* Some worker stops crashing; the others may crash and restart for ever.  *)
OneWorkerSurvives == \E w \in Workers : <>[](job[w].pc # "down")

Rests(r) == run[r].status \in Terminal \cup {"needs_reconciliation"}

(* Every mission leaves the active states: whatever its workers, reviewers *)
(* and retries do, its deadline ends it, provided one worker survives.     *)
EventuallySettles ==
  OneWorkerSurvives => \A r \in Runs : Submitted(r) ~> Rests(r)
=============================================================================
