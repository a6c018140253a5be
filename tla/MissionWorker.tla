---------------------------- MODULE MissionWorker ----------------------------
(***************************************************************************)
(* The workers: processes that run Worker.tick() in a loop, sharing only   *)
(* the database.  A tick refreshes the catalog, recovers lapsed leases and *)
(* deadlines, claims one mission under a fresh lease, reserves the step,   *)
(* calls the gateway and records the outcome.  Each database transaction   *)
(* is a step of the model, except that recover() and claim(), which read   *)
(* rows before they update them, are two: what they read may be stale when *)
(* their conditional updates run.                                          *)
(***************************************************************************)
EXTENDS MissionStore

CONSTANTS
  Workers,    \* worker processes
  ClaimLimit  \* how many candidates claim() selects (20 in the code)

ASSUME ClaimAssumption == ClaimLimit \in Nat \ {0}

VARIABLES
  job,   \* where each worker is in its tick, and what it claimed
  scan   \* what each worker's recover() has read and not yet acted on

workerVars == <<job, scan>>

Phase == {"down", "idle", "recovering", "looking", "claiming", "claimed", "prepared", "calling"}

Job == [pc: Phase, run: Runs \cup {None}, step: Nat, token: Tokens \cup {None},
        todo: SUBSET Runs, seen: [Capabilities -> Nat]]

(* A lapsed lease as recover() read it, and the status it decided on.      *)
LapsedLease == [run: Runs, token: Tokens, status: Status]

Scan == [leases: SUBSET LapsedLease, late: SUBSET Runs,
         stale: SUBSET (Runs \X StepIds)]

NoScan == [leases |-> {}, late |-> {}, stale |-> {}]

IdleJob == [pc |-> "idle", run |-> None, step |-> 0, token |-> None,
            todo |-> {}, seen |-> [c \in Capabilities |-> 0]]

WorkerInit ==
  /\ job = [w \in Workers |-> IdleJob]
  /\ scan = [w \in Workers |-> NoScan]

WorkerTypeOK ==
  /\ job \in [Workers -> Job]
  /\ scan \in [Workers -> Scan]

-----------------------------------------------------------------------------
(* recover()                                                               *)

(* Mutant: a lapsed lease on an effect is retried like one on a read.      *)
LapseVerdictRetriesEffects(r) ==
  CASE run[r].cancel_requested -> "cancelled"
    [] ~run[r].cancel_requested /\ run[r].attempts < ContractAt(r).max_attempts -> "retry_wait"
    [] OTHER -> "failed"

(* The status for a lapsed lease, computed from the row as it was read.    *)
LapseVerdict(r) ==
  CASE Effectful(r, At(r)) -> "needs_reconciliation"
    [] ~Effectful(r, At(r)) /\ run[r].cancel_requested -> "cancelled"
    [] /\ ~Effectful(r, At(r)) /\ ~run[r].cancel_requested
       /\ run[r].attempts < ContractAt(r).max_attempts -> "retry_wait"
    [] OTHER -> "failed"

LapsedRuns == {r \in Runs : run[r].status = "running" /\ run[r].lapsed}

(* registry.refresh(), then "now" and the SELECT of lapsed leases.         *)
RecoverScan(w) ==
  /\ job[w].pc = "idle"
  /\ job' = [job EXCEPT ![w] = [@ EXCEPT !.pc = "recovering", !.seen = catalog]]
  /\ scan' = [scan EXCEPT ![w] =
       [leases |-> {[run |-> r, token |-> run[r].lease_token,
                     status |-> LapseVerdict(r)] : r \in LapsedRuns},
        late |-> {r \in Runs : run[r].overdue},
        stale |-> {p \in Runs \X StepIds : approval[p].lapsed}]]
  /\ UNCHANGED storeVars

(* Mutant: the update trusts what the SELECT found.                        *)
StillLapsedUnchecked(w, r) == {e \in scan[w].leases : e.run = r}

(* The update of a lapsed lease takes effect only on the lease it read.    *)
StillLapsed(w, r) ==
  {e \in scan[w].leases : /\ e.run = r
                          /\ run[r].status = "running"
                          /\ run[r].lease_token = e.token}

AfterLeases(w, r) ==
  IF StillLapsed(w, r) = {} THEN run[r]
  ELSE LET e == CHOOSE e \in StillLapsed(w, r) : TRUE
       IN  [Release(run[r], e.status, "step.lease_expired") EXCEPT !.due = TRUE]

(* Mutant: a retry that waits for its backoff is overlooked.               *)
MissesDeadlineUnlessRetrying(w, r) ==
  r \in scan[w].late /\ AfterLeases(w, r).status \in {"queued", "waiting_approval"}

MissesDeadline(w, r) == r \in scan[w].late /\ AfterLeases(w, r).status \in Waiting

AfterDeadlines(w, r) ==
  IF MissesDeadline(w, r)
  THEN [AfterLeases(w, r) EXCEPT !.status = "expired", !.last_event = "workflow.expired"]
  ELSE AfterLeases(w, r)

(* A pending approval whose time is over expires, and with it the mission  *)
(* if it still waits: this update emits no event.                          *)
ApprovalExpires(w, r, i) ==
  /\ approval[<<r, i>>].status = "pending"
  /\ <<r, i>> \in scan[w].stale
  /\ ~MissesDeadline(w, r)

(* Mutant: the approval expires and its mission goes on waiting.           *)
AfterRecoveryApprovalOnly(w, r) == AfterDeadlines(w, r)

AfterRecovery(w, r) ==
  IF AfterDeadlines(w, r).status = "waiting_approval"
     /\ \E i \in StepIds : ApprovalExpires(w, r, i)
  THEN [AfterDeadlines(w, r) EXCEPT !.status = "expired"]
  ELSE AfterDeadlines(w, r)

RecoverApply(w) ==
  /\ job[w].pc = "recovering"
  /\ run' = [r \in Runs |-> AfterRecovery(w, r)]
  /\ approval' = [p \in Runs \X StepIds |->
       IF \/ approval[p].status = "pending" /\ MissesDeadline(w, p[1])
          \/ ApprovalExpires(w, p[1], p[2])
       THEN [approval[p] EXCEPT !.status = "expired"]
       ELSE approval[p]]
  /\ job' = [job EXCEPT ![w] = [@ EXCEPT !.pc = "looking"]]
  /\ scan' = [scan EXCEPT ![w] = NoScan]
  /\ UNCHANGED <<access, catalog, calls>>

-----------------------------------------------------------------------------
(* claim()                                                                 *)

(* The SELECT orders by creation, is limited, and does not look at         *)
(* cancel_requested.                                                       *)
Selectable == {r \in Runs : run[r].status \in Claimable /\ run[r].due /\ ~run[r].overdue}

Candidates ==
  {r \in Selectable : Cardinality({q \in Selectable : q < r}) < ClaimLimit}

ClaimScan(w) ==
  /\ job[w].pc = "looking"
  /\ job' = [job EXCEPT ![w] =
       IF Candidates = {} THEN IdleJob
       ELSE [@ EXCEPT !.pc = "claiming", !.todo = Candidates]]
  /\ UNCHANGED <<storeVars, scan>>

(* uid(): a token that no row, claim or scan holds.                        *)
FreshTokens ==
  {t \in Tokens :
     /\ \A r \in Runs : run[r].lease_token # t
     /\ \A w \in Workers : /\ job[w].token # t
                           /\ \A e \in scan[w].leases : e.token # t}

(* Mutant: the status that the SELECT found is trusted.                    *)
ClaimsUnchecked(r) == run[r].due /\ ~run[r].cancel_requested

Claims(r) == run[r].status \in Claimable /\ run[r].due /\ ~run[r].cancel_requested

Claim(w, r, t) ==
  /\ run' = [run EXCEPT ![r] = [@ EXCEPT !.status = "running", !.lease_token = t,
                                        !.lapsed = FALSE]]
  /\ job' = [job EXCEPT ![w] = [@ EXCEPT !.pc = "claimed", !.run = r, !.token = t,
                                        !.todo = {}]]

PassOver(w, r) ==
  IF job[w].todo = {r} THEN IdleJob ELSE [job[w] EXCEPT !.todo = @ \ {r}]

(* One conditional update; the oldest candidate comes first.               *)
ClaimTry(w) ==
  /\ job[w].pc = "claiming"
  /\ \E r \in job[w].todo :
       /\ \A q \in job[w].todo : r <= q
       /\ \/ Claims(r) /\ FreshTokens # {} /\ Claim(w, r, CHOOSE t \in FreshTokens : TRUE)
          \/ /\ ~Claims(r)
             /\ job' = [job EXCEPT ![w] = PassOver(w, r)]
             /\ run' = run
  /\ UNCHANGED <<approval, access, catalog, calls, scan>>

-----------------------------------------------------------------------------
(* prepare()                                                               *)

(* The conditional UPDATE that fences prepare() and finish().              *)
Fenced(w) ==
  LET row == run[job[w].run]
  IN  row.status = "running" /\ row.lease_token = job[w].token /\ ~row.lapsed

(* actor_for(owner), its role and grant, and the contract's fingerprint.   *)
Entitled(w, r) ==
  LET c == StepAt(r).capability
  IN  Mission[r].owner \in access /\ job[w].seen[c] = run[r].fingerprint[c]

(* The stored approval, and the reviewer's identity, as checked again.     *)
ApprovalStands(r) ==
  LET a == approval[<<r, At(r)>>]
  IN  /\ a.status = "approved" /\ a.action = ActionAt(r) /\ ~a.lapsed
      /\ a.reviewer \in access /\ a.reviewer # Mission[r].owner

(* Mutant: whatever is not pending counts as an approval.                  *)
ApprovedOnceDecided(r) ==
  ContractAt(r).approval => approval[<<r, At(r)>>].status # "pending"

Approved(r) == ContractAt(r).approval => ApprovalStands(r)

NeverRequested(r) == ContractAt(r).approval /\ approval[<<r, At(r)>>].status = "none"

(* Mutant: off by one.                                                     *)
BudgetExhaustedOneLate(r) ==
  \/ run[r].tool_calls > Mission[r].max_tool_calls
  \/ run[r].cost + ContractAt(r).cost > Mission[r].budget

BudgetExhausted(r) ==
  \/ run[r].tool_calls >= Mission[r].max_tool_calls
  \/ run[r].cost + ContractAt(r).cost > Mission[r].budget

(* A Problem in the order the checks come, with what each one presupposes. *)
Blocked(w, r) ==
  \/ ~Entitled(w, r)
  \/ /\ ~run[r].cancel_requested
     /\ \/ ConditionProblem(r)
        \/ /\ ConditionMatches(r)
           /\ \/ InputProblem(r)
              \/ ~NeverRequested(r) /\ ~Approved(r)
              \/ Approved(r) /\ BudgetExhausted(r)

(* Mutant: cancellation is looked at only when a step ends.                *)
GoesOnWhenCancelled(w, r) == Entitled(w, r) /\ ~ConditionProblem(r)

Goes(w, r) == Entitled(w, r) /\ ~run[r].cancel_requested /\ ~ConditionProblem(r)

(* What each branch makes of the row.                                      *)
(* Mutant: the lease outlives the mission.                                 *)
CancelledRowLeased(r) == [run[r] EXCEPT !.status = "cancelled"]

(* Mutant: the skipped step's place in the outputs stays empty.            *)
SkippedRowNoOutput(r) ==
  [Release(run[r], IF IsLast(r) THEN "completed" ELSE "queued", "step.skipped")
     EXCEPT !.cursor = @ + 1, !.attempts = 0]

BlockedRow(r)   == Release(run[r], "blocked", "step.blocked")
CancelledRow(r) == Release(run[r], "cancelled", run[r].last_event)
SkippedRow(r) ==
  Advance(Release(run[r], IF IsLast(r) THEN "completed" ELSE "queued",
                  IF IsLast(r) THEN "workflow.completed" ELSE "step.skipped"), Absent)
WaitingRow(r) == Release(run[r], "waiting_approval", "approval.requested")
StartedRow(r) ==
  [run[r] EXCEPT !.tool_calls = @ + 1, !.attempts = @ + 1,
                 !.cost = @ + ContractAt(r).cost, !.last_event = "step.started"]

PrepareStop(w) ==
  LET r == job[w].run
  IN  /\ job[w].pc = "claimed"
      /\ \/ /\ ~Fenced(w)
            /\ UNCHANGED <<run, approval>>
         \/ /\ Fenced(w) /\ Blocked(w, r)
            /\ run' = [run EXCEPT ![r] = BlockedRow(r)]
            /\ UNCHANGED approval
         \/ /\ Fenced(w) /\ Entitled(w, r) /\ run[r].cancel_requested
            /\ run' = [run EXCEPT ![r] = CancelledRow(r)]
            /\ UNCHANGED approval
         \/ /\ Fenced(w) /\ Goes(w, r) /\ ~ConditionMatches(r)
            /\ run' = [run EXCEPT ![r] = SkippedRow(r)]
            /\ UNCHANGED approval
         \/ /\ Fenced(w) /\ Goes(w, r) /\ ConditionMatches(r) /\ ~InputProblem(r)
            /\ NeverRequested(r)
            /\ run' = [run EXCEPT ![r] = WaitingRow(r)]
            /\ approval' = [approval EXCEPT ![<<r, At(r)>>] =
                 [status |-> "pending", action |-> ActionAt(r),
                  lapsed |-> run[r].overdue, reviewer |-> None]]
      /\ job' = [job EXCEPT ![w] = IdleJob]
      /\ UNCHANGED <<access, catalog, calls, scan>>

(* The reservation: calls, attempts and cost are counted before the call.  *)
PrepareStart(w) ==
  LET r == job[w].run
  IN  /\ job[w].pc = "claimed" /\ Fenced(w)
      /\ Goes(w, r) /\ ConditionMatches(r) /\ ~InputProblem(r)
      /\ Approved(r) /\ ~BudgetExhausted(r)
      /\ run' = [run EXCEPT ![r] = StartedRow(r)]
      /\ job' = [job EXCEPT ![w] = [@ EXCEPT !.pc = "prepared", !.step = At(r)]]
      /\ UNCHANGED <<approval, access, catalog, calls, scan>>

-----------------------------------------------------------------------------
(* The gateway call and finish()                                           *)

(* The step whose context prepare() handed to the gateway.                 *)
Call(w) ==
  /\ job[w].pc = "prepared"
  /\ LET p == <<job[w].run, job[w].step>>
     IN  calls' = [calls EXCEPT ![p] = @ + 1]
  /\ job' = [job EXCEPT ![w] = [@ EXCEPT !.pc = "calling"]]
  /\ UNCHANGED <<run, approval, access, catalog, scan>>

(* Mutant: cancellation is decided before the effect is.                   *)
FailedStatusCancelFirst(r, retryable) ==
  CASE run[r].cancel_requested -> "cancelled"
    [] ~run[r].cancel_requested /\ Effectful(r, At(r)) -> "needs_reconciliation"
    [] /\ ~run[r].cancel_requested /\ ~Effectful(r, At(r)) /\ retryable
       /\ run[r].attempts < ContractAt(r).max_attempts -> "retry_wait"
    [] OTHER -> "failed"

FailedStatus(r, retryable) ==
  CASE Effectful(r, At(r)) -> "needs_reconciliation"
    [] ~Effectful(r, At(r)) /\ run[r].cancel_requested -> "cancelled"
    [] /\ ~Effectful(r, At(r)) /\ ~run[r].cancel_requested /\ retryable
       /\ run[r].attempts < ContractAt(r).max_attempts -> "retry_wait"
    [] OTHER -> "failed"

FailedRow(r, retryable) ==
  [Release(run[r], FailedStatus(r, retryable), "step.failed") EXCEPT !.due = FALSE]

SucceededStatus(r) ==
  IF run[r].cancel_requested THEN "cancelled"
  ELSE IF IsLast(r) THEN "completed" ELSE "queued"

SucceededRow(r, output) ==
  Advance(Release(run[r], SucceededStatus(r),
                  IF SucceededStatus(r) = "completed" THEN "workflow.completed"
                  ELSE "step.completed"), output)

(* finish() with an error: the gateway may fail before it sends anything.  *)
FinishError(w, retryable) ==
  LET r == job[w].run
  IN  /\ job[w].pc \in {"prepared", "calling"}
      /\ run' = IF Fenced(w) THEN [run EXCEPT ![r] = FailedRow(r, retryable)] ELSE run
      /\ job' = [job EXCEPT ![w] = IdleJob]
      /\ UNCHANGED <<approval, access, catalog, calls, scan>>

FinishOutput(w, output) ==
  LET r == job[w].run
  IN  /\ job[w].pc = "calling"
      /\ run' = IF Fenced(w) THEN [run EXCEPT ![r] = SucceededRow(r, output)] ELSE run
      /\ job' = [job EXCEPT ![w] = IdleJob]
      /\ UNCHANGED <<approval, access, catalog, calls, scan>>

-----------------------------------------------------------------------------
(* The process dies at any point: an open transaction is rolled back, what *)
(* it knew is gone.  Its supervisor may start it again.                    *)
Crash(w) ==
  /\ job[w].pc # "down"
  /\ job' = [job EXCEPT ![w] = [IdleJob EXCEPT !.pc = "down"]]
  /\ scan' = [scan EXCEPT ![w] = NoScan]
  /\ UNCHANGED storeVars

Restart(w) ==
  /\ job[w].pc = "down"
  /\ job' = [job EXCEPT ![w] = IdleJob]
  /\ UNCHANGED <<storeVars, scan>>

Tick(w) ==
  \/ RecoverScan(w) \/ RecoverApply(w)
  \/ ClaimScan(w) \/ ClaimTry(w)
  \/ PrepareStop(w) \/ PrepareStart(w)
  \/ Call(w)
  \/ \E retryable \in BOOLEAN : FinishError(w, retryable)
  \/ \E output \in Output : FinishOutput(w, output)
=============================================================================
