--------------------------- MODULE MissionProofs ---------------------------
(***************************************************************************)
(* Theorems about MissionRuntime, for any missions, workers, people and    *)
(* contracts.  The first part is about leases and reservations: types, the *)
(* lease discipline, and that an effect is requested at most once whatever *)
(* crashes, lost leases, recoveries and reviews interleave.  The second is *)
(* about what rows, approvals, events, attempts and calls say of each      *)
(* other.  The third shows that the runtime implements MissionPromise, and *)
(* the last counts: requests against reservations, reservations against    *)
(* the limits.                                                             *)
(*                                                                         *)
(* Every step but three is "ordinary": it requests nothing, claims nothing *)
(* and reserves nothing, it only moves rows on, and workers only let go of *)
(* what they hold.  The first invariant is proved for ordinary steps once, *)
(* from what a step may do to a row, and then for Claim, PrepareStart and  *)
(* Call.  The others are proved from the deed that each step does to each  *)
(* mission, of which there are eleven, and from what becomes of the        *)
(* permissions to request.                                                 *)
(***************************************************************************)
EXTENDS MissionRuntime, SequenceTheorems, FiniteSetTheorems, TLAPS

(* The parts of the inductive invariant.                                   *)

(* What a worker in a phase holds.                                         *)
JobsHold ==
  \A w \in Workers :
    /\ job[w].pc \in {"claimed", "prepared", "calling"} =>
         job[w].run \in Runs /\ job[w].token \in Tokens
    /\ job[w].pc \notin {"claimed", "prepared", "calling"} => job[w].token = None
    /\ job[w].pc \in {"prepared", "calling"} =>
         job[w].step \in 1 .. Len(Steps(job[w].run))

(* A mission not yet submitted is untouched.                               *)
UntouchedBefore == \A r \in Runs : run[r].status = "none" => run[r] = NoRun

(* A lapsed lease that recover() has read and that still stands on its row *)
(* stands there with the verdict that the row deserves.                    *)
VerdictsStand ==
  \A w \in Workers : \A e \in scan[w].leases :
    /\ e.status \in {"needs_reconciliation", "cancelled", "retry_wait", "failed"}
    /\ run[e.run].lease_token = e.token /\ Effectful(e.run, At(e.run)) =>
         e.status = "needs_reconciliation"

Armed(w, r, i) == job[w].pc = "prepared" /\ job[w].run = r /\ job[w].step = i

(* The step a mission stands at: an effect whose attempt is counted is not *)
(* with anyone who could reserve it again.                                 *)
EffectReservedOnce ==
  \A r \in Runs : At(r) <= Len(Steps(r)) /\ Effectful(r, At(r)) =>
    /\ run[r].status \in Waiting => run[r].attempts = 0
    /\ \A w \in Workers :
         job[w].pc = "claimed" /\ job[w].run = r /\ job[w].token = run[r].lease_token =>
           run[r].attempts = 0

(* An effect is reserved by one worker, which has not requested it yet, or *)
(* has been requested once, or neither; only the steps that a mission has  *)
(* passed, or counted an attempt of, are.                                  *)
ReservedThenCalled ==
  \A r \in Runs : \A i \in 1 .. Len(Steps(r)) : Effectful(r, i) =>
    /\ calls[<<r, i>>] <= 1
    /\ \A w \in Workers : Armed(w, r, i) =>
         /\ calls[<<r, i>>] = 0
         /\ \A v \in Workers : Armed(v, r, i) => v = w
    /\ i > At(r) \/ (i = At(r) /\ run[r].attempts = 0) =>
         /\ calls[<<r, i>>] = 0
         /\ \A w \in Workers : ~Armed(w, r, i)

IInv ==
  /\ TypeOK
  /\ JobsHold
  /\ UntouchedBefore
  /\ CursorFollowsOutputs
  /\ LeaseIffRunning
  /\ VerdictsStand
  /\ EffectReservedOnce
  /\ ReservedThenCalled

-----------------------------------------------------------------------------
(* Lookups in the plan.                                                    *)

(* What the plan has at a step.                                             *)
LEMMA PlanStep ==
  ASSUME NEW r \in Runs, NEW i \in 1 .. Len(Steps(r))
  PROVE  /\ Steps(r)[i] \in Step
         /\ i \in StepIds
         /\ ContractOf(r, i) \in ContractRow
         /\ Contract[Steps(r)[i].capability].cost \in Nat
         /\ Steps(r) \in Seq(Step)
<1>1. Mission[r] \in MissionRow /\ Len(Mission[r].steps) \in 1 .. MaxSteps
  BY MissionAssumption
<1>2. Steps(r) \in Seq(Step)
  BY <1>1 DEF Steps, MissionRow
<1>3. Steps(r)[i] \in Step
  BY <1>2
<1>4. i \in StepIds
  BY <1>1, MissionAssumption DEF Steps, StepIds
<1>5. Contract[Steps(r)[i].capability] \in ContractRow
  BY <1>3, ContractAssumption DEF Step
<1> QED
  BY <1>2, <1>3, <1>4, <1>5 DEF ContractOf, ContractRow

(* The two ways a worker changes a row keep its type.                      *)
LEMMA ReleaseType ==
  ASSUME NEW row \in RunRow, NEW status \in Status, NEW kind \in Kinds
  PROVE  Release(row, status, kind) \in RunRow
BY DEF Release, RunRow

(* A row with one more output is a row.                                     *)
LEMMA AdvanceType ==
  ASSUME NEW row \in RunRow, NEW output \in Output
  PROVE  Advance(row, output) \in RunRow
<1>1. Append(row.outputs, output) \in Seq(Output) /\ row.cursor + 1 \in Nat
  BY DEF RunRow
<1>2. \A outputs \in Seq(Output), cursor \in Nat :
        [row EXCEPT !.outputs = outputs, !.cursor = cursor, !.attempts = 0] \in RunRow
  BY DEF RunRow
<1> QED
  BY <1>1, <1>2 DEF Advance

(* The step a mission stands at exists as long as the mission goes on.     *)
LEMMA StandsAtStep ==
  ASSUME TypeOK, CursorFollowsOutputs, NEW r \in Runs,
         run[r].status \in Active \cup {"needs_reconciliation"}
  PROVE  /\ At(r) \in 1 .. Len(Steps(r))
         /\ At(r) \in StepIds
         /\ ContractAt(r) \in ContractRow
<1>1. run[r].cursor \in Nat /\ run[r].cursor < Len(Steps(r)) /\ Len(Steps(r)) \in Nat
  BY MissionAssumption DEF TypeOK, StoreTypeOK, RunRow, CursorFollowsOutputs, Steps
<1>2. At(r) \in 1 .. Len(Steps(r))
  BY <1>1 DEF At
<1> QED
  BY <1>2, PlanStep DEF ContractAt

-----------------------------------------------------------------------------
(* Type correctness, action by action.                                     *)

(* The verdicts of recover() on a lapsed lease.                             *)
LEMMA LapseVerdictType ==
  ASSUME TypeOK, CursorFollowsOutputs, NEW r \in LapsedRuns
  PROVE  LapseVerdict(r) \in {"needs_reconciliation", "cancelled", "retry_wait", "failed"}
BY DEF LapseVerdict

(* What recover() reads has its type.                                       *)
LEMMA RecoverScanType ==
  ASSUME TypeOK, CursorFollowsOutputs, LeaseIffRunning, NEW w \in Workers, RecoverScan(w)
  PROVE  job' \in [Workers -> Job] /\ scan' \in [Workers -> Scan]
<1>1. [job[w] EXCEPT !.pc = "recovering", !.seen = catalog] \in Job
  BY DEF TypeOK, WorkerTypeOK, StoreTypeOK, Job, Phase
<1>2. job' \in [Workers -> Job]
  BY <1>1 DEF RecoverScan, TypeOK, WorkerTypeOK
<1> DEFINE leases == {[run |-> r, token |-> run[r].lease_token,
                       status |-> LapseVerdict(r)] : r \in LapsedRuns}
           late  == {r \in Runs : run[r].overdue}
           stale == {p \in Runs \X StepIds : approval[p].lapsed}
<1>3. leases \subseteq LapsedLease
  <2> SUFFICES ASSUME NEW r \in LapsedRuns
               PROVE  [run |-> r, token |-> run[r].lease_token,
                       status |-> LapseVerdict(r)] \in LapsedLease
    OBVIOUS
  <2>1. r \in Runs /\ run[r].lease_token # None
    BY DEF LapsedRuns, LeaseIffRunning
  <2>2. run[r].lease_token \in Tokens
    BY <2>1 DEF TypeOK, StoreTypeOK, RunRow
  <2>3. LapseVerdict(r) \in Status
    BY LapseVerdictType DEF Status, Terminal, Active, Waiting, Claimable
  <2> QED
    BY <2>1, <2>2, <2>3 DEF LapsedLease
<1>4. [leases |-> leases, late |-> late, stale |-> stale] \in Scan
  BY <1>3 DEF Scan
<1>5. scan' = [scan EXCEPT ![w] = [leases |-> leases, late |-> late, stale |-> stale]]
  BY DEF RecoverScan
<1> QED
  BY <1>2, <1>4, <1>5 DEF TypeOK, WorkerTypeOK

(* An empty scan has its type.                                              *)
LEMMA NoScanType == NoScan \in Scan
BY DEF NoScan, Scan

(* An idle worker and a dead one have their type.                           *)
LEMMA IdleJobType == IdleJob \in Job /\ [IdleJob EXCEPT !.pc = "down"] \in Job
BY DEF IdleJob, Job, Phase

(* What recover() makes of a row.                                          *)
LEMMA RecoveryTypes ==
  ASSUME TypeOK, NEW w \in Workers, NEW r \in Runs
  PROVE  AfterLeases(w, r) \in RunRow /\ AfterDeadlines(w, r) \in RunRow
         /\ AfterRecovery(w, r) \in RunRow
<1>1. run[r] \in RunRow
  BY DEF TypeOK, StoreTypeOK
<1>2. AfterLeases(w, r) \in RunRow
  <2>1. CASE StillLapsed(w, r) = {}
    BY <1>1, <2>1 DEF AfterLeases
  <2>2. CASE StillLapsed(w, r) # {}
    <3> DEFINE e == CHOOSE e \in StillLapsed(w, r) : TRUE
    <3>1. e \in StillLapsed(w, r)
      BY <2>2
    <3>2. e.status \in Status
      BY <3>1 DEF StillLapsed, TypeOK, WorkerTypeOK, Scan, LapsedLease
    <3>3. Release(run[r], e.status, "step.lease_expired") \in RunRow
      BY <1>1, <3>2, ReleaseType DEF Kinds
    <3>4. \A row \in RunRow : [row EXCEPT !.due = TRUE] \in RunRow
      BY DEF RunRow
    <3> QED
      BY <2>2, <3>3, <3>4 DEF AfterLeases
  <2> QED
    BY <2>1, <2>2
<1>3. AfterDeadlines(w, r) \in RunRow
  <2>1. \A row \in RunRow :
          [row EXCEPT !.status = "expired", !.last_event = "workflow.expired"] \in RunRow
    BY DEF RunRow, Status, Terminal, Kinds
  <2> QED
    BY <1>2, <2>1 DEF AfterDeadlines
<1>4. AfterRecovery(w, r) \in RunRow
  <2>1. \A row \in RunRow : [row EXCEPT !.status = "expired"] \in RunRow
    BY DEF RunRow, Status, Terminal
  <2> QED
    BY <1>3, <2>1 DEF AfterRecovery
<1> QED
  BY <1>2, <1>3, <1>4

(* What recover() writes has its type.                                      *)
LEMMA RecoverApplyType ==
  ASSUME TypeOK, NEW w \in Workers, RecoverApply(w)
  PROVE  run' \in [Runs -> RunRow] /\ approval' \in [Runs \X StepIds -> ApprovalRow]
         /\ job' \in [Workers -> Job] /\ scan' \in [Workers -> Scan]
<1>1. run' \in [Runs -> RunRow]
  BY RecoveryTypes DEF RecoverApply
<1>2. approval' \in [Runs \X StepIds -> ApprovalRow]
  <2>1. \A a \in ApprovalRow : [a EXCEPT !.status = "expired"] \in ApprovalRow
    BY DEF ApprovalRow
  <2> QED
    BY <2>1 DEF RecoverApply, TypeOK, StoreTypeOK
<1>3. [job[w] EXCEPT !.pc = "looking"] \in Job
  BY DEF TypeOK, WorkerTypeOK, Job, Phase
<1>4. job' \in [Workers -> Job] /\ scan' \in [Workers -> Scan]
  BY <1>3, NoScanType DEF RecoverApply, TypeOK, WorkerTypeOK
<1> QED
  BY <1>1, <1>2, <1>4

(* What claim() reads has its type.                                         *)
LEMMA ClaimScanType ==
  ASSUME TypeOK, NEW w \in Workers, ClaimScan(w)
  PROVE  job' \in [Workers -> Job]
<1>1. [job[w] EXCEPT !.pc = "claiming", !.todo = Candidates] \in Job
  BY DEF TypeOK, WorkerTypeOK, Job, Phase, Candidates, Selectable
<1> QED
  BY <1>1, IdleJobType DEF ClaimScan, TypeOK, WorkerTypeOK

(* A fresh token is on no row, with no worker and in nobody's scan.        *)
LEMMA FreshIsNew ==
  ASSUME FreshTokens # {}, NEW t, t = CHOOSE u \in FreshTokens : TRUE
  PROVE  /\ t \in Tokens /\ t # None
         /\ \A r \in Runs : run[r].lease_token # t
         /\ \A w \in Workers : job[w].token # t /\ \A e \in scan[w].leases : e.token # t
BY NullAssumption DEF FreshTokens

(* What claim() writes has its type.                                        *)
LEMMA ClaimType ==
  ASSUME TypeOK, NEW w \in Workers, NEW r \in Runs, NEW t \in Tokens, Claim(w, r, t)
  PROVE  run' \in [Runs -> RunRow] /\ job' \in [Workers -> Job]
<1>1. [run[r] EXCEPT !.status = "running", !.lease_token = t, !.lapsed = FALSE] \in RunRow
  BY ZenonT(40) DEF TypeOK, StoreTypeOK, RunRow, Status, Active
<1>2. [job[w] EXCEPT !.pc = "claimed", !.run = r, !.token = t, !.todo = {}] \in Job
  BY DEF TypeOK, WorkerTypeOK, Job, Phase
<1> QED
  BY <1>1, <1>2 DEF Claim, TypeOK, StoreTypeOK, WorkerTypeOK

(* So has what it does with one candidate.                                  *)
LEMMA ClaimTryType ==
  ASSUME TypeOK, NEW w \in Workers, ClaimTry(w)
  PROVE  run' \in [Runs -> RunRow] /\ job' \in [Workers -> Job]
<1>1. PICK r \in job[w].todo :
        \/ Claims(r) /\ FreshTokens # {} /\ Claim(w, r, CHOOSE t \in FreshTokens : TRUE)
        \/ ~Claims(r) /\ job' = [job EXCEPT ![w] = PassOver(w, r)] /\ run' = run
  BY DEF ClaimTry
<1>2. r \in Runs
  BY DEF TypeOK, WorkerTypeOK, Job
<1>3. CASE Claims(r) /\ FreshTokens # {} /\ Claim(w, r, CHOOSE t \in FreshTokens : TRUE)
  BY <1>2, <1>3, FreshIsNew, ClaimType
<1>4. CASE ~Claims(r) /\ job' = [job EXCEPT ![w] = PassOver(w, r)] /\ run' = run
  <2>1. [job[w] EXCEPT !.todo = @ \ {r}] \in Job
    BY DEF TypeOK, WorkerTypeOK, Job
  <2>2. PassOver(w, r) \in Job
    BY <2>1, IdleJobType DEF PassOver
  <2> QED
    BY <1>4, <2>2 DEF TypeOK, StoreTypeOK, WorkerTypeOK
<1> QED
  BY <1>1, <1>3, <1>4

(* The rows that prepare() and finish() write.                             *)
LEMMA OutcomeTypes ==
  ASSUME TypeOK, CursorFollowsOutputs, NEW r \in Runs, run[r].status = "running"
  PROVE  /\ BlockedRow(r) \in RunRow
         /\ CancelledRow(r) \in RunRow
         /\ SkippedRow(r) \in RunRow
         /\ WaitingRow(r) \in RunRow
         /\ StartedRow(r) \in RunRow
         /\ \A retryable \in BOOLEAN : FailedRow(r, retryable) \in RunRow
         /\ \A output \in Output : SucceededRow(r, output) \in RunRow
<1>1. run[r] \in RunRow
  BY DEF TypeOK, StoreTypeOK
<1>2. BlockedRow(r) \in RunRow
  BY <1>1, ReleaseType DEF BlockedRow, Status, Terminal, Kinds
<1>3. CancelledRow(r) \in RunRow
  <2>1. run[r].last_event \in Kinds
    BY <1>1 DEF RunRow
  <2> QED
    BY <1>1, <2>1, ReleaseType DEF CancelledRow, Status, Terminal
<1>4. SkippedRow(r) \in RunRow
  <2>1. \A status \in {"completed", "queued"}, kind \in {"workflow.completed", "step.skipped"} :
          Release(run[r], status, kind) \in RunRow
    BY <1>1, ReleaseType DEF Status, Terminal, Active, Waiting, Claimable, Kinds
  <2>2. Absent \in Output
    BY DEF Output
  <2> QED
    BY <2>1, <2>2, AdvanceType DEF SkippedRow
<1>5. WaitingRow(r) \in RunRow
  BY <1>1, ReleaseType DEF WaitingRow, Status, Active, Waiting, Kinds
<1>6. StartedRow(r) \in RunRow
  <2>1. ContractAt(r).cost \in Nat
    BY StandsAtStep DEF ContractRow, Active
  <2>2. \A tools, attempts, cost \in Nat :
          [run[r] EXCEPT !.tool_calls = tools, !.attempts = attempts, !.cost = cost,
                         !.last_event = "step.started"] \in RunRow
    BY <1>1 DEF RunRow, Kinds
  <2>3. /\ run[r].tool_calls + 1 \in Nat /\ run[r].attempts + 1 \in Nat
        /\ run[r].cost + ContractAt(r).cost \in Nat
    BY <1>1, <2>1, SMTT(20) DEF RunRow
  <2> QED
    BY <2>2, <2>3 DEF StartedRow
<1>7. ASSUME NEW retryable \in BOOLEAN PROVE FailedRow(r, retryable) \in RunRow
  <2>1. FailedStatus(r, retryable) \in Status
    BY DEF FailedStatus, Status, Terminal, Active, Waiting, Claimable
  <2>2. Release(run[r], FailedStatus(r, retryable), "step.failed") \in RunRow
    BY <1>1, <2>1, ReleaseType DEF Kinds
  <2>3. \A row \in RunRow : [row EXCEPT !.due = FALSE] \in RunRow
    BY DEF RunRow
  <2> QED
    BY <2>2, <2>3 DEF FailedRow
<1>8. ASSUME NEW output \in Output PROVE SucceededRow(r, output) \in RunRow
  <2>1. SucceededStatus(r) \in Status
    BY DEF SucceededStatus, Status, Terminal, Active, Waiting, Claimable
  <2>2. \A kind \in {"workflow.completed", "step.completed"} :
          Release(run[r], SucceededStatus(r), kind) \in RunRow
    BY <1>1, <2>1, ReleaseType DEF Kinds
  <2> QED
    BY <2>2, AdvanceType DEF SucceededRow
<1> QED
  BY <1>2, <1>3, <1>4, <1>5, <1>6, <1>7, <1>8

(* What prepare() writes when it stops has its type.                        *)
LEMMA PrepareStopType ==
  ASSUME TypeOK, JobsHold, CursorFollowsOutputs, NEW w \in Workers, PrepareStop(w)
  PROVE  run' \in [Runs -> RunRow] /\ approval' \in [Runs \X StepIds -> ApprovalRow]
         /\ job' \in [Workers -> Job]
<1> DEFINE r == job[w].run
<1>1. r \in Runs
  BY DEF PrepareStop, JobsHold
<1>2. job' \in [Workers -> Job]
  BY IdleJobType DEF PrepareStop, TypeOK, WorkerTypeOK
<1>3. CASE ~Fenced(w) /\ UNCHANGED <<run, approval>>
  BY <1>2, <1>3 DEF TypeOK, StoreTypeOK
<1>4. CASE Fenced(w)
  <2>1. run[r].status = "running"
    BY <1>4 DEF Fenced
  <2>2. /\ BlockedRow(r) \in RunRow /\ CancelledRow(r) \in RunRow
        /\ SkippedRow(r) \in RunRow /\ WaitingRow(r) \in RunRow
    BY <1>1, <2>1, OutcomeTypes
  <2>3. \E row \in RunRow : run' = [run EXCEPT ![r] = row]
    BY <1>4, <2>2 DEF PrepareStop
  <2>4. run' \in [Runs -> RunRow]
    BY <2>3 DEF TypeOK, StoreTypeOK
  <2>5. ActionAt(r) \in Action
    <3>1. At(r) \in 1 .. Len(Steps(r))
      BY <1>1, <2>1, StandsAtStep DEF Active
    <3>2. StepAt(r).capability \in Capabilities
      BY <1>1, <3>1, PlanStep DEF StepAt, Step
    <3>3. run[r] \in RunRow
      BY <1>1 DEF TypeOK, StoreTypeOK
    <3> QED
      BY <3>2, <3>3 DEF ActionAt, Action, RunRow
  <2>6. [status |-> "pending", action |-> ActionAt(r), lapsed |-> run[r].overdue,
         reviewer |-> None] \in ApprovalRow
    <3>1. run[r].overdue \in BOOLEAN
      BY <1>1 DEF TypeOK, StoreTypeOK, RunRow
    <3> QED
      BY <2>5, <3>1 DEF ApprovalRow
  <2>7. approval' \in [Runs \X StepIds -> ApprovalRow]
    BY <1>4, <2>6 DEF PrepareStop, TypeOK, StoreTypeOK
  <2> QED
    BY <1>2, <2>4, <2>7
<1> QED
  BY <1>3, <1>4 DEF PrepareStop

(* What prepare() writes when it reserves the call has its type.            *)
LEMMA PrepareStartType ==
  ASSUME TypeOK, JobsHold, CursorFollowsOutputs, NEW w \in Workers, PrepareStart(w)
  PROVE  run' \in [Runs -> RunRow] /\ job' \in [Workers -> Job]
<1> DEFINE r == job[w].run
<1>1. r \in Runs /\ run[r].status = "running"
  BY DEF PrepareStart, JobsHold, Fenced
<1>2. StartedRow(r) \in RunRow
  BY <1>1, OutcomeTypes
<1>3. At(r) \in Nat
  BY <1>1, StandsAtStep DEF Active
<1>4. [job[w] EXCEPT !.pc = "prepared", !.step = At(r)] \in Job
  BY <1>3 DEF TypeOK, WorkerTypeOK, Job, Phase
<1> QED
  BY <1>2, <1>4 DEF PrepareStart, TypeOK, StoreTypeOK, WorkerTypeOK

(* A call is counted.                                                       *)
LEMMA CallType ==
  ASSUME TypeOK, JobsHold, NEW w \in Workers, Call(w)
  PROVE  calls' \in [Runs \X StepIds -> Nat] /\ job' \in [Workers -> Job]
<1> DEFINE p == <<job[w].run, job[w].step>>
<1>1. p \in Runs \X StepIds
  BY PlanStep DEF Call, JobsHold
<1>2. calls[p] + 1 \in Nat
  BY <1>1 DEF TypeOK, StoreTypeOK
<1>3. [job[w] EXCEPT !.pc = "calling"] \in Job
  BY DEF TypeOK, WorkerTypeOK, Job, Phase
<1> QED
  BY <1>2, <1>3 DEF Call, TypeOK, StoreTypeOK, WorkerTypeOK

(* What finish() writes has its type.                                       *)
LEMMA FinishType ==
  ASSUME TypeOK, JobsHold, CursorFollowsOutputs, NEW w \in Workers,
         \/ \E retryable \in BOOLEAN : FinishError(w, retryable)
         \/ \E output \in Output : FinishOutput(w, output)
  PROVE  run' \in [Runs -> RunRow] /\ job' \in [Workers -> Job]
<1> DEFINE r == job[w].run
<1>1. r \in Runs
  BY DEF FinishError, FinishOutput, JobsHold
<1>2. run' = run \/ (Fenced(w) /\ \E row \in RunRow : run' = [run EXCEPT ![r] = row])
  <2>1. Fenced(w) => run[r].status = "running"
    BY DEF Fenced
  <2> QED
    BY <1>1, <2>1, OutcomeTypes DEF FinishError, FinishOutput
<1>3. job' = [job EXCEPT ![w] = IdleJob]
  BY DEF FinishError, FinishOutput
<1> QED
  BY <1>2, <1>3, IdleJobType DEF TypeOK, StoreTypeOK, WorkerTypeOK

(* A worker's step keeps the types.                                        *)
LEMMA WorkType ==
  ASSUME TypeOK, JobsHold, CursorFollowsOutputs, LeaseIffRunning, Work
  PROVE  TypeOK'
<1>1. PICK w \in Workers : (Tick(w) \/ Crash(w) \/ Restart(w)) /\ UNCHANGED desk
  BY DEF Work
<1>2. CASE RecoverScan(w)
  BY <1>1, <1>2, RecoverScanType
     DEF RecoverScan, storeVars, TypeOK, StoreTypeOK, WorkerTypeOK, ServiceTypeOK
<1>3. CASE RecoverApply(w)
  BY <1>1, <1>3, RecoverApplyType
     DEF RecoverApply, TypeOK, StoreTypeOK, WorkerTypeOK, ServiceTypeOK
<1>4. CASE ClaimScan(w)
  BY <1>1, <1>4, ClaimScanType
     DEF ClaimScan, storeVars, TypeOK, StoreTypeOK, WorkerTypeOK, ServiceTypeOK
<1>5. CASE ClaimTry(w)
  BY <1>1, <1>5, ClaimTryType
     DEF ClaimTry, TypeOK, StoreTypeOK, WorkerTypeOK, ServiceTypeOK
<1>6. CASE PrepareStop(w)
  BY <1>1, <1>6, PrepareStopType
     DEF PrepareStop, TypeOK, StoreTypeOK, WorkerTypeOK, ServiceTypeOK
<1>7. CASE PrepareStart(w)
  BY <1>1, <1>7, PrepareStartType
     DEF PrepareStart, TypeOK, StoreTypeOK, WorkerTypeOK, ServiceTypeOK
<1>8. CASE Call(w)
  BY <1>1, <1>8, CallType
     DEF Call, TypeOK, StoreTypeOK, WorkerTypeOK, ServiceTypeOK
<1>9. CASE \/ \E retryable \in BOOLEAN : FinishError(w, retryable)
           \/ \E output \in Output : FinishOutput(w, output)
  BY <1>1, <1>9, FinishType
     DEF FinishError, FinishOutput, TypeOK, StoreTypeOK, WorkerTypeOK, ServiceTypeOK
<1>10. CASE Crash(w)
  BY <1>1, <1>10, IdleJobType, NoScanType
     DEF Crash, storeVars, TypeOK, StoreTypeOK, WorkerTypeOK, ServiceTypeOK
<1>11. CASE Restart(w)
  BY <1>1, <1>11, IdleJobType
     DEF Restart, storeVars, TypeOK, StoreTypeOK, WorkerTypeOK, ServiceTypeOK
<1> QED
  BY <1>1, <1>2, <1>3, <1>4, <1>5, <1>6, <1>7, <1>8, <1>9, <1>10, <1>11 DEF Tick

(* A request keeps the types.                                              *)
LEMMA ServeType ==
  ASSUME TypeOK, CursorFollowsOutputs, Serve
  PROVE  TypeOK'
<1> USE DEF TypeOK, StoreTypeOK, WorkerTypeOK, ServiceTypeOK
<1>1. ASSUME NEW r \in Runs, Submit(r) PROVE TypeOK'
  <2>1. [NoRun EXCEPT !.status = "queued", !.fingerprint = catalog,
                      !.last_event = "workflow.submitted"] \in RunRow
    <3>1. NoRun \in RunRow
      BY DEF NoRun, RunRow, Status, Kinds
    <3>2. \A row \in RunRow, f \in [Capabilities -> Nat] :
            [row EXCEPT !.status = "queued", !.fingerprint = f,
                        !.last_event = "workflow.submitted"] \in RunRow
      BY ZenonT(40) DEF RunRow, Status, Active, Waiting, Claimable, Kinds
    <3> QED
      BY <3>1, <3>2
  <2> QED
    BY <1>1, <2>1 DEF Serve, Submit
<1>2. ASSUME NEW p \in People, NEW r \in Runs, Cancel(p, r) PROVE TypeOK'
  <2>1. CancelledNow(run[r]) \in RunRow
    <3>1. \A row \in RunRow, status \in Status :
            [row EXCEPT !.cancel_requested = TRUE, !.status = status,
                        !.last_event = "workflow.cancellation_requested"] \in RunRow
      BY DEF RunRow, Kinds
    <3>2. run[r] \in RunRow /\ run[r].status \in Status /\ "cancelled" \in Status
      BY DEF RunRow, Status, Terminal
    <3> QED
      BY <3>1, <3>2 DEF CancelledNow
  <2>2. \A a \in ApprovalRow : [a EXCEPT !.status = "cancelled"] \in ApprovalRow
    BY DEF ApprovalRow
  <2> QED
    BY <1>2, <2>1, <2>2 DEF Serve, Cancel
<1>3. ASSUME NEW p \in People, NEW r \in Runs, NEW i \in StepIds, NEW allow \in BOOLEAN,
             ReviewRead(p, r, i, allow)
      PROVE  TypeOK'
  BY <1>3 DEF Serve, ReviewRead, storeVars, Decision
<1>4. ASSUME NEW p \in People, ReviewWrite(p) PROVE TypeOK'
  <2> DEFINE r == desk[p].run
             i == desk[p].step
  <2>1. desk[p] \in Decision
    BY <1>4 DEF ReviewWrite
  <2>2. r \in Runs /\ i \in StepIds /\ desk[p].allow \in BOOLEAN
    BY <2>1 DEF Decision
  <2>3. DecidedRun(run[r], desk[p].allow) \in RunRow
    <3>1. \A row \in RunRow, status \in Status :
            [row EXCEPT !.status = status, !.last_event = "approval.decided"] \in RunRow
      BY DEF RunRow, Kinds
    <3>2. "queued" \in Status /\ "rejected" \in Status
      BY DEF Status, Terminal, Active, Waiting, Claimable
    <3>3. run[r] \in RunRow
      BY <2>2
    <3>4. /\ [run[r] EXCEPT !.status = "queued", !.last_event = "approval.decided"] \in RunRow
          /\ [run[r] EXCEPT !.status = "rejected", !.last_event = "approval.decided"] \in RunRow
      BY <3>1, <3>2, <3>3
    <3>5. CASE desk[p].allow
      BY <3>4, <3>5 DEF DecidedRun
    <3>6. CASE ~desk[p].allow
      BY <3>4, <3>6 DEF DecidedRun
    <3> QED
      BY <3>5, <3>6
  <2>4. \A a \in ApprovalRow, allow \in BOOLEAN : DecidedApproval(a, p, allow) \in ApprovalRow
    <3>1. \A a \in ApprovalRow, s \in {"approved", "rejected"} :
            [a EXCEPT !.status = s, !.reviewer = p] \in ApprovalRow
      BY DEF ApprovalRow
    <3> QED
      BY <3>1 DEF DecidedApproval
  <2>5. run' \in [Runs -> RunRow]
    BY <1>4, <2>2, <2>3 DEF ReviewWrite
  <2>6. approval' \in [Runs \X StepIds -> ApprovalRow]
    BY <1>4, <2>2, <2>4 DEF ReviewWrite
  <2> QED
    BY <1>4, <2>5, <2>6 DEF Serve, ReviewWrite
<1>5. ASSUME NEW p \in People, NEW r \in Runs, Reconcile(p, r) PROVE TypeOK'
  <2>1. \A status \in Status : Settled(r, status) \in RunRow
    <3>1. \A row \in RunRow, status \in Status, kind \in Kinds :
            [row EXCEPT !.status = status, !.last_event = kind] \in RunRow
      BY DEF RunRow
    <3>2. run[r] \in RunRow /\ "step.reconciled" \in Kinds
      BY DEF Kinds
    <3> QED
      BY <3>1, <3>2 DEF Settled
  <2>2. \A output \in Output : ConfirmedRow(r, output) \in RunRow
    BY <2>1, AdvanceType
       DEF ConfirmedRow, Status, Terminal, Active, Waiting, Claimable
  <2>3. \E row \in RunRow : run' = [run EXCEPT ![r] = row]
    BY <1>5, <2>1, <2>2 DEF Reconcile, Status, Terminal
  <2> QED
    BY <1>5, <2>3 DEF Serve, Reconcile
<1>6. ASSUME NEW p \in People, ChangeAccess(p) PROVE TypeOK'
  BY <1>6 DEF Serve, ChangeAccess
<1>7. ASSUME NEW c \in Capabilities, Register(c) PROVE TypeOK'
  BY <1>7 DEF Serve, Register
<1> HIDE DEF TypeOK, StoreTypeOK, WorkerTypeOK, ServiceTypeOK
<1> QED
  BY <1>1, <1>2, <1>3, <1>4, <1>5, <1>6, <1>7 DEF Serve, Request

(* Time keeps the types.                                                   *)
LEMMA ClockType ==
  ASSUME TypeOK, Clock
  PROVE  TypeOK'
<1> USE DEF TypeOK, StoreTypeOK, WorkerTypeOK, ServiceTypeOK
<1>1. \A row \in RunRow : /\ [row EXCEPT !.lapsed = TRUE] \in RunRow
                          /\ [row EXCEPT !.due = TRUE] \in RunRow
                          /\ [row EXCEPT !.overdue = TRUE] \in RunRow
  BY DEF RunRow
<1>2. \A a \in ApprovalRow : [a EXCEPT !.lapsed = TRUE] \in ApprovalRow
  BY DEF ApprovalRow
<1>3. ASSUME NEW r \in Runs, LeaseLapses(r) \/ BackoffElapses(r) PROVE TypeOK'
  <2>1. PICK row \in RunRow : run' = [run EXCEPT ![r] = row]
    BY <1>1, <1>3 DEF LeaseLapses, BackoffElapses
  <2>2. run' \in [Runs -> RunRow]
    BY <2>1
  <2>3. UNCHANGED <<approval, access, catalog, calls, job, scan, desk>>
    BY <1>3 DEF Clock, LeaseLapses, BackoffElapses
  <2> QED
    BY <2>2, <2>3
<1>4. ASSUME NEW r \in Runs, DeadlinePasses(r) PROVE TypeOK'
  BY <1>1, <1>2, <1>4 DEF Clock, DeadlinePasses
<1>5. ASSUME NEW r \in Runs, NEW i \in StepIds, ApprovalLapses(r, i) PROVE TypeOK'
  BY <1>2, <1>5 DEF Clock, ApprovalLapses
<1> QED
  BY <1>3, <1>4, <1>5 DEF Clock

(* Every step keeps the types.                                             *)
LEMMA TypeStep ==
  ASSUME IInv, [Next]_vars
  PROVE  TypeOK'
<1>1. CASE Work
  BY <1>1, WorkType DEF IInv
<1>2. CASE Serve
  BY <1>2, ServeType DEF IInv
<1>3. CASE Clock
  BY <1>3, ClockType DEF IInv
<1>4. CASE UNCHANGED vars
  BY <1>4 DEF vars, IInv, TypeOK, StoreTypeOK, WorkerTypeOK, ServiceTypeOK
<1> QED
  BY <1>1, <1>2, <1>3, <1>4 DEF Next
-----------------------------------------------------------------------------

Holding == {"claimed", "prepared", "calling"}

(* What a step does to a row.                                              *)
Stays(r) ==
  /\ run'[r].status = run[r].status /\ run'[r].cursor = run[r].cursor
  /\ run'[r].outputs = run[r].outputs /\ run'[r].attempts = run[r].attempts
  /\ run'[r].lease_token = run[r].lease_token
  /\ run[r].lapsed => run'[r].lapsed
  /\ run[r].status = "none" => run'[r] = run[r]

Leaves(r) ==
  /\ run'[r].cursor = run[r].cursor /\ run'[r].outputs = run[r].outputs
  /\ run'[r].attempts = run[r].attempts /\ run'[r].lease_token = None
  /\ run'[r].status \notin {"none", "running", "completed"}
  /\ run'[r].status \in Active \cup {"needs_reconciliation"} =>
       run[r].status \in Active \cup {"needs_reconciliation"}
  /\ run'[r].status \in Waiting /\ At(r) <= Len(Steps(r)) /\ Effectful(r, At(r)) =>
       run[r].attempts = 0

Advances(r) ==
  /\ run[r].cursor < Len(Steps(r))
  /\ run'[r].cursor = run[r].cursor + 1 /\ run'[r].attempts = 0
  /\ Len(run'[r].outputs) = Len(run[r].outputs) + 1
  /\ run'[r].lease_token = None
  /\ \/ run'[r].status = "completed" /\ run[r].cursor + 1 = Len(Steps(r))
     \/ run'[r].status = "queued" /\ run[r].cursor + 1 # Len(Steps(r))
     \/ run'[r].status = "cancelled"

Appears(r) ==
  /\ run[r].status = "none" /\ run'[r].status = "queued"
  /\ run'[r].cursor = 0 /\ run'[r].outputs = <<>> /\ run'[r].attempts = 0
  /\ run'[r].lease_token = None

Moves(r) == Stays(r) \/ Leaves(r) \/ Advances(r) \/ Appears(r)

(* What a step does to a worker's job and to its scan.                     *)
SameJob(w) ==
  /\ job'[w].pc = job[w].pc /\ job'[w].run = job[w].run
  /\ job'[w].step = job[w].step /\ job'[w].token = job[w].token

LetsGo(w) == job'[w].pc \notin Holding /\ job'[w].token = None

Keeps(w) == SameJob(w) \/ LetsGo(w)

ReadsLease(e) ==
  /\ run[e.run].lease_token = e.token /\ run[e.run].lapsed
  /\ e.status = LapseVerdict(e.run)
  /\ run' = run

KeepsScan(w) == \A e \in scan'[w].leases : e \in scan[w].leases \/ ReadsLease(e)

Ordinary ==
  /\ \A r \in Runs : Moves(r)
  /\ \A w \in Workers : Keeps(w) /\ KeepsScan(w)
  /\ calls' = calls

-----------------------------------------------------------------------------
(* Ordinary steps preserve the invariant.                                  *)

(* After an ordinary step workers hold what their phase says.               *)
LEMMA OrdinaryJobs ==
  ASSUME IInv, Ordinary
  PROVE  JobsHold' /\ UntouchedBefore'
<1>1. JobsHold'
  <2> SUFFICES ASSUME NEW w \in Workers
               PROVE  /\ job'[w].pc \in Holding => job'[w].run \in Runs /\ job'[w].token \in Tokens
                      /\ job'[w].pc \notin Holding => job'[w].token = None
                      /\ job'[w].pc \in {"prepared", "calling"} =>
                           job'[w].step \in 1 .. Len(Steps(job'[w].run))
    BY DEF JobsHold, Holding, Steps
  <2>1. CASE SameJob(w)
    BY <2>1 DEF SameJob, IInv, JobsHold, Holding
  <2>2. CASE LetsGo(w)
    BY <2>2 DEF LetsGo, Holding
  <2> QED
    BY <2>1, <2>2 DEF Ordinary, Keeps
<1>2. UntouchedBefore'
  <2> SUFFICES ASSUME NEW r \in Runs, run'[r].status = "none" PROVE run'[r] = NoRun
    BY DEF UntouchedBefore, NoRun
  <2>1. Moves(r)
    BY DEF Ordinary
  <2>2. Stays(r)
    BY <2>1 DEF Moves, Leaves, Advances, Appears
  <2> QED
    BY <2>2 DEF Stays, IInv, UntouchedBefore
<1> QED
  BY <1>1, <1>2

(* After an ordinary step the cursor follows the outputs.                   *)
LEMMA OrdinaryCursor ==
  ASSUME IInv, Ordinary
  PROVE  CursorFollowsOutputs'
<1> SUFFICES ASSUME NEW r \in Runs
             PROVE  /\ Len(run'[r].outputs) = run'[r].cursor
                    /\ run'[r].status = "completed" => run'[r].cursor = Len(Steps(r))
                    /\ run'[r].status \in Active \cup {"needs_reconciliation"} =>
                         run'[r].cursor < Len(Steps(r))
  BY DEF CursorFollowsOutputs, Steps
<1>1. /\ Len(run[r].outputs) = run[r].cursor
      /\ run[r].status = "completed" => run[r].cursor = Len(Steps(r))
      /\ run[r].status \in Active \cup {"needs_reconciliation"} => run[r].cursor < Len(Steps(r))
      /\ run[r].cursor \in Nat
      /\ Len(Steps(r)) \in Nat /\ Len(Steps(r)) > 0
  BY MissionAssumption DEF IInv, CursorFollowsOutputs, TypeOK, StoreTypeOK, RunRow, Steps
<1>2. CASE Stays(r)
  BY <1>1, <1>2 DEF Stays
<1>3. CASE Leaves(r)
  BY <1>1, <1>3 DEF Leaves
<1>4. CASE Advances(r)
  BY <1>1, <1>4 DEF Advances, Active, Waiting, Claimable
<1>5. CASE Appears(r)
  BY <1>1, <1>5 DEF Appears
<1> QED
  BY <1>2, <1>3, <1>4, <1>5 DEF Ordinary, Moves

(* Whoever lets a row go clears its lease, and nobody gets one.            *)
LEMMA OrdinaryLeases ==
  ASSUME IInv, Ordinary
  PROVE  LeaseIffRunning'
<1>1. ASSUME NEW r \in Runs
      PROVE  /\ run'[r].status = "running" <=> run'[r].lease_token # None
             /\ run'[r].lease_token \in {run[r].lease_token, None}
  <2>1. run[r].status = "running" <=> run[r].lease_token # None
    BY DEF IInv, LeaseIffRunning
  <2>2. CASE Stays(r)
    BY <2>1, <2>2 DEF Stays
  <2>3. CASE Leaves(r)
    BY <2>3 DEF Leaves
  <2>4. CASE Advances(r)
    BY <2>4 DEF Advances
  <2>5. CASE Appears(r)
    BY <2>5 DEF Appears
  <2> QED
    BY <2>2, <2>3, <2>4, <2>5 DEF Ordinary, Moves
<1>2. \A w \in Workers : job'[w].token \in {job[w].token, None}
  BY DEF Ordinary, Keeps, SameJob, LetsGo
<1>3. \A q, r \in Runs : run[q].lease_token = run[r].lease_token => q = r \/ run[r].lease_token = None
  BY DEF IInv, LeaseIffRunning
<1>4. \A v, w \in Workers : job[v].token = job[w].token => v = w \/ job[v].token = None
  BY DEF IInv, LeaseIffRunning
<1>5. \A q, r \in Runs : run'[q].lease_token = run'[r].lease_token => q = r \/ run'[r].lease_token = None
  BY <1>1, <1>3
<1>6. \A v, w \in Workers : job'[v].token = job'[w].token => v = w \/ job'[v].token = None
  BY <1>2, <1>4
<1> QED
  BY <1>1, <1>5, <1>6 DEF LeaseIffRunning

(* After an ordinary step a verdict that may still be written stands.       *)
LEMMA OrdinaryVerdicts ==
  ASSUME IInv, Ordinary
  PROVE  VerdictsStand'
<1> SUFFICES ASSUME NEW w \in Workers, NEW e \in scan'[w].leases
             PROVE  /\ e.status \in {"needs_reconciliation", "cancelled", "retry_wait", "failed"}
                    /\ run'[e.run].lease_token = e.token
                       /\ Effectful(e.run, run'[e.run].cursor + 1) =>
                         e.status = "needs_reconciliation"
  BY DEF VerdictsStand, At, Effectful, ContractOf, Steps
<1>1. e \in scan[w].leases \/ ReadsLease(e)
  BY DEF Ordinary, KeepsScan
<1>2. CASE ReadsLease(e)
  BY <1>2 DEF ReadsLease, LapseVerdict, At
<1>3. CASE e \in scan[w].leases
  <2>1. e.run \in Runs /\ e.token \in Tokens
    BY <1>3 DEF IInv, TypeOK, WorkerTypeOK, Scan, LapsedLease
  <2>2. e.token # None
    BY <2>1, NullAssumption
  <2>3. Moves(e.run)
    BY <2>1 DEF Ordinary
  <2>4. run'[e.run].lease_token = e.token => Stays(e.run)
    BY <2>2, <2>3 DEF Moves, Leaves, Advances, Appears
  <2>5. run'[e.run].lease_token = e.token =>
          run[e.run].lease_token = e.token /\ run'[e.run].cursor = run[e.run].cursor
    BY <2>4 DEF Stays
  <2> QED
    BY <1>3, <2>5 DEF IInv, VerdictsStand, At
<1> QED
  BY <1>1, <1>2, <1>3

(* After an ordinary step a counted effect cannot be reserved again.        *)
LEMMA OrdinaryReservation ==
  ASSUME IInv, Ordinary
  PROVE  EffectReservedOnce'
<1> SUFFICES ASSUME NEW r \in Runs, run'[r].cursor + 1 <= Len(Steps(r)),
                    Effectful(r, run'[r].cursor + 1)
             PROVE  /\ run'[r].status \in Waiting => run'[r].attempts = 0
                    /\ \A w \in Workers :
                         job'[w].pc = "claimed" /\ job'[w].run = r
                         /\ job'[w].token = run'[r].lease_token => run'[r].attempts = 0
  BY DEF EffectReservedOnce, At, Effectful, ContractOf, Steps
<1>1. \A w \in Workers : job'[w].pc = "claimed" =>
        SameJob(w) /\ job'[w].token # None
  BY NullAssumption DEF Ordinary, Keeps, LetsGo, Holding, SameJob, IInv, JobsHold
<1>2. CASE Stays(r)
  BY <1>1, <1>2 DEF Stays, SameJob, IInv, EffectReservedOnce, At
<1>3. CASE Leaves(r)
  BY <1>1, <1>3 DEF Leaves, At
<1>4. CASE Advances(r)
  BY <1>4 DEF Advances
<1>5. CASE Appears(r)
  BY <1>5 DEF Appears
<1> QED
  BY <1>2, <1>3, <1>4, <1>5 DEF Ordinary, Moves

(* After an ordinary step a reserved effect is asked for once at most.      *)
LEMMA OrdinaryCalls ==
  ASSUME IInv, Ordinary
  PROVE  ReservedThenCalled'
<1> SUFFICES ASSUME NEW r \in Runs, NEW i \in 1 .. Len(Steps(r)), Effectful(r, i)
             PROVE  /\ calls'[<<r, i>>] <= 1
                    /\ \A w \in Workers : Armed(w, r, i)' =>
                         /\ calls'[<<r, i>>] = 0
                         /\ \A v \in Workers : Armed(v, r, i)' => v = w
                    /\ i > run'[r].cursor + 1 \/ (i = run'[r].cursor + 1 /\ run'[r].attempts = 0) =>
                         /\ calls'[<<r, i>>] = 0
                         /\ \A w \in Workers : ~Armed(w, r, i)'
  BY DEF ReservedThenCalled, At, Effectful, ContractOf, Steps
<1>1. \A w \in Workers : Armed(w, r, i)' => Armed(w, r, i)
  BY DEF Ordinary, Keeps, SameJob, LetsGo, Holding, Armed
<1>2. calls' = calls
  BY DEF Ordinary
<1>3. i > run'[r].cursor + 1 \/ (i = run'[r].cursor + 1 /\ run'[r].attempts = 0) =>
        i > At(r) \/ (i = At(r) /\ run[r].attempts = 0)
  <2>1. run[r].cursor \in Nat /\ i \in Nat
    BY DEF IInv, TypeOK, StoreTypeOK, RunRow
  <2>2. CASE Stays(r)
    BY <2>2 DEF Stays, At
  <2>3. CASE Leaves(r)
    BY <2>3 DEF Leaves, At
  <2>4. CASE Advances(r)
    BY <2>1, <2>4 DEF Advances, At
  <2>5. CASE Appears(r)
    BY <2>5 DEF Appears, IInv, UntouchedBefore, NoRun, At
  <2> QED
    BY <2>2, <2>3, <2>4, <2>5 DEF Ordinary, Moves
<1> QED
  BY <1>1, <1>2, <1>3 DEF IInv, ReservedThenCalled

(* An ordinary step keeps the invariant.                                    *)
LEMMA OrdinaryStep ==
  ASSUME IInv, Ordinary, TypeOK'
  PROVE  IInv'
BY OrdinaryJobs, OrdinaryCursor, OrdinaryLeases, OrdinaryVerdicts,
   OrdinaryReservation, OrdinaryCalls DEF IInv

-----------------------------------------------------------------------------
(* The three other steps: a claim, a reservation and a request.            *)

(* claim() keeps the invariant: the token is fresh, the mission was         *)
(* waiting.                                                                 *)
LEMMA ClaimStep ==
  ASSUME IInv, TypeOK', NEW w \in Workers, NEW r \in Runs, Claims(r), FreshTokens # {},
         Claim(w, r, CHOOSE t \in FreshTokens : TRUE), UNCHANGED <<calls, scan>>
  PROVE  IInv'
<1> DEFINE t == CHOOSE u \in FreshTokens : TRUE
<1>1. /\ t \in Tokens /\ t # None
      /\ \A q \in Runs : run[q].lease_token # t
      /\ \A v \in Workers : job[v].token # t /\ \A e \in scan[v].leases : e.token # t
  BY FreshIsNew
<1> HIDE DEF t
<1>2. /\ run' = [run EXCEPT ![r] = [@ EXCEPT !.status = "running", !.lease_token = t,
                                             !.lapsed = FALSE]]
      /\ job' = [job EXCEPT ![w] = [@ EXCEPT !.pc = "claimed", !.run = r, !.token = t,
                                             !.todo = {}]]
  BY DEF Claim, t
<1>3. /\ run'[r].status = "running" /\ run'[r].lease_token = t
      /\ run'[r].cursor = run[r].cursor /\ run'[r].outputs = run[r].outputs
      /\ run'[r].attempts = run[r].attempts
      /\ \A q \in Runs \ {r} : run'[q] = run[q]
  BY <1>2 DEF IInv, TypeOK, StoreTypeOK, RunRow
<1>4. /\ job'[w].pc = "claimed" /\ job'[w].run = r /\ job'[w].token = t
      /\ \A v \in Workers \ {w} : job'[v] = job[v]
  BY <1>2 DEF IInv, TypeOK, WorkerTypeOK, Job
<1>5. JobsHold'
  BY <1>1, <1>4 DEF IInv, JobsHold, Steps
<1>6. UntouchedBefore'
  BY <1>3 DEF IInv, UntouchedBefore, NoRun
<1>7. CursorFollowsOutputs'
  <2>1. run[r].status \in Active
    BY DEF Claims, Active, Waiting
  <2> QED
    BY <1>3, <2>1 DEF IInv, CursorFollowsOutputs, Steps, Active
<1>8. LeaseIffRunning'
  BY <1>1, <1>3, <1>4 DEF IInv, LeaseIffRunning
<1>9. VerdictsStand'
  <2> SUFFICES ASSUME NEW v \in Workers, NEW e \in scan[v].leases
               PROVE  /\ e.status \in {"needs_reconciliation", "cancelled", "retry_wait", "failed"}
                      /\ run'[e.run].lease_token = e.token
                         /\ Effectful(e.run, run'[e.run].cursor + 1) =>
                           e.status = "needs_reconciliation"
    BY DEF VerdictsStand, At, Effectful, ContractOf, Steps
  <2>1. e.run \in Runs
    BY DEF IInv, TypeOK, WorkerTypeOK, Scan, LapsedLease
  <2>2. run'[e.run].lease_token = e.token => run'[e.run] = run[e.run]
    BY <1>1, <1>3, <2>1
  <2> QED
    BY <2>2 DEF IInv, VerdictsStand, At
<1>10. EffectReservedOnce'
  <2> SUFFICES ASSUME NEW q \in Runs, run'[q].cursor + 1 <= Len(Steps(q)),
                      Effectful(q, run'[q].cursor + 1)
               PROVE  /\ run'[q].status \in Waiting => run'[q].attempts = 0
                      /\ \A v \in Workers :
                           job'[v].pc = "claimed" /\ job'[v].run = q
                           /\ job'[v].token = run'[q].lease_token => run'[q].attempts = 0
    BY DEF EffectReservedOnce, At, Effectful, ContractOf, Steps
  <2>1. CASE q = r
    <3>1. run[r].attempts = 0
      BY <1>3, <2>1 DEF IInv, EffectReservedOnce, At, Claims, Waiting
    <3> QED
      BY <1>3, <2>1, <3>1
  <2>2. CASE q # r
    BY <1>3, <1>4, <2>2 DEF IInv, EffectReservedOnce, At
  <2> QED
    BY <2>1, <2>2
<1>11. ReservedThenCalled'
  <2> SUFFICES ASSUME NEW q \in Runs, NEW i \in 1 .. Len(Steps(q)), Effectful(q, i)
               PROVE  /\ calls[<<q, i>>] <= 1
                      /\ \A v \in Workers : Armed(v, q, i)' =>
                           /\ calls[<<q, i>>] = 0
                           /\ \A u \in Workers : Armed(u, q, i)' => u = v
                      /\ i > run'[q].cursor + 1 \/ (i = run'[q].cursor + 1 /\ run'[q].attempts = 0) =>
                           /\ calls[<<q, i>>] = 0
                           /\ \A v \in Workers : ~Armed(v, q, i)'
    BY DEF ReservedThenCalled, At, Effectful, ContractOf, Steps
  <2>1. \A v \in Workers : Armed(v, q, i)' => Armed(v, q, i)
    BY <1>4 DEF Armed
  <2>2. run'[q].cursor = run[q].cursor /\ run'[q].attempts = run[q].attempts
    BY <1>3
  <2> QED
    BY <2>1, <2>2 DEF IInv, ReservedThenCalled, At
<1> QED
  BY <1>5, <1>6, <1>7, <1>8, <1>9, <1>10, <1>11 DEF IInv

(* The lease fences the reservation: what EffectReservedOnce says of the   *)
(* worker that holds it makes the step's attempts and its requests zero.   *)
LEMMA PrepareStartStep ==
  ASSUME IInv, TypeOK', NEW w \in Workers, PrepareStart(w)
  PROVE  IInv'
<1> DEFINE r == job[w].run
<1>1. /\ r \in Runs /\ job[w].pc = "claimed" /\ job[w].token \in Tokens
      /\ run[r].status = "running" /\ run[r].lease_token = job[w].token
  BY DEF PrepareStart, Fenced, IInv, JobsHold
<1>2. At(r) \in 1 .. Len(Steps(r))
  BY <1>1, StandsAtStep DEF IInv, Active
<1>3. /\ run' = [run EXCEPT ![r] = StartedRow(r)]
      /\ job' = [job EXCEPT ![w] = [@ EXCEPT !.pc = "prepared", !.step = At(r)]]
      /\ UNCHANGED <<calls, scan>>
  BY DEF PrepareStart
<1> HIDE DEF r
<1>4. /\ run'[r].status = run[r].status /\ run'[r].cursor = run[r].cursor
      /\ run'[r].outputs = run[r].outputs /\ run'[r].lease_token = run[r].lease_token
      /\ run'[r].attempts = run[r].attempts + 1
      /\ \A q \in Runs \ {r} : run'[q] = run[q]
  BY <1>1, <1>3 DEF IInv, TypeOK, StoreTypeOK, RunRow, StartedRow
<1>5. /\ job'[w].pc = "prepared" /\ job'[w].run = r /\ job'[w].token = job[w].token
      /\ job'[w].step = At(r)
      /\ \A v \in Workers \ {w} : job'[v] = job[v]
  BY <1>1, <1>3 DEF IInv, TypeOK, WorkerTypeOK, Job, r
<1>6. JobsHold'
  BY <1>1, <1>2, <1>5 DEF IInv, JobsHold, Steps
<1>7. UntouchedBefore'
  BY <1>1, <1>4 DEF IInv, UntouchedBefore, NoRun
<1>8. CursorFollowsOutputs'
  BY <1>1, <1>4 DEF IInv, CursorFollowsOutputs, Steps
<1>9. LeaseIffRunning'
  <2>1. \A q \in Runs : run'[q].status = run[q].status /\ run'[q].lease_token = run[q].lease_token
    BY <1>4
  <2>2. \A v \in Workers : job'[v].token = job[v].token
    BY <1>5
  <2> QED
    BY <2>1, <2>2 DEF IInv, LeaseIffRunning
<1>10. VerdictsStand'
  <2>1. \A v \in Workers : \A e \in scan[v].leases : e.run \in Runs
    BY DEF IInv, TypeOK, WorkerTypeOK, Scan, LapsedLease
  <2>2. \A q \in Runs : run'[q].cursor = run[q].cursor /\ run'[q].lease_token = run[q].lease_token
    BY <1>4
  <2> QED
    BY <1>3, <2>1, <2>2, ZenonT(40) DEF IInv, VerdictsStand, At, Effectful, ContractOf, Steps
<1>11. EffectReservedOnce'
  <2> SUFFICES ASSUME NEW q \in Runs, run'[q].cursor + 1 <= Len(Steps(q)),
                      Effectful(q, run'[q].cursor + 1)
               PROVE  /\ run'[q].status \in Waiting => run'[q].attempts = 0
                      /\ \A v \in Workers :
                           job'[v].pc = "claimed" /\ job'[v].run = q
                           /\ job'[v].token = run'[q].lease_token => run'[q].attempts = 0
    BY DEF EffectReservedOnce, At, Effectful, ContractOf, Steps
  <2>1. CASE q = r
    <3>1. run'[q].status \notin Waiting
      BY <1>1, <1>4, <2>1 DEF Waiting, Claimable
    <3>2. ASSUME NEW v \in Workers, job'[v].pc = "claimed", job'[v].token = run'[q].lease_token
          PROVE  FALSE
      <4>1. v # w /\ job[v].token = job[w].token
        BY <1>1, <1>4, <1>5, <2>1, <3>2
      <4> QED
        BY <1>1, <4>1, NullAssumption DEF IInv, LeaseIffRunning
    <3> QED
      BY <3>1, <3>2
  <2>2. CASE q # r
    BY <1>4, <1>5, <2>2 DEF IInv, EffectReservedOnce, At
  <2> QED
    BY <2>1, <2>2
<1>12. ReservedThenCalled'
  <2> SUFFICES ASSUME NEW q \in Runs, NEW i \in 1 .. Len(Steps(q)), Effectful(q, i)
               PROVE  /\ calls[<<q, i>>] <= 1
                      /\ \A v \in Workers : Armed(v, q, i)' =>
                           /\ calls[<<q, i>>] = 0
                           /\ \A u \in Workers : Armed(u, q, i)' => u = v
                      /\ i > run'[q].cursor + 1 \/ (i = run'[q].cursor + 1 /\ run'[q].attempts = 0) =>
                           /\ calls[<<q, i>>] = 0
                           /\ \A v \in Workers : ~Armed(v, q, i)'
    BY <1>3 DEF ReservedThenCalled, At, Effectful, ContractOf, Steps
  <2>1. CASE q = r /\ i = At(r)
    <3>1. run[r].attempts = 0
      BY <1>1, <1>2, <2>1 DEF IInv, EffectReservedOnce, r
    <3>2. calls[<<q, i>>] = 0 /\ \A v \in Workers : ~Armed(v, q, i)
      BY <2>1, <3>1 DEF IInv, ReservedThenCalled
    <3>3. \A v \in Workers : Armed(v, q, i)' => v = w
      BY <1>5, <3>2 DEF Armed
    <3>4. ~(i > run'[q].cursor + 1) /\ run'[q].attempts # 0
      BY <1>2, <1>4, <2>1, <3>1 DEF At
    <3> QED
      BY <3>2, <3>3, <3>4
  <2>2. CASE q # r \/ i # At(r)
    <3>1. \A v \in Workers : Armed(v, q, i)' => Armed(v, q, i)
      BY <1>5, <2>2 DEF Armed
    <3>2. /\ run'[q].cursor = run[q].cursor
          /\ i = run'[q].cursor + 1 => run'[q].attempts = run[q].attempts
      BY <1>4, <2>2 DEF At
    <3> QED
      BY <3>1, <3>2 DEF IInv, ReservedThenCalled, At
  <2> QED
    BY <2>1, <2>2
<1> QED
  BY <1>6, <1>7, <1>8, <1>9, <1>10, <1>11, <1>12 DEF IInv

(* The request: the one worker armed with an effect uses its reservation.  *)
LEMMA CallStep ==
  ASSUME IInv, TypeOK', NEW w \in Workers, Call(w)
  PROVE  IInv'
<1> DEFINE p == <<job[w].run, job[w].step>>
<1>1. /\ job[w].pc = "prepared" /\ job[w].run \in Runs
      /\ job[w].step \in 1 .. Len(Steps(job[w].run))
  BY DEF Call, IInv, JobsHold
<1>2. p \in Runs \X StepIds
  BY <1>1, PlanStep
<1>3. run' = run /\ scan' = scan /\ calls' = [calls EXCEPT ![p] = @ + 1]
  BY DEF Call
<1>4. /\ job'[w].pc = "calling" /\ job'[w].run = job[w].run
      /\ job'[w].step = job[w].step /\ job'[w].token = job[w].token
      /\ \A v \in Workers \ {w} : job'[v] = job[v]
  BY DEF Call, IInv, TypeOK, WorkerTypeOK, Job
<1>5. JobsHold'
  BY <1>1, <1>4 DEF IInv, JobsHold, Steps
<1>6. UntouchedBefore' /\ CursorFollowsOutputs'
  BY <1>3 DEF IInv, UntouchedBefore, NoRun, CursorFollowsOutputs, Steps
<1>7. LeaseIffRunning'
  <2>1. \A v \in Workers : job'[v].token = job[v].token
    BY <1>4
  <2> QED
    BY <1>3, <2>1 DEF IInv, LeaseIffRunning
<1>8. VerdictsStand'
  BY <1>3 DEF IInv, VerdictsStand, At, Effectful, ContractOf, Steps
<1>9. EffectReservedOnce'
  <2>1. \A v \in Workers : job'[v].pc = "claimed" => job'[v] = job[v]
    BY <1>4
  <2> QED
    BY <1>3, <2>1 DEF IInv, EffectReservedOnce, At, Effectful, ContractOf, Steps
<1>10. ReservedThenCalled'
  <2> SUFFICES ASSUME NEW q \in Runs, NEW i \in 1 .. Len(Steps(q)), Effectful(q, i)
               PROVE  /\ calls'[<<q, i>>] <= 1
                      /\ \A v \in Workers : Armed(v, q, i)' =>
                           /\ calls'[<<q, i>>] = 0
                           /\ \A u \in Workers : Armed(u, q, i)' => u = v
                      /\ i > At(q) \/ (i = At(q) /\ run[q].attempts = 0) =>
                           /\ calls'[<<q, i>>] = 0
                           /\ \A v \in Workers : ~Armed(v, q, i)'
    BY <1>3 DEF ReservedThenCalled, At, Effectful, ContractOf, Steps
  <2>1. <<q, i>> \in Runs \X StepIds
    BY PlanStep
  <2>2. \A v \in Workers : Armed(v, q, i)' => Armed(v, q, i) /\ v # w
    BY <1>4 DEF Armed
  <2>3. CASE <<q, i>> = p
    <3>1. Armed(w, q, i)
      BY <1>1, <2>3 DEF Armed
    <3>2. /\ calls[<<q, i>>] = 0
          /\ \A v \in Workers : Armed(v, q, i) => v = w
          /\ ~(i > At(q) \/ (i = At(q) /\ run[q].attempts = 0))
      BY <3>1 DEF IInv, ReservedThenCalled
    <3>3. calls'[<<q, i>>] = 1
      BY <1>3, <2>1, <2>3, <3>2 DEF IInv, TypeOK, StoreTypeOK
    <3> QED
      BY <2>2, <3>2, <3>3
  <2>4. CASE <<q, i>> # p
    <3>1. calls'[<<q, i>>] = calls[<<q, i>>]
      BY <1>3, <2>1, <2>4 DEF IInv, TypeOK, StoreTypeOK
    <3> QED
      BY <2>2, <3>1 DEF IInv, ReservedThenCalled
  <2> QED
    BY <2>3, <2>4
<1> QED
  BY <1>5, <1>6, <1>7, <1>8, <1>9, <1>10 DEF IInv

-----------------------------------------------------------------------------
(* All other steps are ordinary.                                           *)

(* A step that changes one row moves no other mission.                      *)
LEMMA OneRow ==
  ASSUME TypeOK, NEW r \in Runs, NEW row, run' = [run EXCEPT ![r] = row], Moves(r)
  PROVE  \A q \in Runs : Moves(q)
<1>1. \A q \in Runs \ {r} : run'[q] = run[q]
  BY DEF TypeOK, StoreTypeOK
<1> QED
  BY <1>1 DEF Moves, Stays

(* A step that changes no row moves no mission.                             *)
LEMMA SameRows ==
  ASSUME run' = run
  PROVE  \A q \in Runs : Moves(q)
BY DEF Moves, Stays

(* A worker that lets go of its lease disturbs no other worker.             *)
LEMMA OneJob ==
  ASSUME TypeOK, NEW w \in Workers, NEW j, job' = [job EXCEPT ![w] = j],
         j.pc \notin Holding, j.token = None
  PROVE  \A v \in Workers : Keeps(v)
<1>1. \A v \in Workers \ {w} : job'[v] = job[v]
  BY DEF TypeOK, WorkerTypeOK
<1>2. job'[w] = j
  BY DEF TypeOK, WorkerTypeOK
<1> QED
  BY <1>1, <1>2 DEF Keeps, SameJob, LetsGo

(* A step that changes no job keeps what each worker holds.                 *)
LEMMA SameJobs ==
  ASSUME job' = job
  PROVE  \A v \in Workers : Keeps(v)
BY DEF Keeps, SameJob

(* A step that changes no scan keeps what each worker has read.             *)
LEMMA SameScans ==
  ASSUME scan' = scan
  PROVE  \A v \in Workers : KeepsScan(v)
BY DEF KeepsScan

(* Neither an idle nor a dead worker holds anything.                        *)
LEMMA IdleHolds == /\ IdleJob.pc \notin Holding /\ IdleJob.token = None
                   /\ [IdleJob EXCEPT !.pc = "down"].pc \notin Holding
                   /\ [IdleJob EXCEPT !.pc = "down"].token = None
BY DEF IdleJob, Holding

(* What recover() reads is ordinary: a lease with its verdict.              *)
LEMMA RecoverScanOrdinary ==
  ASSUME IInv, NEW w \in Workers, RecoverScan(w)
  PROVE  Ordinary
<1>1. \A r \in Runs : Moves(r)
  BY SameRows DEF RecoverScan, storeVars
<1>2. \A v \in Workers : Keeps(v)
  <2>1. job[w].pc \notin Holding /\ job[w] \in Job
    BY DEF RecoverScan, Holding, IInv, TypeOK, WorkerTypeOK
  <2>2. /\ [job[w] EXCEPT !.pc = "recovering", !.seen = catalog].pc = "recovering"
        /\ [job[w] EXCEPT !.pc = "recovering", !.seen = catalog].token = job[w].token
    BY <2>1 DEF Job
  <2>3. job[w].token = None
    BY <2>1 DEF IInv, JobsHold, Holding
  <2> QED
    BY <2>2, <2>3, OneJob DEF RecoverScan, IInv, Holding
<1>3. ASSUME NEW v \in Workers PROVE KeepsScan(v)
  <2>1. CASE v = w
    <3>1. scan'[w].leases = {[run |-> r, token |-> run[r].lease_token,
                              status |-> LapseVerdict(r)] : r \in LapsedRuns}
      BY DEF RecoverScan, IInv, TypeOK, WorkerTypeOK
    <3>2. run' = run
      BY DEF RecoverScan, storeVars
    <3>3. \A e \in scan'[w].leases : ReadsLease(e)
      BY <3>1, <3>2 DEF ReadsLease, LapsedRuns
    <3> QED
      BY <2>1, <3>3 DEF KeepsScan
  <2>2. CASE v # w
    BY <2>2 DEF KeepsScan, RecoverScan, IInv, TypeOK, WorkerTypeOK
  <2> QED
    BY <2>1, <2>2
<1> QED
  BY <1>1, <1>2, <1>3 DEF Ordinary, RecoverScan, storeVars

(* recover() moves a row only to where the lease it read, or its deadline, *)
(* or its approval, takes it.                                              *)
LEMMA RecoveryMoves ==
  ASSUME IInv, NEW w \in Workers, NEW r \in Runs, run'[r] = AfterRecovery(w, r)
  PROVE  Moves(r)
<1> DEFINE Left(row) ==
      /\ row.cursor = run[r].cursor /\ row.outputs = run[r].outputs
      /\ row.attempts = run[r].attempts /\ row.lease_token = None
      /\ row.status \in {"needs_reconciliation", "cancelled", "retry_wait", "failed", "expired"}
      /\ run[r].status \in Active
      /\ row.status = "retry_wait" => ~Effectful(r, At(r))
           \/ run[r].status = "retry_wait"
<1>1. run[r] \in RunRow
  BY DEF IInv, TypeOK, StoreTypeOK
<1>2. AfterLeases(w, r) = run[r] \/ Left(AfterLeases(w, r))
  <2>1. CASE StillLapsed(w, r) = {}
    BY <2>1 DEF AfterLeases
  <2>2. CASE StillLapsed(w, r) # {}
    <3> DEFINE e == CHOOSE e \in StillLapsed(w, r) : TRUE
    <3>1. e \in StillLapsed(w, r)
      BY <2>2
    <3>2. /\ e \in scan[w].leases /\ e.run = r /\ run[r].status = "running"
          /\ run[r].lease_token = e.token
      BY <3>1 DEF StillLapsed
    <3>3. /\ e.status \in {"needs_reconciliation", "cancelled", "retry_wait", "failed"}
          /\ Effectful(r, At(r)) => e.status = "needs_reconciliation"
      BY <3>2 DEF IInv, VerdictsStand
    <3>4. AfterLeases(w, r) =
            [Release(run[r], e.status, "step.lease_expired") EXCEPT !.due = TRUE]
      BY <2>2 DEF AfterLeases
    <3> HIDE DEF e
    <3>5. /\ AfterLeases(w, r).cursor = run[r].cursor
          /\ AfterLeases(w, r).outputs = run[r].outputs
          /\ AfterLeases(w, r).attempts = run[r].attempts
          /\ AfterLeases(w, r).lease_token = None
          /\ AfterLeases(w, r).status = e.status
      BY <1>1, <3>4 DEF Release, RunRow
    <3> QED
      BY <3>2, <3>3, <3>5 DEF Active
  <2> QED
    BY <2>1, <2>2
<1>3. \A row \in RunRow :
        (row = run[r] \/ Left(row)) /\ row.status \in Waiting =>
          Left([row EXCEPT !.status = "expired", !.last_event = "workflow.expired"])
          /\ Left([row EXCEPT !.status = "expired"])
  <2> SUFFICES ASSUME NEW row \in RunRow, row = run[r] \/ Left(row), row.status \in Waiting
               PROVE  /\ Left([row EXCEPT !.status = "expired", !.last_event = "workflow.expired"])
                      /\ Left([row EXCEPT !.status = "expired"])
    OBVIOUS
  <2>1. /\ row.cursor = run[r].cursor /\ row.outputs = run[r].outputs
        /\ row.attempts = run[r].attempts /\ row.lease_token = None
        /\ run[r].status \in Active
    BY DEF IInv, LeaseIffRunning, Waiting, Claimable, Active
  <2> QED
    BY <2>1 DEF RunRow
<1>4. AfterLeases(w, r) \in RunRow /\ AfterDeadlines(w, r) \in RunRow
  BY RecoveryTypes DEF IInv
<1> HIDE DEF Left
<1>5. AfterDeadlines(w, r) = run[r] \/ Left(AfterDeadlines(w, r))
  BY <1>2, <1>3, <1>4 DEF AfterDeadlines, MissesDeadline
<1>6. AfterRecovery(w, r) = run[r] \/ Left(AfterRecovery(w, r))
  BY <1>3, <1>4, <1>5 DEF AfterRecovery, Waiting
<1>7. ASSUME Left(run'[r]) PROVE Leaves(r)
  <2> USE DEF Left
  <2>1. /\ run'[r].status \notin {"none", "running", "completed"}
        /\ run[r].status \in Active
    BY <1>7
  <2>2. ASSUME run'[r].status \in Waiting, At(r) <= Len(Steps(r)), Effectful(r, At(r))
        PROVE  run[r].attempts = 0
    <3>1. run[r].status = "retry_wait"
      BY <1>7, <2>2 DEF Waiting, Claimable
    <3> QED
      BY <2>2, <3>1 DEF IInv, EffectReservedOnce, Waiting, Claimable
  <2> QED
    BY <1>7, <2>1, <2>2 DEF Leaves
<1> QED
  BY <1>6, <1>7 DEF Moves, Stays

(* What recover() writes is ordinary: it takes the lease from the row.      *)
LEMMA RecoverApplyOrdinary ==
  ASSUME IInv, NEW w \in Workers, RecoverApply(w)
  PROVE  Ordinary
<1>1. \A r \in Runs : Moves(r)
  BY RecoveryMoves DEF RecoverApply
<1>2. \A v \in Workers : Keeps(v)
  <2>1. job[w].pc \notin Holding /\ job[w] \in Job
    BY DEF RecoverApply, Holding, IInv, TypeOK, WorkerTypeOK
  <2>2. job[w].token = None
    BY <2>1 DEF IInv, JobsHold, Holding
  <2>3. /\ [job[w] EXCEPT !.pc = "looking"].pc = "looking"
        /\ [job[w] EXCEPT !.pc = "looking"].token = None
    BY <2>1, <2>2 DEF Job
  <2> QED
    BY <2>3, OneJob DEF RecoverApply, IInv, Holding
<1>3. \A v \in Workers : KeepsScan(v)
  BY DEF RecoverApply, KeepsScan, NoScan, IInv, TypeOK, WorkerTypeOK
<1> QED
  BY <1>1, <1>2, <1>3 DEF Ordinary, RecoverApply

(* What claim() reads is ordinary: it holds no lease yet.                   *)
LEMMA ClaimScanOrdinary ==
  ASSUME IInv, NEW w \in Workers, ClaimScan(w)
  PROVE  Ordinary
<1>1. run' = run /\ calls' = calls /\ scan' = scan
  BY DEF ClaimScan, storeVars
<1>2. \A v \in Workers : Keeps(v)
  <2>1. job[w].pc \notin Holding /\ job[w] \in Job
    BY DEF ClaimScan, Holding, IInv, TypeOK, WorkerTypeOK
  <2>2. job[w].token = None
    BY <2>1 DEF IInv, JobsHold, Holding
  <2>3. /\ [job[w] EXCEPT !.pc = "claiming", !.todo = Candidates].pc = "claiming"
        /\ [job[w] EXCEPT !.pc = "claiming", !.todo = Candidates].token = None
    BY <2>1, <2>2 DEF Job
  <2>4. \E j \in {IdleJob, [job[w] EXCEPT !.pc = "claiming", !.todo = Candidates]} :
          job' = [job EXCEPT ![w] = j]
    BY DEF ClaimScan
  <2> QED
    BY <2>3, <2>4, IdleHolds, OneJob, ZenonT(40) DEF IInv, Holding
<1> QED
  BY <1>1, <1>2, SameRows, SameScans DEF Ordinary

(* A candidate that claim() passes over is ordinary.                        *)
LEMMA PassOverOrdinary ==
  ASSUME IInv, NEW w \in Workers, NEW r \in Runs, job[w].pc = "claiming",
         job' = [job EXCEPT ![w] = PassOver(w, r)], UNCHANGED <<run, calls, scan>>
  PROVE  Ordinary
<1>1. \A v \in Workers : Keeps(v)
  <2>1. job[w].pc \notin Holding /\ job[w] \in Job
    BY DEF Holding, IInv, TypeOK, WorkerTypeOK
  <2>2. job[w].token = None
    BY <2>1 DEF IInv, JobsHold, Holding
  <2>3. /\ [job[w] EXCEPT !.todo = @ \ {r}].pc = "claiming"
        /\ [job[w] EXCEPT !.todo = @ \ {r}].token = None
    BY <2>1, <2>2 DEF Job
  <2> QED
    BY <2>3, IdleHolds, OneJob DEF IInv, Holding, PassOver
<1> QED
  BY <1>1, SameRows, SameScans DEF Ordinary

(* The fields of a row that has moved past its step.                       *)
LEMMA AdvanceFields ==
  ASSUME NEW row \in RunRow, NEW status, NEW kind, NEW output \in Output,
         NEW next, next = Advance(Release(row, status, kind), output)
  PROVE  /\ next.status = status /\ next.cursor = row.cursor + 1 /\ next.attempts = 0
         /\ next.lease_token = None /\ Len(next.outputs) = Len(row.outputs) + 1
<1>1. row.outputs \in Seq(Output) /\ Release(row, status, kind).outputs = row.outputs
  BY DEF Release, RunRow
<1>2. Len(Append(row.outputs, output)) = Len(row.outputs) + 1
  BY <1>1
<1>3. next.outputs = Append(row.outputs, output)
  BY DEF Release, Advance, RunRow
<1>4. /\ next.status = status /\ next.cursor = row.cursor + 1 /\ next.attempts = 0
      /\ next.lease_token = None
  BY DEF Release, Advance, RunRow
<1> QED
  BY <1>2, <1>3, <1>4

(* What prepare() and finish() make of a row that they let go.             *)
Outcome(w, r, row) ==
  \/ row = BlockedRow(r) \/ row = CancelledRow(r) \/ row = SkippedRow(r)
  \/ row = WaitingRow(r) /\ job[w].pc = "claimed"
  \/ \E retryable \in BOOLEAN : row = FailedRow(r, retryable)
  \/ \E output \in Output : row = SucceededRow(r, output)

(* Whatever a worker that holds the lease writes moves the mission as it    *)
(* may.                                                                     *)
LEMMA OutcomesMove ==
  ASSUME IInv, NEW w \in Workers, job[w].pc \in Holding, Fenced(w),
         NEW r, r = job[w].run, NEW row, run' = [run EXCEPT ![r] = row],
         Outcome(w, r, row)
  PROVE  \A q \in Runs : Moves(q)
<1>1. /\ r \in Runs /\ run[r] \in RunRow /\ run[r].status = "running"
      /\ run[r].lease_token = job[w].token
  BY DEF Fenced, IInv, JobsHold, Holding, TypeOK, StoreTypeOK
<1>2. run[r].cursor < Len(Steps(r))
  BY <1>1 DEF IInv, CursorFollowsOutputs, Active
<1>3. run'[r] = row
  BY <1>1 DEF IInv, TypeOK, StoreTypeOK
<1>4. ASSUME row = BlockedRow(r) \/ row = CancelledRow(r)
      PROVE  Moves(r)
  <2>1. /\ row.status \in {"blocked", "cancelled"} /\ row.cursor = run[r].cursor
        /\ row.outputs = run[r].outputs /\ row.attempts = run[r].attempts
        /\ row.lease_token = None
    BY <1>1, <1>4 DEF BlockedRow, CancelledRow, Release, RunRow
  <2>2. Leaves(r)
    BY <1>1, <1>3, <2>1 DEF Leaves, Active, Waiting, Claimable
  <2> QED
    BY <2>2 DEF Moves
<1>5. ASSUME row = SkippedRow(r)
      PROVE  Moves(r)
  <2> DEFINE status == IF IsLast(r) THEN "completed" ELSE "queued"
             kind == IF IsLast(r) THEN "workflow.completed" ELSE "step.skipped"
  <2>1. row = Advance(Release(run[r], status, kind), Absent) /\ Absent \in Output
    BY <1>5 DEF SkippedRow, Output
  <2>2. IF IsLast(r) THEN status = "completed" ELSE status = "queued"
    OBVIOUS
  <2> HIDE DEF status, kind
  <2>3. /\ row.status = status /\ row.cursor = run[r].cursor + 1 /\ row.attempts = 0
        /\ row.lease_token = None /\ Len(row.outputs) = Len(run[r].outputs) + 1
    BY <1>1, <2>1, AdvanceFields
  <2>4. Advances(r)
    BY <1>2, <1>3, <2>2, <2>3 DEF Advances, IsLast
  <2> QED
    BY <2>4 DEF Moves
<1>6. ASSUME row = WaitingRow(r) /\ job[w].pc = "claimed"
      PROVE  Moves(r)
  <2>1. At(r) <= Len(Steps(r)) /\ Effectful(r, At(r)) => run[r].attempts = 0
    BY <1>1, <1>6 DEF IInv, EffectReservedOnce
  <2>2. /\ row.status = "waiting_approval" /\ row.cursor = run[r].cursor
        /\ row.outputs = run[r].outputs /\ row.attempts = run[r].attempts
        /\ row.lease_token = None
    BY <1>1, <1>6 DEF WaitingRow, Release, RunRow
  <2>3. Leaves(r)
    BY <1>1, <1>3, <2>1, <2>2 DEF Leaves, Active
  <2> QED
    BY <2>3 DEF Moves
<1>7. ASSUME NEW retryable \in BOOLEAN, row = FailedRow(r, retryable)
      PROVE  Moves(r)
  <2> DEFINE status == FailedStatus(r, retryable)
  <2>1. /\ status \in {"needs_reconciliation", "cancelled", "retry_wait", "failed"}
        /\ Effectful(r, At(r)) => status = "needs_reconciliation"
    BY DEF FailedStatus
  <2> HIDE DEF status
  <2>2. /\ row.status = status /\ row.cursor = run[r].cursor /\ row.outputs = run[r].outputs
        /\ row.attempts = run[r].attempts /\ row.lease_token = None
    BY <1>1, <1>7 DEF FailedRow, Release, RunRow, status
  <2> QED
    BY <1>1, <1>3, <2>1, <2>2 DEF Moves, Leaves, Active, Waiting, Claimable
<1>8. ASSUME NEW output \in Output, row = SucceededRow(r, output)
      PROVE  Moves(r)
  <2> DEFINE status == SucceededStatus(r)
             kind == IF status = "completed" THEN "workflow.completed" ELSE "step.completed"
  <2>1. row = Advance(Release(run[r], status, kind), output)
    BY <1>8 DEF SucceededRow
  <2>2. \/ status = "cancelled" \/ (status = "completed" /\ IsLast(r))
        \/ (status = "queued" /\ ~IsLast(r))
    BY DEF SucceededStatus
  <2> HIDE DEF status, kind
  <2>3. /\ row.status = status /\ row.cursor = run[r].cursor + 1 /\ row.attempts = 0
        /\ row.lease_token = None /\ Len(row.outputs) = Len(run[r].outputs) + 1
    BY <1>1, <2>1, AdvanceFields
  <2>4. Advances(r)
    BY <1>2, <1>3, <2>2, <2>3 DEF Advances, IsLast
  <2> QED
    BY <2>4 DEF Moves
<1>9. Moves(r)
  BY <1>4, <1>5, <1>6, <1>7, <1>8 DEF Outcome
<1> QED
  BY <1>1, <1>9, OneRow DEF IInv

(* prepare() that stops before the reservation is ordinary.                 *)
LEMMA PrepareStopOrdinary ==
  ASSUME IInv, NEW w \in Workers, PrepareStop(w)
  PROVE  Ordinary
<1> DEFINE r == job[w].run
<1>1. calls' = calls /\ scan' = scan /\ job' = [job EXCEPT ![w] = IdleJob]
  BY DEF PrepareStop
<1>2. \A v \in Workers : Keeps(v)
  BY <1>1, IdleHolds, OneJob DEF IInv
<1>3. \/ run' = run
      \/ /\ Fenced(w)
         /\ \E row \in {BlockedRow(r), CancelledRow(r), SkippedRow(r), WaitingRow(r)} :
              run' = [run EXCEPT ![r] = row]
  BY DEF PrepareStop
<1>4. \A q \in Runs : Moves(q)
  BY <1>3, SameRows, OutcomesMove DEF PrepareStop, Holding, Outcome
<1> QED
  BY <1>1, <1>2, <1>4, SameScans DEF Ordinary

(* finish() is ordinary: it advances the mission or takes its lease.        *)
LEMMA FinishOrdinary ==
  ASSUME IInv, NEW w \in Workers,
         \/ \E retryable \in BOOLEAN : FinishError(w, retryable)
         \/ \E output \in Output : FinishOutput(w, output)
  PROVE  Ordinary
<1> DEFINE r == job[w].run
<1>1. /\ calls' = calls /\ scan' = scan /\ job' = [job EXCEPT ![w] = IdleJob]
      /\ job[w].pc \in Holding
  BY DEF FinishError, FinishOutput, Holding
<1>2. \A v \in Workers : Keeps(v)
  BY <1>1, IdleHolds, OneJob DEF IInv
<1>3. \/ run' = run
      \/ /\ Fenced(w)
         /\ \/ \E retryable \in BOOLEAN : run' = [run EXCEPT ![r] = FailedRow(r, retryable)]
            \/ \E output \in Output : run' = [run EXCEPT ![r] = SucceededRow(r, output)]
  BY DEF FinishError, FinishOutput
<1>4. \A q \in Runs : Moves(q)
  BY <1>1, <1>3, SameRows, OutcomesMove DEF Outcome
<1> QED
  BY <1>1, <1>2, <1>4, SameScans DEF Ordinary

(* A worker that dies or returns is ordinary: it holds nothing then.        *)
LEMMA CrashOrdinary ==
  ASSUME IInv, NEW w \in Workers, Crash(w) \/ Restart(w)
  PROVE  Ordinary
<1>1. run' = run /\ calls' = calls
  BY DEF Crash, Restart, storeVars
<1>2. \A v \in Workers : Keeps(v)
  BY IdleHolds, OneJob DEF Crash, Restart, IInv
<1>3. \A v \in Workers : KeepsScan(v)
  BY DEF Crash, Restart, KeepsScan, NoScan, IInv, TypeOK, WorkerTypeOK
<1> QED
  BY <1>1, <1>2, <1>3, SameRows DEF Ordinary

(* What people do through the service is ordinary: none of it gives a       *)
(* lease.                                                                   *)
LEMMA ServeOrdinary ==
  ASSUME IInv, Serve
  PROVE  Ordinary
<1>1. job' = job /\ scan' = scan /\ calls' = calls
  BY DEF Serve, Request, Submit, Cancel, ReviewRead, ReviewWrite, Reconcile,
         ChangeAccess, Register, storeVars
<1>2. \A r \in Runs : run[r] \in RunRow /\ (run[r].status # "running" => run[r].lease_token = None)
  BY DEF IInv, TypeOK, StoreTypeOK, LeaseIffRunning
<1>3. ASSUME NEW r \in Runs, Submit(r) PROVE \A q \in Runs : Moves(q)
  <2> DEFINE row == [NoRun EXCEPT !.status = "queued", !.fingerprint = catalog,
                                  !.last_event = "workflow.submitted"]
  <2>1. run' = [run EXCEPT ![r] = row] /\ run[r].status = "none"
    BY <1>3 DEF Submit, Submitted
  <2>2. /\ row.status = "queued" /\ row.cursor = 0 /\ row.outputs = <<>>
        /\ row.attempts = 0 /\ row.lease_token = None
    BY DEF NoRun
  <2> HIDE DEF row
  <2>3. run'[r] = row
    BY <2>1 DEF IInv, TypeOK, StoreTypeOK
  <2>4. Appears(r)
    BY <2>1, <2>2, <2>3 DEF Appears
  <2> QED
    BY <2>1, <2>4, OneRow DEF IInv, Moves
<1>4. ASSUME NEW p \in People, NEW r \in Runs, Cancel(p, r) PROVE \A q \in Runs : Moves(q)
  <2>1. run' = [run EXCEPT ![r] = CancelledNow(run[r])] /\ run[r].status \in Active
    BY <1>4 DEF Cancel
  <2>2. run'[r] = CancelledNow(run[r])
    BY <2>1 DEF IInv, TypeOK, StoreTypeOK
  <2>3. /\ run'[r].cursor = run[r].cursor /\ run'[r].outputs = run[r].outputs
        /\ run'[r].attempts = run[r].attempts /\ run'[r].lease_token = run[r].lease_token
        /\ run'[r].status = IF run[r].status = "running" THEN "running" ELSE "cancelled"
        /\ run'[r].lapsed = run[r].lapsed
    BY <1>2, <2>2 DEF CancelledNow, RunRow
  <2>4. Stays(r) \/ Leaves(r)
    BY <1>2, <2>1, <2>3 DEF Stays, Leaves, Active, Waiting, Claimable
  <2> QED
    BY <2>1, <2>4, OneRow DEF IInv, Moves
<1>5. ASSUME NEW p \in People, ReviewWrite(p) PROVE \A q \in Runs : Moves(q)
  <2> DEFINE r == desk[p].run
  <2>1. CASE run' = run
    BY <2>1, SameRows
  <2>2. CASE run' # run
    <3>1. /\ run' = [run EXCEPT ![r] = DecidedRun(run[r], desk[p].allow)]
          /\ run[r].status = "waiting_approval" /\ r \in Runs
      BY <1>5, <2>2 DEF ReviewWrite, StillWaits, Decision, IInv, TypeOK, ServiceTypeOK
    <3> HIDE DEF r
    <3>2. run'[r] = DecidedRun(run[r], desk[p].allow)
      BY <3>1 DEF IInv, TypeOK, StoreTypeOK
    <3>3. /\ run'[r].cursor = run[r].cursor /\ run'[r].outputs = run[r].outputs
          /\ run'[r].attempts = run[r].attempts /\ run'[r].lease_token = run[r].lease_token
          /\ run'[r].status \in {"queued", "rejected"}
      <4>1. ASSUME NEW row \in RunRow, NEW allow
            PROVE  /\ DecidedRun(row, allow).cursor = row.cursor
                   /\ DecidedRun(row, allow).outputs = row.outputs
                   /\ DecidedRun(row, allow).attempts = row.attempts
                   /\ DecidedRun(row, allow).lease_token = row.lease_token
                   /\ DecidedRun(row, allow).status \in {"queued", "rejected"}
        BY DEF DecidedRun, RunRow
      <4> QED
        BY <1>2, <3>1, <3>2, <4>1
    <3>4. run[r].lease_token = None
      BY <1>2, <3>1
    <3>5. At(r) <= Len(Steps(r)) /\ Effectful(r, At(r)) => run[r].attempts = 0
      BY <3>1 DEF IInv, EffectReservedOnce, Waiting
    <3>6. Leaves(r)
      BY <3>1, <3>3, <3>4, <3>5 DEF Leaves, Active, Waiting
    <3> QED
      BY <3>1, <3>6, OneRow DEF IInv, Moves
  <2> QED
    BY <2>1, <2>2
<1>6. ASSUME NEW p \in People, NEW r \in Runs, Reconcile(p, r)
      PROVE  \A q \in Runs : Moves(q)
  <2>1. /\ run[r].status = "needs_reconciliation" /\ run[r].lease_token = None
        /\ run[r].cursor < Len(Steps(r))
    BY <1>2, <1>6 DEF Reconcile, IInv, CursorFollowsOutputs
  <2>2. ASSUME NEW status \in {"failed", "cancelled"}, run' = [run EXCEPT ![r] = Settled(r, status)]
        PROVE  \A q \in Runs : Moves(q)
    <3>1. run'[r] = Settled(r, status)
      BY <2>2 DEF IInv, TypeOK, StoreTypeOK
    <3>2. /\ run'[r].cursor = run[r].cursor /\ run'[r].outputs = run[r].outputs
          /\ run'[r].attempts = run[r].attempts /\ run'[r].lease_token = run[r].lease_token
          /\ run'[r].status = status
      BY <1>2, <3>1 DEF Settled, RunRow
    <3>3. Leaves(r)
      BY <2>1, <3>2 DEF Leaves, Active, Waiting, Claimable
    <3> QED
      BY <2>2, <3>3, OneRow DEF IInv, Moves
  <2>3. ASSUME NEW output \in Output, run' = [run EXCEPT ![r] = ConfirmedRow(r, output)]
        PROVE  \A q \in Runs : Moves(q)
    <3> DEFINE status == IF run[r].cancel_requested THEN "cancelled"
                         ELSE IF IsLast(r) THEN "completed" ELSE "queued"
    <3>1. run'[r] = Advance(Settled(r, status), output)
      BY <2>3 DEF ConfirmedRow, IInv, TypeOK, StoreTypeOK
    <3>2. \/ status = "cancelled" \/ (status = "completed" /\ IsLast(r))
          \/ (status = "queued" /\ ~IsLast(r))
      OBVIOUS
    <3> HIDE DEF status
    <3>3. /\ run'[r].status = status /\ run'[r].cursor = run[r].cursor + 1
          /\ run'[r].attempts = 0 /\ run'[r].lease_token = run[r].lease_token
          /\ run'[r].outputs = Append(run[r].outputs, output)
      BY <1>2, <3>1 DEF Settled, Advance, RunRow
    <3>4. Len(Append(run[r].outputs, output)) = Len(run[r].outputs) + 1
      <4>1. run[r].outputs \in Seq(Output)
        BY <1>2 DEF RunRow
      <4> QED
        BY <4>1
    <3>5. Advances(r)
      BY <2>1, <3>2, <3>3, <3>4 DEF Advances, IsLast
    <3> QED
      BY <2>3, <3>5, OneRow DEF IInv, Moves
  <2> QED
    BY <1>6, <2>2, <2>3 DEF Reconcile
<1>7. \A q \in Runs : Moves(q)
  <2>1. CASE run' = run
    BY <2>1, SameRows
  <2>2. CASE run' # run
    BY <1>3, <1>4, <1>5, <1>6, <2>2
       DEF Serve, Request, ReviewRead, ChangeAccess, Register, storeVars
  <2> QED
    BY <2>1, <2>2
<1> QED
  BY <1>1, <1>7, SameJobs, SameScans DEF Ordinary

(* The passing of time is ordinary: it changes no status and no lease.      *)
LEMMA ClockOrdinary ==
  ASSUME IInv, Clock
  PROVE  Ordinary
<1>1. job' = job /\ scan' = scan /\ calls' = calls
  BY DEF Clock
<1>2. ASSUME NEW r \in Runs, LeaseLapses(r) \/ BackoffElapses(r) \/ DeadlinePasses(r)
      PROVE  \A q \in Runs : Moves(q)
  <2>1. \E row \in {[run[r] EXCEPT !.lapsed = TRUE], [run[r] EXCEPT !.due = TRUE],
                    [run[r] EXCEPT !.overdue = TRUE]} : run' = [run EXCEPT ![r] = row]
    BY <1>2 DEF LeaseLapses, BackoffElapses, DeadlinePasses
  <2>2. run[r].status # "none"
    BY <1>2 DEF LeaseLapses, BackoffElapses, DeadlinePasses, Active, Waiting, Claimable
  <2>3. PICK row \in {[run[r] EXCEPT !.lapsed = TRUE], [run[r] EXCEPT !.due = TRUE],
                      [run[r] EXCEPT !.overdue = TRUE]} : run'[r] = row
    BY <2>1 DEF IInv, TypeOK, StoreTypeOK
  <2>4. /\ row.status = run[r].status /\ row.cursor = run[r].cursor
        /\ row.outputs = run[r].outputs /\ row.attempts = run[r].attempts
        /\ row.lease_token = run[r].lease_token /\ row.lapsed \in {run[r].lapsed, TRUE}
    BY DEF IInv, TypeOK, StoreTypeOK, RunRow
  <2>5. Stays(r)
    BY <2>2, <2>3, <2>4 DEF Stays
  <2> QED
    BY <2>1, <2>5, OneRow DEF IInv, Moves
<1>3. \A q \in Runs : Moves(q)
  BY <1>2, SameRows DEF Clock, ApprovalLapses
<1> QED
  BY <1>1, <1>3, SameJobs, SameScans DEF Ordinary

-----------------------------------------------------------------------------
(* The invariant.                                                          *)

(* Every step is ordinary, a claim, a reservation or a request.            *)
LEMMA StepKinds ==
  ASSUME IInv, [Next]_vars
  PROVE  \/ Ordinary
         \/ \E w \in Workers, r \in Runs :
              /\ Claims(r) /\ FreshTokens # {} /\ Claim(w, r, CHOOSE t \in FreshTokens : TRUE)
              /\ UNCHANGED <<calls, scan>>
         \/ \E w \in Workers : PrepareStart(w) \/ Call(w)
<1>1. CASE Work
  <2>1. PICK w \in Workers : Tick(w) \/ Crash(w) \/ Restart(w)
    BY <1>1 DEF Work
  <2>2. CASE ClaimTry(w)
    <3>1. PICK r \in job[w].todo :
            \/ Claims(r) /\ FreshTokens # {} /\ Claim(w, r, CHOOSE t \in FreshTokens : TRUE)
            \/ ~Claims(r) /\ job' = [job EXCEPT ![w] = PassOver(w, r)] /\ run' = run
      BY <2>2 DEF ClaimTry
    <3>2. r \in Runs /\ job[w].pc = "claiming" /\ UNCHANGED <<calls, scan>>
      BY <2>2 DEF ClaimTry, IInv, TypeOK, WorkerTypeOK, Job
    <3> QED
      BY <3>1, <3>2, PassOverOrdinary
  <2> QED
    BY <2>1, <2>2, RecoverScanOrdinary, RecoverApplyOrdinary, ClaimScanOrdinary,
       PrepareStopOrdinary, FinishOrdinary, CrashOrdinary DEF Tick
<1>2. CASE UNCHANGED vars
  BY <1>2, SameRows, SameJobs, SameScans DEF vars, Ordinary
<1> QED
  BY <1>1, <1>2, ServeOrdinary, ClockOrdinary DEF Next

(* Every step keeps the invariant.                                          *)
LEMMA Inductive ==
  ASSUME IInv, [Next]_vars
  PROVE  IInv'
BY TypeStep, StepKinds, OrdinaryStep, ClaimStep, PrepareStartStep, CallStep

(* Before the first submission the invariant holds.                         *)
LEMMA Initially ==
  ASSUME Init
  PROVE  IInv
<1>1. run = [r \in Runs |-> NoRun] /\ \A r \in Runs : run[r] = NoRun
  BY DEF Init, StoreInit
<1>2. job = [w \in Workers |-> IdleJob] /\ \A w \in Workers : job[w] = IdleJob
  BY DEF Init, WorkerInit
<1>3. NoRun \in RunRow /\ NoApproval \in ApprovalRow
  BY DEF NoRun, RunRow, Status, Kinds, NoApproval, ApprovalRow
<1>4. TypeOK
  BY <1>1, <1>2, <1>3, IdleJobType, NoScanType
     DEF Init, StoreInit, WorkerInit, ServiceInit, TypeOK, StoreTypeOK, WorkerTypeOK, ServiceTypeOK
<1>5. JobsHold /\ UntouchedBefore
  BY <1>1, <1>2 DEF JobsHold, UntouchedBefore, IdleJob
<1>6. CursorFollowsOutputs
  BY <1>1 DEF CursorFollowsOutputs, NoRun, Active, Waiting, Claimable
<1>7. LeaseIffRunning
  BY <1>1, <1>2 DEF LeaseIffRunning, NoRun, IdleJob
<1>8. VerdictsStand
  BY DEF VerdictsStand, Init, WorkerInit, NoScan
<1>9. EffectReservedOnce
  BY <1>1, <1>2 DEF EffectReservedOnce, NoRun, IdleJob
<1>10. ReservedThenCalled
  <2> SUFFICES ASSUME NEW r \in Runs, NEW i \in 1 .. Len(Steps(r))
               PROVE  calls[<<r, i>>] = 0 /\ \A w \in Workers : ~Armed(w, r, i)
    BY DEF ReservedThenCalled
  <2>1. <<r, i>> \in Runs \X StepIds
    BY PlanStep
  <2> QED
    BY <1>2, <2>1 DEF Init, StoreInit, Armed, IdleJob
<1> QED
  BY <1>4, <1>5, <1>6, <1>7, <1>8, <1>9, <1>10 DEF IInv

(* The rows, the workers' knowledge and the decisions on reviewers' desks  *)
(* keep their types: whatever prepare(), finish(), recover(), review() and *)
(* reconcile() write is a row of the schema.                               *)
THEOREM TypeCorrect == Spec => []TypeOK
<1>1. IInv => TypeOK
  BY DEF IInv
<1> QED
  BY <1>1, Initially, Inductive, PTL DEF Spec

(* An effect is requested at most once in every execution: no crash, lost  *)
(* lease, retry, second worker, review or reconciliation makes the runtime *)
(* call the gateway twice for a step whose contract is not a read.         *)
THEOREM EffectSafety == Spec => []EffectAtMostOnce
<1>1. IInv => EffectAtMostOnce
  BY DEF IInv, ReservedThenCalled, EffectAtMostOnce
<1> QED
  BY <1>1, Initially, Inductive, PTL DEF Spec

(* A mission is running exactly while it carries a lease, and a lease is   *)
(* one mission's and one worker's, however many workers claim and recover. *)
THEOREM LeaseSafety == Spec => []LeaseIffRunning
<1>1. IInv => LeaseIffRunning
  BY DEF IInv
<1> QED
  BY <1>1, Initially, Inductive, PTL DEF Spec

(* Outputs and cursor move together, and a mission that goes on stands at  *)
(* a step of its plan: no interleaving skips or repeats one.               *)
THEOREM CursorSafety == Spec => []CursorFollowsOutputs
<1>1. IInv => CursorFollowsOutputs
  BY DEF IInv
<1> QED
  BY <1>1, Initially, Inductive, PTL DEF Spec

-----------------------------------------------------------------------------
(* A second invariant: what rows, approvals and calls say of each other.   *)

(* A step was asked of the gateway, or a worker is about to ask for it.    *)
Asked(r, i) == calls[<<r, i>>] > 0 \/ \E w \in Workers : Armed(w, r, i)

(* The approval of a step is somebody else's, of the step as it was.       *)
Covered(r, i) ==
  LET a == approval[<<r, i>>]
  IN  /\ a.status = "approved" /\ a.reviewer # Mission[r].owner
      /\ a.action \in Action /\ Len(a.action.input) = i - 1
      /\ a.action.fingerprint = run[r].fingerprint[Steps(r)[i].capability]
      /\ \A j \in 1 .. (i - 1) : a.action.input[j] = run[r].outputs[j]

AskedWithCause(r) ==
  \A i \in 1 .. Len(Steps(r)) : Asked(r, i) =>
    /\ run[r].status # "none" /\ i <= At(r)
    /\ ContractOf(r, i).approval => Covered(r, i)
    /\ Holds(r, i) /\ \A j \in Steps(r)[i].binds : run[r].outputs[j] # Absent

PassedWithCause(r) ==
  \A i \in 1 .. Len(Steps(r)) : i <= run[r].cursor /\ calls[<<r, i>>] = 0 =>
    (~Holds(r, i) /\ run[r].outputs[i] = Absent) \/ Effectful(r, i)

PendingHere(r) ==
  \A i \in StepIds :
    approval[<<r, i>>].status = "pending" <=> run[r].status = "waiting_approval" /\ i = At(r)

(* The log's last word is the request for an approval that has expired.    *)
LogIsSilent(r) ==
  /\ run[r].status = "expired" /\ run[r].last_event = "approval.requested"
  /\ \E i \in StepIds : i = At(r) /\ approval[<<r, i>>].status = "expired"

Audited(r) ==
  /\ Explains(run[r].last_event, run[r].status) \/ LogIsSilent(r)
  /\ run[r].status = "running" /\ run[r].cancel_requested =>
       run[r].last_event = "workflow.cancellation_requested"

(* An effect that was reserved is out, held, or settled; and only effects  *)
(* are held.                                                               *)
EffectHeld(r) ==
  /\ At(r) <= Len(Steps(r)) /\ Effectful(r, At(r)) /\ run[r].attempts > 0 =>
       \/ run[r].status \in {"running", "needs_reconciliation"}
       \/ run[r].status \in {"failed", "cancelled"} /\ run[r].last_event = "step.reconciled"
  /\ run[r].status = "needs_reconciliation" => Effectful(r, At(r))

(* The contract allows another attempt at the step a mission stands at: as *)
(* it must whenever the mission can be claimed.                            *)
AttemptLeft(r) == run[r].attempts < ContractAt(r).max_attempts

AttemptsCounted(r) ==
  At(r) <= Len(Steps(r)) =>
    /\ run[r].attempts <= ContractAt(r).max_attempts
    /\ run[r].status \in Waiting => AttemptLeft(r)

Recorded(r) ==
  /\ AskedWithCause(r) /\ PassedWithCause(r) /\ PendingHere(r) /\ Audited(r) /\ EffectHeld(r)
  /\ AttemptsCounted(r)

(* Who still holds the lease it claimed may reserve the step, who holds    *)
(* that of a step it has reserved is at that step, and who waits for an    *)
(* answer has asked.                                                       *)
Calling(w) ==
  /\ job[w].pc = "claimed" /\ run[job[w].run].lease_token = job[w].token => AttemptLeft(job[w].run)
  /\ job[w].pc \in {"prepared", "calling"} /\ run[job[w].run].lease_token = job[w].token =>
       job[w].step = At(job[w].run)
  /\ job[w].pc = "calling" => calls[<<job[w].run, job[w].step>>] > 0

(* A verdict that can still be written is on a lease that is still over,   *)
(* which nobody reserves under: what it holds is an effect, and what it    *)
(* retries has an attempt left.                                            *)
StandingVerdict(e) ==
  /\ run[e.run].lapsed
  /\ e.status = "needs_reconciliation" => Effectful(e.run, At(e.run))
  /\ e.status = "retry_wait" => AttemptLeft(e.run)

HoldVerdicts(w) ==
  \A e \in scan[w].leases : run[e.run].lease_token = e.token => StandingVerdict(e)

DeskHolds(p) == desk[p] # None => p # Mission[desk[p].run].owner

HInv ==
  /\ \A r \in Runs : Recorded(r)
  /\ \A w \in Workers : Calling(w) /\ HoldVerdicts(w)
  /\ \A p \in People : DeskHolds(p)

-----------------------------------------------------------------------------
(* What a step may do to a mission, its approvals included.                *)

SameWork(r) ==
  /\ run'[r].cursor = run[r].cursor /\ run'[r].outputs = run[r].outputs
  /\ run'[r].attempts = run[r].attempts /\ run'[r].tool_calls = run[r].tool_calls
  /\ run'[r].cost = run[r].cost /\ run'[r].fingerprint = run[r].fingerprint

SameDecision(p) ==
  /\ approval'[p].status = approval[p].status /\ approval'[p].action = approval[p].action
  /\ approval'[p].reviewer = approval[p].reviewer

SameDecisions(r) == \A i \in StepIds : SameDecision(<<r, i>>)

(* Requests for approval that are pending end.                             *)
EndsRequests(r) ==
  \A i \in StepIds :
    /\ approval[<<r, i>>].status # "pending" => SameDecision(<<r, i>>)
    /\ approval'[<<r, i>>].status # "pending"
    /\ approval[<<r, i>>].status = "pending" => approval'[<<r, i>>].status # "approved"

SameFlag(r) == run'[r].cancel_requested = run[r].cancel_requested

Quiet(r) ==
  /\ SameWork(r) /\ SameDecisions(r) /\ SameFlag(r)
  /\ run'[r].status = run[r].status /\ run'[r].last_event = run[r].last_event

Enters(r) ==
  /\ run[r] = NoRun /\ SameDecisions(r)
  /\ run'[r].status = "queued" /\ run'[r].last_event = "workflow.submitted"
  /\ run'[r].cursor = 0 /\ run'[r].outputs = <<>> /\ run'[r].attempts = 0
  /\ run'[r].tool_calls = 0 /\ run'[r].cost = 0 /\ ~run'[r].cancel_requested

IsCancelled(r) ==
  /\ run[r].status \in Active /\ SameWork(r) /\ EndsRequests(r)
  /\ run'[r].cancel_requested /\ run'[r].last_event = "workflow.cancellation_requested"
  /\ run'[r].status = IF run[r].status = "running" THEN "running" ELSE "cancelled"

IsDecided(r) ==
  \E i \in StepIds, p \in People :
    /\ p # Mission[r].owner
    /\ run[r].status = "waiting_approval" /\ approval[<<r, i>>].status = "pending"
    /\ SameWork(r) /\ SameFlag(r) /\ run'[r].last_event = "approval.decided"
    /\ \A j \in StepIds \ {i} : SameDecision(<<r, j>>)
    /\ approval'[<<r, i>>].action = approval[<<r, i>>].action
    /\ approval'[<<r, i>>].reviewer = p
    /\ \/ run'[r].status = "queued" /\ approval'[<<r, i>>].status = "approved"
       \/ run'[r].status = "rejected" /\ approval'[<<r, i>>].status = "rejected"

IsTaken(r) ==
  /\ run[r].status \in Claimable /\ run'[r].status = "running" /\ ~run[r].cancel_requested
  /\ SameWork(r) /\ SameFlag(r) /\ SameDecisions(r)

(* The deadline, or the time of the approval, is over.                     *)
Expires(r) ==
  /\ run[r].status \in Waiting /\ run'[r].status = "expired"
  /\ SameWork(r) /\ SameFlag(r) /\ EndsRequests(r)
  /\ \/ run'[r].last_event = "workflow.expired"
     \/ /\ run[r].status = "waiting_approval" /\ run'[r].last_event = run[r].last_event
        /\ \E i \in StepIds : i = At(r) /\ approval'[<<r, i>>].status = "expired"

(* The lease is over, or an error was reported.                            *)
Fails(r) ==
  /\ run[r].status = "running" /\ SameWork(r) /\ SameFlag(r) /\ SameDecisions(r)
  /\ run'[r].status \in {"needs_reconciliation", "cancelled", "retry_wait", "failed", "expired"}
  /\ run'[r].last_event \in IF run'[r].status = "expired" THEN {"workflow.expired"}
                             ELSE {"step.failed", "step.lease_expired"}
  /\ Effectful(r, At(r)) <=> run'[r].status = "needs_reconciliation"
  /\ run'[r].status = "retry_wait" => AttemptLeft(r)

(* prepare() stops before the reservation.                                 *)
StopsEarly(r) ==
  /\ run[r].status = "running" /\ SameWork(r) /\ SameFlag(r) /\ AttemptLeft(r)
  /\ Effectful(r, At(r)) => run[r].attempts = 0
  /\ \/ run'[r].status = "blocked" /\ run'[r].last_event = "step.blocked" /\ SameDecisions(r)
     \/ /\ run'[r].status = "cancelled" /\ run'[r].last_event = run[r].last_event
        /\ run[r].cancel_requested /\ SameDecisions(r)
     \/ /\ run'[r].status = "waiting_approval" /\ run'[r].last_event = "approval.requested"
        /\ approval[<<r, At(r)>>].status = "none" /\ approval'[<<r, At(r)>>].status = "pending"
        /\ \A j \in StepIds \ {At(r)} : SameDecision(<<r, j>>)

(* The attempt is counted.                                                 *)
Reserves(r) ==
  /\ run[r].status = "running" /\ ~run[r].cancel_requested /\ SameFlag(r) /\ SameDecisions(r)
  /\ run'[r].status = "running" /\ run'[r].last_event = "step.started"
  /\ run'[r].cursor = run[r].cursor /\ run'[r].outputs = run[r].outputs
  /\ run'[r].fingerprint = run[r].fingerprint
  /\ run'[r].attempts = run[r].attempts + 1 /\ run'[r].tool_calls = run[r].tool_calls + 1
  /\ run'[r].cost = run[r].cost + ContractAt(r).cost /\ ~BudgetExhausted(r) /\ AttemptLeft(r)
  /\ Mission[r].owner \in access /\ ConditionMatches(r) /\ ~InputProblem(r) /\ Approved(r)
  /\ Effectful(r, At(r)) => run[r].attempts = 0

(* An output is recorded: a step's, a skipped one's, a confirmed one's.    *)
Gains(r) ==
  /\ \E output \in Output :
       /\ run'[r].outputs = Append(run[r].outputs, output)
       /\ \/ run[r].status = "running" /\ calls[<<r, At(r)>>] > 0
          \/ run[r].status = "running" /\ ~ConditionMatches(r) /\ ~ConditionProblem(r) /\ output = Absent
          \/ run[r].status = "needs_reconciliation"
  /\ run'[r].cursor = run[r].cursor + 1 /\ run'[r].attempts = 0
  /\ run'[r].tool_calls = run[r].tool_calls /\ run'[r].cost = run[r].cost
  /\ run'[r].fingerprint = run[r].fingerprint /\ SameFlag(r) /\ SameDecisions(r)
  /\ \/ run'[r].status = "cancelled" /\ run'[r].last_event \in {"step.completed", "step.reconciled"}
     \/ /\ run'[r].status = "completed" /\ IsLast(r)
        /\ run'[r].last_event \in {"workflow.completed", "step.reconciled"}
     \/ /\ run'[r].status = "queued" /\ ~IsLast(r)
        /\ run'[r].last_event \in {"step.skipped", "step.completed", "step.reconciled"}

(* A person says that an effect was not, or will not be.                   *)
IsSettled(r) ==
  /\ run[r].status = "needs_reconciliation" /\ run'[r].status \in {"failed", "cancelled"}
  /\ run'[r].last_event = "step.reconciled"
  /\ SameWork(r) /\ SameFlag(r) /\ SameDecisions(r)

Deed(r) ==
  \/ Quiet(r) \/ Enters(r) \/ IsCancelled(r) \/ IsDecided(r) \/ IsTaken(r) \/ Expires(r)
  \/ Fails(r) \/ StopsEarly(r) \/ Reserves(r) \/ Gains(r) \/ IsSettled(r)

(* What becomes of what was asked, or may be.                              *)
AgentsFollow(r) ==
  \A i \in 1 .. Len(Steps(r)) :
    /\ Asked(r, i)' => Asked(r, i) \/ (Reserves(r) /\ i = At(r))
    /\ calls[<<r, i>>] > 0 => calls'[<<r, i>>] > 0

-----------------------------------------------------------------------------
(* A pending approval and a waiting mission stay together.                 *)
LEMMA PendingKept ==
  ASSUME IInv, IInv', NEW r \in Runs, PendingHere(r), Deed(r)
  PROVE  PendingHere(r)'
<1> SUFFICES ASSUME NEW i \in StepIds
             PROVE  approval'[<<r, i>>].status = "pending" <=>
                      run'[r].status = "waiting_approval" /\ i = At(r)'
  BY DEF PendingHere
<1>1. approval[<<r, i>>].status = "pending" <=> run[r].status = "waiting_approval" /\ i = At(r)
  BY DEF PendingHere
<1>2. CASE Quiet(r) BY <1>1, <1>2 DEF Quiet, SameDecisions, SameDecision, SameWork, At
<1>3. CASE Enters(r) BY <1>1, <1>3 DEF Enters, SameDecisions, SameDecision, NoRun
<1>4. CASE IsCancelled(r) BY <1>1, <1>4 DEF IsCancelled, EndsRequests
<1>5. CASE IsDecided(r)
  <2>1. PICK j \in StepIds :
          /\ run[r].status = "waiting_approval" /\ approval[<<r, j>>].status = "pending"
          /\ \A k \in StepIds \ {j} : SameDecision(<<r, k>>)
          /\ approval'[<<r, j>>].status # "pending" /\ run'[r].status # "waiting_approval"
    BY <1>5 DEF IsDecided
  <2>2. j = At(r) BY <2>1 DEF PendingHere
  <2> QED BY <1>1, <2>1, <2>2 DEF SameDecision
<1>6. CASE IsTaken(r) BY <1>1, <1>6 DEF IsTaken, Claimable, SameDecisions, SameDecision
<1>7. CASE Expires(r) BY <1>7 DEF Expires, EndsRequests
<1>8. CASE Fails(r) BY <1>1, <1>8 DEF Fails, SameDecisions, SameDecision
<1>9. CASE StopsEarly(r)
  <2>1. At(r)' = At(r) BY <1>9 DEF StopsEarly, SameWork, At
  <2> QED BY <1>1, <1>9, <2>1 DEF StopsEarly, SameDecisions, SameDecision
<1>10. CASE Reserves(r) BY <1>1, <1>10 DEF Reserves, SameDecisions, SameDecision
<1>11. CASE Gains(r) BY <1>1, <1>11 DEF Gains, SameDecisions, SameDecision
<1>12. CASE IsSettled(r) BY <1>1, <1>12 DEF IsSettled, SameDecisions, SameDecision
<1> QED BY <1>2, <1>3, <1>4, <1>5, <1>6, <1>7, <1>8, <1>9, <1>10, <1>11, <1>12 DEF Deed

(* The event explains the status.                                          *)
LEMMA AuditKept ==
  ASSUME IInv, IInv', NEW r \in Runs, Audited(r), Deed(r)
  PROVE  Audited(r)'
<1>2. CASE Quiet(r)
  <2>1. LogIsSilent(r) => LogIsSilent(r)'
    BY <1>2 DEF Quiet, LogIsSilent, SameWork, SameDecisions, SameDecision, At
  <2> QED BY <1>2, <2>1 DEF Quiet, SameFlag, Audited
<1>3. CASE Enters(r) BY <1>3 DEF Enters, Audited, Explains
<1>4. CASE IsCancelled(r) BY <1>4 DEF IsCancelled, Audited, Explains
<1>5. CASE IsDecided(r) BY <1>5 DEF IsDecided, Audited, Explains
<1>6. CASE IsTaken(r) BY <1>6 DEF IsTaken, SameFlag, Audited, Explains
<1>7. CASE Expires(r)
  <2>1. CASE run'[r].last_event = "workflow.expired" BY <1>7, <2>1 DEF Expires, Audited, Explains
  <2>2. CASE /\ run[r].status = "waiting_approval" /\ run'[r].last_event = run[r].last_event
             /\ \E i \in StepIds : i = At(r) /\ approval'[<<r, i>>].status = "expired"
    <3>1. run[r].last_event = "approval.requested" BY <2>2 DEF Audited, Explains, LogIsSilent
    <3>2. LogIsSilent(r)' BY <1>7, <2>2, <3>1 DEF LogIsSilent, Expires, SameWork, At
    <3> QED BY <1>7, <3>2 DEF Expires, Audited
  <2> QED BY <1>7, <2>1, <2>2 DEF Expires
<1>8. CASE Fails(r) BY <1>8 DEF Fails, Audited, Explains
<1>9. CASE StopsEarly(r) BY <1>9 DEF StopsEarly, Audited, Explains
<1>10. CASE Reserves(r) BY <1>10 DEF Reserves, SameFlag, Audited, Explains
<1>11. CASE Gains(r) BY <1>11 DEF Gains, Audited, Explains
<1>12. CASE IsSettled(r) BY <1>12 DEF IsSettled, Audited, Explains
<1> QED BY <1>2, <1>3, <1>4, <1>5, <1>6, <1>7, <1>8, <1>9, <1>10, <1>11, <1>12 DEF Deed

(* An effect stays held until somebody settles it.                         *)
LEMMA HeldKept ==
  ASSUME IInv, IInv', NEW r \in Runs, EffectHeld(r), Deed(r)
  PROVE  EffectHeld(r)'
<1>1. /\ run[r].status \in Waiting /\ At(r) <= Len(Steps(r)) /\ Effectful(r, At(r)) => run[r].attempts = 0
      /\ run'[r].status \in Waiting /\ At(r)' <= Len(Steps(r)) /\ Effectful(r, At(r)') => run'[r].attempts = 0
  BY DEF IInv, EffectReservedOnce, Effectful, ContractOf, Steps
<1>2. SameWork(r) => At(r)' = At(r) /\ run'[r].attempts = run[r].attempts
  BY DEF SameWork, At
<1>3. Effectful(r, At(r))' <=> Effectful(r, At(r)')
  BY DEF Effectful, ContractOf, Steps
<1>4. run[r].attempts \in Nat /\ run'[r].attempts \in Nat
  BY DEF IInv, TypeOK, StoreTypeOK, RunRow
<1>5. CASE Quiet(r) BY <1>2, <1>3, <1>5 DEF Quiet, EffectHeld
<1>6. CASE Enters(r) BY <1>6 DEF Enters, EffectHeld
<1>7. CASE IsCancelled(r) BY <1>1, <1>2, <1>3, <1>4, <1>7 DEF IsCancelled, EffectHeld, Active
<1>8. CASE IsDecided(r) BY <1>1, <1>2, <1>3, <1>4, <1>8 DEF IsDecided, EffectHeld, Waiting
<1>9. CASE IsTaken(r) BY <1>1, <1>2, <1>3, <1>4, <1>9 DEF IsTaken, EffectHeld
<1>10. CASE Expires(r) BY <1>1, <1>2, <1>3, <1>4, <1>10 DEF Expires, EffectHeld
<1>11. CASE Fails(r) BY <1>2, <1>3, <1>11 DEF Fails, EffectHeld
<1>12. CASE StopsEarly(r) BY <1>2, <1>3, <1>12 DEF StopsEarly, EffectHeld
<1>13. CASE Reserves(r) BY <1>13 DEF Reserves, EffectHeld
<1>14. CASE Gains(r) BY <1>14 DEF Gains, EffectHeld
<1>15. CASE IsSettled(r) BY <1>2, <1>15 DEF IsSettled, EffectHeld
<1> QED BY <1>5, <1>6, <1>7, <1>8, <1>9, <1>10, <1>11, <1>12, <1>13, <1>14, <1>15 DEF Deed

(* A mission that can be claimed has an attempt left.                      *)
LEMMA AttemptsKept ==
  ASSUME IInv, IInv', NEW r \in Runs, AttemptsCounted(r), Deed(r)
  PROVE  AttemptsCounted(r)'
<1> SUFFICES ASSUME At(r)' <= Len(Steps(r))
             PROVE  /\ run'[r].attempts <= ContractAt(r)'.max_attempts
                    /\ run'[r].status \in Waiting => run'[r].attempts < ContractAt(r)'.max_attempts
  BY DEF AttemptsCounted, AttemptLeft, Steps
<1>1. run[r].attempts \in Nat /\ run[r].cursor \in Nat /\ run'[r].cursor \in Nat
  BY DEF IInv, TypeOK, StoreTypeOK, RunRow
<1>2. At(r)' \in 1 .. Len(Steps(r)) BY <1>1 DEF At
<1>3. ContractAt(r)' = ContractOf(r, At(r)') BY DEF ContractAt, ContractOf, Steps
<1>4. ContractAt(r)'.max_attempts \in Nat /\ ContractAt(r)'.max_attempts >= 1
  BY <1>2, <1>3, PlanStep, ContractAssumption DEF ContractOf, ContractRow, Step
<1>5. CASE run'[r].attempts = 0 BY <1>4, <1>5
<1>6. CASE run'[r].cursor = run[r].cursor /\ run[r].status # "none"
  <2>1. At(r)' = At(r) /\ ContractAt(r)' = ContractAt(r) BY <1>3, <1>6 DEF At, ContractAt
  <2>2. /\ run[r].attempts <= ContractAt(r).max_attempts
        /\ run[r].status \in Waiting => AttemptLeft(r)
    BY <2>1 DEF AttemptsCounted
  <2>3. CASE Reserves(r)
    BY <1>1, <1>4, <2>1, <2>3 DEF Reserves, AttemptLeft, Waiting, Claimable
  <2>4. CASE SameWork(r)
    <3>1. run'[r].status \in Waiting => run[r].status \in Waiting \/ AttemptLeft(r)
      <4>1. ~Enters(r) /\ ~Gains(r) BY <1>1, <1>6 DEF Enters, NoRun, Gains
      <4>2. Quiet(r) \/ IsCancelled(r) \/ IsDecided(r) \/ IsTaken(r) \/ Expires(r) =>
              (run'[r].status \in Waiting => run[r].status \in Waiting)
        BY DEF Quiet, IsCancelled, IsDecided, IsTaken, Expires, Waiting, Claimable
      <4>3. Fails(r) \/ StopsEarly(r) \/ Reserves(r) \/ IsSettled(r) =>
              (run'[r].status \in Waiting => AttemptLeft(r))
        BY DEF Fails, StopsEarly, Reserves, IsSettled, Waiting, Claimable
      <4> QED BY <4>1, <4>2, <4>3 DEF Deed
    <3> QED BY <2>1, <2>2, <2>4, <3>1 DEF SameWork, AttemptLeft
  <2> QED
    BY <1>5, <1>6, <2>3, <2>4 DEF Deed, Quiet, Enters, NoRun, IsCancelled, IsDecided, IsTaken, Expires,
                                  Fails, StopsEarly, Gains, IsSettled
<1>7. CASE run[r].status = "none" /\ ~Enters(r)
  <2>1. Quiet(r)
    BY <1>7 DEF Deed, IsCancelled, IsDecided, IsTaken, Expires, Fails, StopsEarly, Reserves, Gains,
                IsSettled, Active, Waiting, Claimable
  <2>2. run[r].attempts = 0 BY <1>7 DEF IInv, UntouchedBefore, NoRun
  <2> QED BY <1>5, <2>1, <2>2 DEF Quiet, SameWork
<1> QED
  BY <1>5, <1>6, <1>7 DEF Deed, Quiet, Enters, IsCancelled, IsDecided, IsTaken, Expires, Fails,
     StopsEarly, Reserves, Gains, IsSettled, SameWork

(* A submitted mission keeps its outputs, its fingerprints and its          *)
(* approvals, whatever happens to it.                                      *)
LEMMA Grows ==
  ASSUME IInv, IInv', NEW r \in Runs, Deed(r), run[r].status # "none"
  PROVE  /\ run'[r].status # "none" /\ run'[r].cursor \in Nat /\ run'[r].cursor >= run[r].cursor
         /\ run'[r].fingerprint = run[r].fingerprint
         /\ \A j \in 1 .. run[r].cursor : run'[r].outputs[j] = run[r].outputs[j]
         /\ \A i \in StepIds : approval[<<r, i>>].status = "approved" => SameDecision(<<r, i>>)
<1>1. /\ run[r].cursor \in Nat /\ run'[r].cursor \in Nat /\ run[r].outputs \in Seq(Output)
      /\ Len(run[r].outputs) = run[r].cursor
  BY DEF IInv, TypeOK, StoreTypeOK, RunRow, CursorFollowsOutputs
<1>2. SameWork(r) => /\ run'[r].cursor = run[r].cursor /\ run'[r].outputs = run[r].outputs
                     /\ run'[r].fingerprint = run[r].fingerprint
  BY DEF SameWork
<1>3. CASE Quiet(r) BY <1>1, <1>2, <1>3 DEF Quiet, SameDecisions
<1>4. CASE Enters(r) BY <1>4 DEF Enters, NoRun
<1>5. CASE IsCancelled(r) BY <1>1, <1>2, <1>5 DEF IsCancelled, EndsRequests
<1>6. CASE IsDecided(r) BY <1>1, <1>2, <1>6 DEF IsDecided
<1>7. CASE IsTaken(r) BY <1>1, <1>2, <1>7 DEF IsTaken, SameDecisions
<1>8. CASE Expires(r) BY <1>1, <1>2, <1>8 DEF Expires, EndsRequests
<1>9. CASE Fails(r) BY <1>1, <1>2, <1>9 DEF Fails, SameDecisions
<1>10. CASE StopsEarly(r)
  <2>1. \A i \in StepIds : approval[<<r, i>>].status = "approved" => SameDecision(<<r, i>>)
    BY <1>10 DEF StopsEarly, SameDecisions
  <2> QED BY <1>1, <1>2, <1>10, <2>1 DEF StopsEarly
<1>11. CASE Reserves(r) BY <1>1, <1>11 DEF Reserves, SameDecisions
<1>12. CASE Gains(r)
  <2>1. PICK output \in Output : run'[r].outputs = Append(run[r].outputs, output)
    BY <1>12 DEF Gains
  <2>2. \A j \in 1 .. run[r].cursor : run'[r].outputs[j] = run[r].outputs[j]
    BY <1>1, <2>1
  <2> QED BY <1>1, <1>12, <2>2 DEF Gains, SameDecisions
<1>13. CASE IsSettled(r) BY <1>1, <1>2, <1>13 DEF IsSettled, SameDecisions
<1> QED BY <1>3, <1>4, <1>5, <1>6, <1>7, <1>8, <1>9, <1>10, <1>11, <1>12, <1>13 DEF Deed

(* A plan's references are to earlier steps.                               *)
LEMMA RefersBack ==
  ASSUME NEW r \in Runs, NEW i \in 1 .. Len(Steps(r))
  PROVE  /\ Steps(r)[i].when.op # "always" => Steps(r)[i].when.step \in 1 .. (i - 1)
         /\ Steps(r)[i].binds \subseteq 1 .. (i - 1)
         /\ Steps(r)[i].when.op \in {"always", "exists", "eq"}
<1>1. Steps(r)[i].when \in Condition BY PlanStep DEF Step
<1> QED BY <1>1, MissionAssumption DEF Steps, Condition

(* What was asked keeps its cause, as outputs and approvals only grow.     *)
LEMMA AskedKept ==
  ASSUME IInv, IInv', NEW r \in Runs, AskedWithCause(r), Deed(r), AgentsFollow(r)
  PROVE  AskedWithCause(r)'
<1> SUFFICES ASSUME NEW i \in 1 .. Len(Steps(r)), Asked(r, i)'
             PROVE  /\ run'[r].status # "none" /\ i <= At(r)'
                    /\ ContractOf(r, i).approval => Covered(r, i)'
                    /\ Holds(r, i)' /\ \A j \in Steps(r)[i].binds : run'[r].outputs[j] # Absent
  BY DEF AskedWithCause, Steps, ContractOf
<1>1. Asked(r, i) \/ (Reserves(r) /\ i = At(r)) BY DEF AgentsFollow
<1>2. i \in StepIds /\ i \in Nat BY PlanStep
<1>3. run[r].cursor \in Nat /\ run[r].outputs \in Seq(Output) /\ Len(run[r].outputs) = run[r].cursor
  BY DEF IInv, TypeOK, StoreTypeOK, RunRow, CursorFollowsOutputs
<1>4. CASE Asked(r, i)
  <2>1. /\ run[r].status # "none" /\ i <= At(r)
        /\ ContractOf(r, i).approval => Covered(r, i)
        /\ Holds(r, i) /\ \A j \in Steps(r)[i].binds : run[r].outputs[j] # Absent
    BY <1>4 DEF AskedWithCause
  <2>2. /\ run'[r].status # "none" /\ run'[r].cursor >= run[r].cursor /\ run'[r].cursor \in Nat
        /\ run'[r].fingerprint = run[r].fingerprint
        /\ \A j \in 1 .. run[r].cursor : run'[r].outputs[j] = run[r].outputs[j]
        /\ approval[<<r, i>>].status = "approved" => SameDecision(<<r, i>>)
    <3>1. run[r].status # "none" BY <2>1
    <3> QED BY <1>2, <3>1, Grows
  <2>3. i - 1 <= run[r].cursor /\ i <= At(r)'
    <3>1. i <= run[r].cursor + 1 BY <2>1 DEF At
    <3>2. run'[r].cursor >= run[r].cursor /\ run'[r].cursor \in Nat BY <2>2
    <3>3. i - 1 <= run[r].cursor /\ i <= run'[r].cursor + 1 BY <1>2, <1>3, <3>1, <3>2
    <3> QED BY <3>3 DEF At
  <2>4. \A j \in 1 .. (i - 1) : run'[r].outputs[j] = run[r].outputs[j] BY <1>2, <1>3, <2>2, <2>3
  <2>5. Covered(r, i) => Covered(r, i)' BY <2>2, <2>4 DEF Covered, SameDecision, Steps
  <2>6. Holds(r, i)' BY <2>1, <2>4, RefersBack DEF Holds, Steps
  <2>7. \A j \in Steps(r)[i].binds : run'[r].outputs[j] # Absent BY <2>1, <2>4, RefersBack
  <2> QED BY <2>1, <2>2, <2>3, <2>5, <2>6, <2>7
<1>5. CASE Reserves(r) /\ i = At(r)
  <2>1. /\ run'[r].status # "none" /\ run'[r].outputs = run[r].outputs /\ run'[r].cursor = run[r].cursor
        /\ run'[r].fingerprint = run[r].fingerprint /\ SameDecision(<<r, i>>)
        /\ ConditionMatches(r) /\ ~InputProblem(r) /\ Approved(r)
    BY <1>2, <1>5 DEF Reserves, SameDecisions
  <2>2. ContractOf(r, i).approval => Covered(r, i)'
    <3> HAVE ContractOf(r, i).approval
    <3>1. /\ approval[<<r, i>>].status = "approved" /\ approval[<<r, i>>].action = ActionAt(r)
          /\ approval[<<r, i>>].reviewer # Mission[r].owner
      BY <1>5, <2>1 DEF Approved, ApprovalStands, ContractAt
    <3>2. ActionAt(r) \in Action /\ ActionAt(r).input = run[r].outputs
          /\ ActionAt(r).fingerprint = run[r].fingerprint[Steps(r)[i].capability]
      <4>1. run[r].fingerprint[Steps(r)[i].capability] \in Nat
        BY PlanStep DEF Step, IInv, TypeOK, StoreTypeOK, RunRow
      <4> QED BY <1>3, <1>5, <4>1 DEF ActionAt, Action, StepAt
    <3>3. Len(run[r].outputs) = i - 1 BY <1>3, <1>5 DEF At
    <3> QED BY <2>1, <3>1, <3>2, <3>3 DEF Covered, SameDecision, Steps
  <2>3. Holds(r, i)' BY <1>5, <2>1, RefersBack DEF Holds, ConditionMatches, Unresolved, StepAt, Steps
  <2>4. \A j \in Steps(r)[i].binds : run'[r].outputs[j] # Absent
    BY <1>5, <2>1 DEF InputProblem, Unresolved, StepAt
  <2> QED BY <1>2, <1>5, <2>1, <2>2, <2>3, <2>4 DEF At
<1> QED BY <1>1, <1>4, <1>5

(* What was passed keeps its cause.                                        *)
LEMMA PassedKept ==
  ASSUME IInv, IInv', NEW r \in Runs, PassedWithCause(r), EffectHeld(r), Deed(r), AgentsFollow(r)
  PROVE  PassedWithCause(r)'
<1> SUFFICES ASSUME NEW i \in 1 .. Len(Steps(r)), i <= run'[r].cursor, calls'[<<r, i>>] = 0
             PROVE  (~Holds(r, i)' /\ run'[r].outputs[i] = Absent) \/ Effectful(r, i)
  BY DEF PassedWithCause, Steps, Effectful, ContractOf
<1>1. i \in StepIds /\ i \in Nat /\ calls[<<r, i>>] \in Nat
  BY PlanStep DEF IInv, TypeOK, StoreTypeOK
<1>2. calls[<<r, i>>] = 0 BY <1>1 DEF AgentsFollow
<1>3. run[r].cursor \in Nat /\ run[r].outputs \in Seq(Output) /\ Len(run[r].outputs) = run[r].cursor
  BY DEF IInv, TypeOK, StoreTypeOK, RunRow, CursorFollowsOutputs
<1>4. run[r].status = "none" => run'[r].cursor = 0 \/ Quiet(r)
  BY DEF Deed, Quiet, Enters, IsCancelled, IsDecided, IsTaken, Expires, Fails, StopsEarly, Reserves, Gains,
         IsSettled, Active, Waiting, Claimable
<1>5. CASE run[r].status = "none" /\ Quiet(r)
  BY <1>1, <1>2, <1>5 DEF Quiet, SameWork, PassedWithCause, Holds, Steps
<1>6. CASE run[r].status # "none"
  <2>1. \A j \in 1 .. run[r].cursor : run'[r].outputs[j] = run[r].outputs[j]
    BY <1>6, Grows
  <2>2. CASE i <= run[r].cursor
    <3>1. (~Holds(r, i) /\ run[r].outputs[i] = Absent) \/ Effectful(r, i)
      BY <1>2, <2>2 DEF PassedWithCause
    <3>2. \A j \in 1 .. i : run'[r].outputs[j] = run[r].outputs[j] BY <1>1, <1>3, <2>1, <2>2
    <3>3. Steps(r)[i].when.op # "always" => Steps(r)[i].when.step \in 1 .. i
      BY <1>1, RefersBack
    <3>4. Steps(r)[i].when.op \in {"always", "exists", "eq"} BY RefersBack
    <3>5. Holds(r, i)' <=> Holds(r, i) BY <3>2, <3>3, <3>4 DEF Holds, Steps
    <3> QED BY <1>1, <3>1, <3>2, <3>5
  <2>3. CASE i > run[r].cursor
    <3>1. Gains(r)
      <4>1. run'[r].cursor # run[r].cursor BY <1>1, <1>3, <2>3
      <4>2. ~SameWork(r) /\ ~Reserves(r) /\ ~Enters(r) BY <1>6, <4>1 DEF SameWork, Reserves, Enters, NoRun
      <4> QED BY <4>2 DEF Deed, Quiet, IsCancelled, IsDecided, IsTaken, Expires, Fails, StopsEarly, IsSettled
    <3>2. PICK output \in Output :
            /\ run'[r].outputs = Append(run[r].outputs, output)
            /\ \/ run[r].status = "running" /\ calls[<<r, At(r)>>] > 0
               \/ /\ run[r].status = "running" /\ ~ConditionMatches(r) /\ ~ConditionProblem(r)
                  /\ output = Absent
               \/ run[r].status = "needs_reconciliation"
      BY <3>1 DEF Gains
    <3>3. i = At(r) BY <1>1, <1>3, <2>3, <3>1 DEF Gains, At
    <3>4. CASE run[r].status = "needs_reconciliation" BY <3>3, <3>4 DEF EffectHeld
    <3>5. CASE ~ConditionMatches(r) /\ ~ConditionProblem(r) /\ output = Absent
      <4>1. run'[r].outputs[i] = Absent BY <1>3, <3>2, <3>3, <3>5 DEF At
      <4>2. Steps(r)[i].when.op # "always" BY <3>3, <3>5 DEF ConditionMatches, StepAt
      <4>3. i - 1 = run[r].cursor BY <1>1, <1>3, <3>3 DEF At
      <4>4. Steps(r)[i].when.step \in 1 .. run[r].cursor BY <4>2, <4>3, RefersBack
      <4>5. run'[r].outputs[Steps(r)[i].when.step] = run[r].outputs[Steps(r)[i].when.step]
        BY <2>1, <4>4
      <4>6. StepAt(r) = Steps(r)[i] BY <3>3 DEF StepAt
      <4>7. ~Holds(r, i)'
        BY <3>5, <4>2, <4>5, <4>6 DEF Holds, ConditionMatches, ConditionProblem, Unresolved, Steps
      <4> QED BY <4>1, <4>7
    <3>6. ~(calls[<<r, At(r)>>] > 0) BY <1>2, <3>3
    <3> QED BY <3>2, <3>4, <3>5, <3>6
  <2> QED BY <1>1, <1>3, <2>2, <2>3
<1> QED BY <1>1, <1>4, <1>5, <1>6

-----------------------------------------------------------------------------
(* Every step does a deed to every mission.                                *)

(* Approvals that are left alone are decided as they were.                 *)
LEMMA DecisionsStay ==
  /\ approval' = approval => \A q \in Runs : SameDecisions(q)
  /\ run' = run /\ (\A q \in Runs : SameDecisions(q)) => \A q \in Runs : Deed(q)
BY DEF SameDecisions, SameDecision, Deed, Quiet, SameWork, SameFlag

(* A step that changes one row and its approvals.                          *)
LEMMA OneDeed ==
  ASSUME TypeOK, NEW r \in Runs, NEW row, run' = [run EXCEPT ![r] = row],
         \A q \in Runs \ {r} : SameDecisions(q), Deed(r)
  PROVE  \A q \in Runs : Deed(q)
<1>1. \A q \in Runs \ {r} : run'[q] = run[q] BY DEF TypeOK, StoreTypeOK
<1>2. \A q \in Runs \ {r} : Quiet(q) BY <1>1 DEF Quiet, SameWork, SameFlag
<1> QED BY <1>2 DEF Deed

(* What a worker writes when it lets a mission go keeps the work's fields. *)
LEMMA ReleaseFields ==
  ASSUME NEW row \in RunRow, NEW status, NEW kind
  PROVE  LET next == Release(row, status, kind)
         IN  /\ next.status = status /\ next.last_event = kind
             /\ next.cursor = row.cursor /\ next.outputs = row.outputs /\ next.attempts = row.attempts
             /\ next.tool_calls = row.tool_calls /\ next.cost = row.cost
             /\ next.fingerprint = row.fingerprint
             /\ next.cancel_requested = row.cancel_requested
BY DEF Release, RunRow

(* A mission whose deadline is over expires with what it waits for.        *)
LEMMA RecoverDeeds ==
  ASSUME IInv, HInv, NEW w \in Workers, RecoverApply(w)
  PROVE  \A q \in Runs : Deed(q)
<1> SUFFICES ASSUME NEW r \in Runs PROVE Deed(r)
  OBVIOUS
<1>1. run[r] \in RunRow /\ run'[r] = AfterRecovery(w, r)
  BY DEF IInv, TypeOK, StoreTypeOK, RecoverApply
<1>2. PendingHere(r) BY DEF HInv, Recorded
<1>3. \A i \in StepIds :
        /\ approval'[<<r, i>>].action = approval[<<r, i>>].action
        /\ approval'[<<r, i>>].reviewer = approval[<<r, i>>].reviewer
        /\ approval'[<<r, i>>].status =
             IF approval[<<r, i>>].status = "pending" /\ (MissesDeadline(w, r) \/ ApprovalExpires(w, r, i))
             THEN "expired" ELSE approval[<<r, i>>].status
  <2> SUFFICES ASSUME NEW i \in StepIds
               PROVE  /\ approval'[<<r, i>>].action = approval[<<r, i>>].action
                      /\ approval'[<<r, i>>].reviewer = approval[<<r, i>>].reviewer
                      /\ approval'[<<r, i>>].status =
                           IF approval[<<r, i>>].status = "pending" /\ (MissesDeadline(w, r) \/ ApprovalExpires(w, r, i))
                           THEN "expired" ELSE approval[<<r, i>>].status
    OBVIOUS
  <2>1. approval'[<<r, i>>] =
          IF \/ approval[<<r, i>>].status = "pending" /\ MissesDeadline(w, r)
             \/ ApprovalExpires(w, r, i)
          THEN [approval[<<r, i>>] EXCEPT !.status = "expired"] ELSE approval[<<r, i>>]
    BY DEF RecoverApply
  <2>2. approval[<<r, i>>] \in ApprovalRow BY DEF IInv, TypeOK, StoreTypeOK
  <2>3. ApprovalExpires(w, r, i) => approval[<<r, i>>].status = "pending" BY DEF ApprovalExpires
  <2> QED BY <2>1, <2>2, <2>3 DEF ApprovalRow
<1>4. CASE StillLapsed(w, r) # {}
  <2> DEFINE e == CHOOSE e \in StillLapsed(w, r) : TRUE
  <2>1. e \in StillLapsed(w, r) BY <1>4
  <2>2. /\ e \in scan[w].leases /\ e.run = r /\ run[r].status = "running"
        /\ run[r].lease_token = e.token
    BY <2>1 DEF StillLapsed
  <2>3. /\ e.status \in {"needs_reconciliation", "cancelled", "retry_wait", "failed"}
        /\ Effectful(r, At(r)) <=> e.status = "needs_reconciliation"
        /\ e.status = "retry_wait" => AttemptLeft(r)
    BY <2>2 DEF IInv, VerdictsStand, HInv, HoldVerdicts, StandingVerdict
  <2>4. AfterLeases(w, r) = [Release(run[r], e.status, "step.lease_expired") EXCEPT !.due = TRUE]
    BY <1>4 DEF AfterLeases
  <2> HIDE DEF e
  <2>5. \A i \in StepIds : approval[<<r, i>>].status # "pending" BY <1>2, <2>2 DEF PendingHere
  <2>6. SameDecisions(r) BY <1>3, <2>5 DEF SameDecisions, SameDecision
  <2> DEFINE row == AfterLeases(w, r)
  <2>7. /\ row \in RunRow /\ row.status = e.status /\ row.last_event = "step.lease_expired"
        /\ row.cursor = run[r].cursor /\ row.outputs = run[r].outputs /\ row.attempts = run[r].attempts
        /\ row.tool_calls = run[r].tool_calls /\ row.cost = run[r].cost
        /\ row.fingerprint = run[r].fingerprint
        /\ row.cancel_requested = run[r].cancel_requested
    <3>1. row \in RunRow BY RecoveryTypes DEF IInv
    <3> QED BY <1>1, <2>4, <3>1 DEF Release, RunRow
  <2> HIDE DEF row
  <2>8. \/ AfterDeadlines(w, r) = row
        \/ /\ row.status = "retry_wait"
           /\ AfterDeadlines(w, r) = [row EXCEPT !.status = "expired", !.last_event = "workflow.expired"]
    BY <2>3, <2>7 DEF AfterDeadlines, MissesDeadline, Waiting, Claimable, row
  <2>9. run'[r] = AfterDeadlines(w, r)
    <3>1. AfterDeadlines(w, r).status # "waiting_approval" BY <2>3, <2>7, <2>8 DEF RunRow
    <3> QED BY <1>1, <3>1 DEF AfterRecovery
  <2>10. Fails(r)
    <3>1. CASE AfterDeadlines(w, r) = row BY <2>2, <2>3, <2>6, <2>7, <2>9, <3>1 DEF Fails, SameWork, SameFlag
    <3>2. CASE /\ row.status = "retry_wait"
               /\ AfterDeadlines(w, r) = [row EXCEPT !.status = "expired", !.last_event = "workflow.expired"]
      BY <2>2, <2>3, <2>6, <2>7, <2>9, <3>2 DEF Fails, SameWork, SameFlag, RunRow
    <3> QED BY <2>8, <3>1, <3>2
  <2> QED BY <2>10 DEF Deed
<1>5. CASE StillLapsed(w, r) = {}
  <2>1. AfterLeases(w, r) = run[r] BY <1>5 DEF AfterLeases
  <2>2. CASE MissesDeadline(w, r)
    <3>1. run[r].status \in Waiting BY <2>1, <2>2 DEF MissesDeadline
    <3>2. AfterDeadlines(w, r) = [run[r] EXCEPT !.status = "expired", !.last_event = "workflow.expired"]
      BY <2>1, <2>2 DEF AfterDeadlines
    <3>3. run'[r] = AfterDeadlines(w, r) BY <1>1, <3>2 DEF AfterRecovery, RunRow
    <3>4. EndsRequests(r) BY <1>3, <2>2 DEF EndsRequests, SameDecision
    <3>5. run'[r].last_event = "workflow.expired" BY <1>1, <3>2, <3>3 DEF RunRow
    <3>6. Expires(r) BY <1>1, <3>1, <3>2, <3>3, <3>4, <3>5 DEF Expires, SameWork, SameFlag, RunRow
    <3> QED BY <3>6 DEF Deed
  <2>3. CASE ~MissesDeadline(w, r)
    <3>1. AfterDeadlines(w, r) = run[r] BY <2>1, <2>3 DEF AfterDeadlines
    <3>2. CASE \E i \in StepIds : ApprovalExpires(w, r, i)
      <4>1. PICK i \in StepIds : ApprovalExpires(w, r, i) BY <3>2
      <4>2. approval[<<r, i>>].status = "pending" BY <4>1 DEF ApprovalExpires
      <4>3. run[r].status = "waiting_approval" /\ \A j \in StepIds \ {i} : approval[<<r, j>>].status # "pending"
        BY <1>2, <4>2 DEF PendingHere
      <4>4. run'[r] = [run[r] EXCEPT !.status = "expired"] BY <1>1, <3>1, <3>2, <4>3 DEF AfterRecovery
      <4>5. EndsRequests(r) BY <1>3, <4>1, <4>3 DEF EndsRequests, SameDecision
      <4>6. i = At(r) /\ approval'[<<r, i>>].status = "expired"
        BY <1>2, <1>3, <4>1, <4>2 DEF PendingHere
      <4>7. run'[r].last_event = run[r].last_event BY <1>1, <4>4 DEF RunRow
      <4>8. Expires(r) BY <1>1, <4>3, <4>4, <4>5, <4>6, <4>7 DEF Expires, SameWork, SameFlag, RunRow, Waiting
      <4> QED BY <4>8 DEF Deed
    <3>3. CASE ~\E i \in StepIds : ApprovalExpires(w, r, i)
      <4>1. run'[r] = run[r] BY <1>1, <3>1, <3>3 DEF AfterRecovery
      <4>2. SameDecisions(r) BY <1>3, <2>3, <3>3 DEF SameDecisions, SameDecision
      <4> QED BY <4>1, <4>2 DEF Deed, Quiet, SameWork, SameFlag
    <3> QED BY <3>2, <3>3
  <2> QED BY <2>2, <2>3
<1> QED BY <1>4, <1>5

(* A claimed mission runs, and is otherwise as it was.                     *)
LEMMA ClaimDeeds ==
  ASSUME IInv, NEW w \in Workers, ClaimTry(w)
  PROVE  \A q \in Runs : Deed(q)
<1>1. PICK r \in job[w].todo :
        \/ Claims(r) /\ Claim(w, r, CHOOSE t \in FreshTokens : TRUE)
        \/ run' = run
  BY DEF ClaimTry
<1>2. r \in Runs /\ approval' = approval BY DEF ClaimTry, IInv, TypeOK, WorkerTypeOK, Job
<1>3. CASE run' = run BY <1>2, <1>3, DecisionsStay
<1>4. CASE Claims(r) /\ Claim(w, r, CHOOSE t \in FreshTokens : TRUE)
  <2> DEFINE token == CHOOSE t \in FreshTokens : TRUE
             row == [run[r] EXCEPT !.status = "running", !.lease_token = token, !.lapsed = FALSE]
  <2>1. run' = [run EXCEPT ![r] = row] BY <1>4 DEF Claim
  <2> HIDE DEF token
  <2>2. run[r] \in RunRow /\ run'[r] = row BY <1>2, <2>1 DEF IInv, TypeOK, StoreTypeOK
  <2>3. IsTaken(r)
    BY <1>2, <1>4, <2>2, DecisionsStay DEF IsTaken, Claims, SameWork, SameFlag, RunRow
  <2> HIDE DEF row
  <2> QED BY <1>2, <2>1, <2>3, DecisionsStay, OneDeed DEF Deed, IInv
<1> QED BY <1>1, <1>3, <1>4
(* prepare() stops a mission, skips its step, or asks for an approval.     *)
LEMMA StopDeeds ==
  ASSUME IInv, HInv, NEW w \in Workers, PrepareStop(w)
  PROVE  \A q \in Runs : Deed(q)
<1> DEFINE r == job[w].run
<1>1. job[w].pc = "claimed" /\ r \in Runs BY DEF PrepareStop, IInv, JobsHold
<1>2. run[r] \in RunRow BY <1>1 DEF IInv, TypeOK, StoreTypeOK
<1>3. ASSUME Fenced(w)
      PROVE  /\ run[r].status = "running" /\ At(r) \in StepIds /\ AttemptLeft(r)
             /\ Effectful(r, At(r)) => run[r].attempts = 0
  <2>1. run[r].status = "running" /\ run[r].lease_token = job[w].token BY <1>3 DEF Fenced
  <2>2. At(r) <= Len(Steps(r)) /\ At(r) \in StepIds BY <1>1, <2>1, StandsAtStep DEF IInv, Active
  <2>3. AttemptLeft(r) BY <1>1, <2>1 DEF HInv, Calling
  <2> QED BY <1>1, <2>1, <2>2, <2>3 DEF IInv, EffectReservedOnce
<1> HIDE DEF r
<1>4. CASE run' = run /\ approval' = approval BY <1>4, DecisionsStay
<1>5. CASE Fenced(w) /\ run' = [run EXCEPT ![r] = BlockedRow(r)] /\ approval' = approval
  <2>1. run'[r] = BlockedRow(r) BY <1>1, <1>5 DEF IInv, TypeOK, StoreTypeOK
  <2>2. /\ SameWork(r) /\ SameFlag(r) /\ run'[r].status = "blocked"
        /\ run'[r].last_event = "step.blocked"
    BY <1>2, <2>1, ReleaseFields DEF BlockedRow, SameWork, SameFlag
  <2>3. StopsEarly(r) BY <1>1, <1>3, <1>5, <2>2, DecisionsStay DEF StopsEarly
  <2> QED BY <1>1, <1>5, <2>3, DecisionsStay, OneDeed DEF Deed, IInv
<1>6. CASE /\ Fenced(w) /\ run[r].cancel_requested /\ approval' = approval
           /\ run' = [run EXCEPT ![r] = CancelledRow(r)]
  <2>1. run'[r] = CancelledRow(r) BY <1>1, <1>6 DEF IInv, TypeOK, StoreTypeOK
  <2>2. /\ SameWork(r) /\ SameFlag(r) /\ run'[r].status = "cancelled"
        /\ run'[r].last_event = run[r].last_event
    BY <1>2, <2>1, ReleaseFields DEF CancelledRow, SameWork, SameFlag
  <2>3. StopsEarly(r) BY <1>1, <1>3, <1>6, <2>2, DecisionsStay DEF StopsEarly
  <2> QED BY <1>1, <1>6, <2>3, DecisionsStay, OneDeed DEF Deed, IInv
<1>7. CASE /\ Fenced(w) /\ Goes(w, r) /\ ~ConditionMatches(r) /\ approval' = approval
           /\ run' = [run EXCEPT ![r] = SkippedRow(r)]
  <2> DEFINE status == IF IsLast(r) THEN "completed" ELSE "queued"
             kind == IF IsLast(r) THEN "workflow.completed" ELSE "step.skipped"
  <2>1. run'[r] = Advance(Release(run[r], status, kind), Absent) /\ Absent \in Output
    BY <1>1, <1>7 DEF IInv, TypeOK, StoreTypeOK, SkippedRow, Output
  <2>2. \/ status = "completed" /\ kind = "workflow.completed" /\ IsLast(r)
        \/ status = "queued" /\ kind = "step.skipped" /\ ~IsLast(r)
    OBVIOUS
  <2> HIDE DEF status, kind
  <2>3. /\ run'[r].status = status /\ run'[r].last_event = kind
        /\ run'[r].outputs = Append(run[r].outputs, Absent) /\ run'[r].cursor = run[r].cursor + 1
        /\ run'[r].attempts = 0 /\ run'[r].tool_calls = run[r].tool_calls
        /\ run'[r].cost = run[r].cost
        /\ run'[r].fingerprint = run[r].fingerprint /\ SameFlag(r)
    BY <1>2, <2>1 DEF Release, Advance, RunRow, SameFlag
  <2>4. SameDecisions(r) /\ ~ConditionProblem(r) BY <1>1, <1>7, DecisionsStay DEF Goes
  <2>5. Gains(r)
    BY <1>3, <1>7, <2>1, <2>2, <2>3, <2>4 DEF Gains
  <2> QED BY <1>1, <1>7, <2>5, DecisionsStay, OneDeed DEF Deed, IInv
<1>8. CASE /\ Fenced(w) /\ NeverRequested(r) /\ run' = [run EXCEPT ![r] = WaitingRow(r)]
           /\ approval' = [approval EXCEPT ![<<r, At(r)>>] =
                 [status |-> "pending", action |-> ActionAt(r), lapsed |-> run[r].overdue, reviewer |-> None]]
  <2>1. run'[r] = WaitingRow(r) BY <1>1, <1>8 DEF IInv, TypeOK, StoreTypeOK
  <2>2. /\ approval'[<<r, At(r)>>].status = "pending"
        /\ \A p \in Runs \X StepIds : p # <<r, At(r)>> => approval'[p] = approval[p]
    <3>1. <<r, At(r)>> \in Runs \X StepIds BY <1>1, <1>3, <1>8
    <3> QED BY <1>8, <3>1 DEF IInv, TypeOK, StoreTypeOK
  <2>3. /\ \A j \in StepIds \ {At(r)} : SameDecision(<<r, j>>)
        /\ \A q \in Runs \ {r} : SameDecisions(q)
    BY <1>1, <2>2 DEF SameDecisions, SameDecision
  <2>4. /\ SameWork(r) /\ SameFlag(r) /\ run'[r].status = "waiting_approval"
        /\ run'[r].last_event = "approval.requested"
    BY <1>2, <2>1, ReleaseFields DEF WaitingRow, SameWork, SameFlag
  <2>5. approval[<<r, At(r)>>].status = "none" BY <1>8 DEF NeverRequested
  <2>6. StopsEarly(r) BY <1>3, <1>8, <2>2, <2>3, <2>4, <2>5 DEF StopsEarly
  <2> QED BY <1>1, <1>8, <2>3, <2>6, OneDeed DEF Deed, IInv
<1> QED BY <1>4, <1>5, <1>6, <1>7, <1>8 DEF PrepareStop, r

(* prepare() counts the attempt.                                           *)
LEMMA StartDeeds ==
  ASSUME IInv, HInv, NEW w \in Workers, PrepareStart(w)
  PROVE  Reserves(job[w].run) /\ \A q \in Runs : Deed(q)
<1> DEFINE r == job[w].run
<1>1. /\ job[w].pc = "claimed" /\ r \in Runs /\ run' = [run EXCEPT ![r] = StartedRow(r)]
      /\ approval' = approval /\ Fenced(w) /\ Goes(w, r) /\ ConditionMatches(r) /\ ~InputProblem(r)
      /\ Approved(r) /\ ~BudgetExhausted(r)
  BY DEF PrepareStart, IInv, JobsHold
<1> HIDE DEF r
<1>2. run[r] \in RunRow /\ run'[r] = StartedRow(r) BY <1>1 DEF IInv, TypeOK, StoreTypeOK
<1>3. run[r].status = "running" /\ run[r].lease_token = job[w].token BY <1>1 DEF Fenced, r
<1>4. At(r) <= Len(Steps(r)) BY <1>1, <1>3, StandsAtStep DEF IInv, Active
<1>5. Effectful(r, At(r)) => run[r].attempts = 0 BY <1>1, <1>3, <1>4 DEF IInv, EffectReservedOnce, r
<1>6. /\ run'[r].status = "running" /\ run'[r].last_event = "step.started" /\ SameFlag(r)
      /\ run'[r].cursor = run[r].cursor /\ run'[r].outputs = run[r].outputs
      /\ run'[r].fingerprint = run[r].fingerprint
      /\ run'[r].attempts = run[r].attempts + 1 /\ run'[r].tool_calls = run[r].tool_calls + 1
      /\ run'[r].cost = run[r].cost + ContractAt(r).cost
  BY <1>2, <1>3 DEF StartedRow, RunRow, SameFlag
<1>7. AttemptLeft(r) BY <1>1, <1>3 DEF HInv, Calling, r
<1>8. Reserves(r)
  BY <1>1, <1>3, <1>5, <1>6, <1>7, DecisionsStay DEF Reserves, Goes, Entitled
<1> QED BY <1>1, <1>8, DecisionsStay, OneDeed DEF Deed, IInv, r

(* finish() with an error fails the mission.                               *)
LEMMA FailureFails ==
  ASSUME IInv, NEW r \in Runs, NEW retryable \in BOOLEAN, run[r].status = "running",
         run' = [run EXCEPT ![r] = FailedRow(r, retryable)], approval' = approval
  PROVE  Fails(r)
<1> DEFINE status == FailedStatus(r, retryable)
           row == Release(run[r], status, "step.failed")
<1>1. run'[r] = [row EXCEPT !.due = FALSE] /\ run[r] \in RunRow
  BY DEF FailedRow, IInv, TypeOK, StoreTypeOK
<1>2. /\ status \in {"needs_reconciliation", "cancelled", "retry_wait", "failed"}
      /\ Effectful(r, At(r)) <=> status = "needs_reconciliation"
      /\ status = "retry_wait" => AttemptLeft(r)
  BY DEF FailedStatus, AttemptLeft
<1> HIDE DEF status
<1>3. /\ row.status = status /\ row.last_event = "step.failed" /\ row.cursor = run[r].cursor
      /\ row.outputs = run[r].outputs /\ row.attempts = run[r].attempts
      /\ row.tool_calls = run[r].tool_calls /\ row.cost = run[r].cost
      /\ row.fingerprint = run[r].fingerprint
      /\ row.cancel_requested = run[r].cancel_requested
      /\ DOMAIN row = DOMAIN run[r]
  BY <1>1, ReleaseFields DEF Release
<1>4. \A field \in DOMAIN run[r] \ {"due"} : run'[r][field] = row[field] BY <1>1, <1>3
<1> HIDE DEF row
<1>5. run'[r].status = status /\ run'[r].last_event = "step.failed" /\ SameWork(r) /\ SameFlag(r)
  BY <1>1, <1>3, <1>4 DEF RunRow, SameWork, SameFlag
<1> QED BY <1>2, <1>5, DecisionsStay DEF Fails

(* finish() records the output or the failure of the step that was asked.  *)
LEMMA FinishDeeds ==
  ASSUME IInv, HInv, NEW w \in Workers,
         \/ \E retryable \in BOOLEAN : FinishError(w, retryable)
         \/ \E output \in Output : FinishOutput(w, output)
  PROVE  \A q \in Runs : Deed(q)
<1> DEFINE r == job[w].run
<1>1. r \in Runs /\ approval' = approval BY DEF FinishError, FinishOutput, IInv, JobsHold
<1>2. run[r] \in RunRow BY <1>1 DEF IInv, TypeOK, StoreTypeOK
<1>3. CASE run' = run BY <1>1, <1>3, DecisionsStay
<1>4. ASSUME NEW retryable \in BOOLEAN, Fenced(w), run' = [run EXCEPT ![r] = FailedRow(r, retryable)]
      PROVE  \A q \in Runs : Deed(q)
  <2>1. Fails(r) BY <1>1, <1>4, FailureFails DEF Fenced
  <2> HIDE DEF r
  <2> QED BY <1>1, <1>4, <2>1, DecisionsStay, OneDeed DEF Deed, IInv
<1>5. ASSUME NEW output \in Output, job[w].pc = "calling", Fenced(w),
             run' = [run EXCEPT ![r] = SucceededRow(r, output)]
      PROVE  \A q \in Runs : Deed(q)
  <2> DEFINE status == SucceededStatus(r)
             kind == IF status = "completed" THEN "workflow.completed" ELSE "step.completed"
  <2>1. run'[r] = Advance(Release(run[r], status, kind), output)
    BY <1>1, <1>5 DEF SucceededRow, IInv, TypeOK, StoreTypeOK
  <2>2. \/ status = "cancelled" /\ kind = "step.completed"
        \/ status = "completed" /\ kind = "workflow.completed" /\ IsLast(r)
        \/ status = "queued" /\ kind = "step.completed" /\ ~IsLast(r)
    BY DEF SucceededStatus
  <2> HIDE DEF status, kind
  <2>3. /\ run'[r].status = status /\ run'[r].last_event = kind
        /\ run'[r].outputs = Append(run[r].outputs, output) /\ run'[r].cursor = run[r].cursor + 1
        /\ run'[r].attempts = 0 /\ run'[r].tool_calls = run[r].tool_calls
        /\ run'[r].cost = run[r].cost
        /\ run'[r].fingerprint = run[r].fingerprint /\ SameFlag(r)
    BY <1>2, <2>1 DEF Release, Advance, RunRow, SameFlag
  <2>4. run[r].status = "running" /\ run[r].lease_token = job[w].token BY <1>5 DEF Fenced
  <2>5. calls[<<r, At(r)>>] > 0 BY <1>5, <2>4 DEF HInv, Calling
  <2>6. SameDecisions(r) BY <1>1, DecisionsStay
  <2>7. Gains(r) BY <2>2, <2>3, <2>4, <2>5, <2>6 DEF Gains
  <2> HIDE DEF r
  <2> QED BY <1>1, <1>5, <2>7, DecisionsStay, OneDeed DEF Deed, IInv
<1> QED BY <1>3, <1>4, <1>5 DEF FinishError, FinishOutput

(* The clock changes nothing but what it ages.                             *)
LEMMA ClockDeeds ==
  ASSUME IInv, Clock
  PROVE  \A q \in Runs : Deed(q)
<1>1. \A p \in Runs \X StepIds : approval[p] \in ApprovalRow BY DEF IInv, TypeOK, StoreTypeOK
<1>2. \A q \in Runs : SameDecisions(q)
  <2>1. CASE approval' = approval BY <2>1, DecisionsStay
  <2>2. ASSUME NEW r \in Runs, DeadlinePasses(r) PROVE \A p \in Runs \X StepIds : SameDecision(p)
    BY <1>1, <2>2 DEF DeadlinePasses, ApprovalRow, SameDecision
  <2>3. ASSUME NEW r \in Runs, NEW i \in StepIds, ApprovalLapses(r, i)
        PROVE  \A p \in Runs \X StepIds : SameDecision(p)
    <3>1. approval' = [approval EXCEPT ![<<r, i>>] = [@ EXCEPT !.lapsed = TRUE]]
      BY <2>3 DEF ApprovalLapses
    <3>2. \A p \in Runs \X StepIds :
            approval'[p] = IF p = <<r, i>> THEN [approval[p] EXCEPT !.lapsed = TRUE] ELSE approval[p]
      BY <3>1 DEF IInv, TypeOK, StoreTypeOK
    <3> QED BY <1>1, <3>2 DEF ApprovalRow, SameDecision
  <2> QED BY <2>1, <2>2, <2>3 DEF Clock, LeaseLapses, BackoffElapses, SameDecisions
<1>3. ASSUME NEW r \in Runs, LeaseLapses(r) \/ BackoffElapses(r) \/ DeadlinePasses(r)
      PROVE  \A q \in Runs : Deed(q)
  <2>1. \E row \in {[run[r] EXCEPT !.lapsed = TRUE], [run[r] EXCEPT !.due = TRUE],
                    [run[r] EXCEPT !.overdue = TRUE]} : run' = [run EXCEPT ![r] = row]
    BY <1>3 DEF LeaseLapses, BackoffElapses, DeadlinePasses
  <2>2. SameWork(r) /\ SameFlag(r) /\ run'[r].status = run[r].status /\ run'[r].last_event = run[r].last_event
    BY <2>1 DEF SameWork, SameFlag, IInv, TypeOK, StoreTypeOK, RunRow
  <2>3. Quiet(r) BY <1>2, <2>2 DEF Quiet
  <2> QED BY <1>2, <2>1, <2>3, OneDeed DEF IInv, Deed
<1>4. CASE run' = run BY <1>2, <1>4, DecisionsStay
<1> QED BY <1>3, <1>4 DEF Clock, ApprovalLapses
(* What people do through the service.                                     *)
LEMMA ServeDeeds ==
  ASSUME IInv, HInv, Serve
  PROVE  \A q \in Runs : Deed(q)
<1>1. CASE run' = run /\ approval' = approval BY <1>1, DecisionsStay
<1>2. ASSUME NEW r \in Runs, Submit(r) PROVE \A q \in Runs : Deed(q)
  <2> DEFINE row == [NoRun EXCEPT !.status = "queued", !.fingerprint = catalog,
                                  !.last_event = "workflow.submitted"]
  <2>1. run' = [run EXCEPT ![r] = row] /\ run[r].status = "none" /\ approval' = approval
    BY <1>2 DEF Submit, Submitted
  <2>2. run'[r] = row /\ run[r] = NoRun BY <2>1 DEF IInv, TypeOK, StoreTypeOK, UntouchedBefore
  <2>3. /\ run'[r].status = "queued" /\ run'[r].last_event = "workflow.submitted"
        /\ run'[r].cursor = 0 /\ run'[r].outputs = <<>> /\ run'[r].attempts = 0
        /\ run'[r].tool_calls = 0 /\ run'[r].cost = 0 /\ ~run'[r].cancel_requested
    BY <2>2 DEF NoRun
  <2>4. SameDecisions(r) BY <2>1, DecisionsStay
  <2>5. Enters(r) BY <2>2, <2>3, <2>4 DEF Enters
  <2> HIDE DEF row
  <2> QED BY <2>1, <2>5, DecisionsStay, OneDeed DEF Deed, IInv
<1>3. ASSUME NEW p \in People, NEW r \in Runs, Cancel(p, r) PROVE \A q \in Runs : Deed(q)
  <2>1. /\ run' = [run EXCEPT ![r] = CancelledNow(run[r])] /\ run[r].status \in Active
        /\ approval' = [q \in Runs \X StepIds |->
             IF q[1] = r /\ approval[q].status = "pending"
             THEN [approval[q] EXCEPT !.status = "cancelled"] ELSE approval[q]]
    BY <1>3 DEF Cancel
  <2>2. run[r] \in RunRow /\ run'[r] = CancelledNow(run[r]) BY <2>1 DEF IInv, TypeOK, StoreTypeOK
  <2>3. /\ SameWork(r) /\ run'[r].cancel_requested
        /\ run'[r].last_event = "workflow.cancellation_requested"
        /\ run'[r].status = IF run[r].status = "running" THEN "running" ELSE "cancelled"
    BY <2>2 DEF CancelledNow, RunRow, SameWork
  <2>4. \A q \in Runs, i \in StepIds :
          approval'[<<q, i>>] = IF q = r /\ approval[<<q, i>>].status = "pending"
                                THEN [approval[<<q, i>>] EXCEPT !.status = "cancelled"]
                                ELSE approval[<<q, i>>]
    BY <2>1
  <2>5. \A q \in Runs, i \in StepIds : approval[<<q, i>>] \in ApprovalRow
    BY DEF IInv, TypeOK, StoreTypeOK
  <2>6. EndsRequests(r)
    <3> SUFFICES ASSUME NEW i \in StepIds
                 PROVE  /\ approval[<<r, i>>].status # "pending" => SameDecision(<<r, i>>)
                        /\ approval'[<<r, i>>].status # "pending"
                        /\ approval[<<r, i>>].status = "pending" => approval'[<<r, i>>].status # "approved"
      BY DEF EndsRequests
    <3>1. approval[<<r, i>>].status # "pending" => approval'[<<r, i>>] = approval[<<r, i>>]
      BY <2>4
    <3>2. approval[<<r, i>>].status = "pending" => approval'[<<r, i>>].status = "cancelled"
      <4>1. approval[<<r, i>>].status = "pending" =>
              approval'[<<r, i>>] = [approval[<<r, i>>] EXCEPT !.status = "cancelled"]
        BY <2>4
      <4>2. approval[<<r, i>>] \in ApprovalRow BY <2>5
      <4> QED BY <4>1, <4>2 DEF ApprovalRow
    <3> QED BY <3>1, <3>2 DEF SameDecision
  <2>7. \A q \in Runs \ {r} : SameDecisions(q) BY <2>4 DEF SameDecisions, SameDecision
  <2>8. IsCancelled(r) BY <2>1, <2>3, <2>6 DEF IsCancelled
  <2> QED BY <2>1, <2>7, <2>8, OneDeed DEF Deed, IInv
<1>4. ASSUME NEW p \in People, ReviewWrite(p), ~(run' = run /\ approval' = approval)
      PROVE  \A q \in Runs : Deed(q)
  <2> DEFINE r == desk[p].run
             i == desk[p].step
             allow == desk[p].allow
  <2>1. desk[p] # None /\ r \in Runs /\ i \in StepIds /\ allow \in BOOLEAN
    BY <1>4 DEF ReviewWrite, IInv, TypeOK, ServiceTypeOK, Decision
  <2>2. p # Mission[r].owner BY <2>1 DEF HInv, DeskHolds
  <2>3. /\ approval[<<r, i>>].status = "pending" /\ run[r].status = "waiting_approval"
        /\ approval' = [approval EXCEPT ![<<r, i>>] = DecidedApproval(approval[<<r, i>>], p, allow)]
        /\ run' = [run EXCEPT ![r] = DecidedRun(run[r], allow)]
    BY <1>4 DEF ReviewWrite, Undecided, StillWaits
  <2> HIDE DEF r, i, allow
  <2>4. run[r] \in RunRow /\ run'[r] = DecidedRun(run[r], allow)
    BY <2>1, <2>3 DEF IInv, TypeOK, StoreTypeOK
  <2>5. /\ SameWork(r) /\ SameFlag(r) /\ run'[r].last_event = "approval.decided"
        /\ run'[r].status = IF allow THEN "queued" ELSE "rejected"
    BY <2>4 DEF DecidedRun, RunRow, SameWork, SameFlag
  <2>6. <<r, i>> \in Runs \X StepIds BY <2>1
  <2>7. /\ approval'[<<r, i>>] = DecidedApproval(approval[<<r, i>>], p, allow)
        /\ approval[<<r, i>>] \in ApprovalRow
        /\ \A q \in Runs \X StepIds : q # <<r, i>> => approval'[q] = approval[q]
    BY <2>3, <2>6 DEF IInv, TypeOK, StoreTypeOK
  <2>8. /\ approval'[<<r, i>>].action = approval[<<r, i>>].action
        /\ approval'[<<r, i>>].reviewer = p
        /\ approval'[<<r, i>>].status = IF allow THEN "approved" ELSE "rejected"
    BY <2>7 DEF DecidedApproval, ApprovalRow
  <2>9. /\ \A j \in StepIds \ {i} : SameDecision(<<r, j>>)
        /\ \A q \in Runs \ {r} : SameDecisions(q)
    BY <2>1, <2>7 DEF SameDecisions, SameDecision
  <2>10. IsDecided(r) BY <2>1, <2>2, <2>3, <2>5, <2>8, <2>9 DEF IsDecided
  <2> QED BY <2>1, <2>3, <2>9, <2>10, OneDeed DEF Deed, IInv
<1>5. ASSUME NEW p \in People, NEW r \in Runs, Reconcile(p, r) PROVE \A q \in Runs : Deed(q)
  <2>1. run[r].status = "needs_reconciliation" /\ run[r] \in RunRow /\ approval' = approval
    BY <1>5 DEF Reconcile, IInv, TypeOK, StoreTypeOK
  <2>2. ASSUME NEW status \in {"failed", "cancelled"}, run' = [run EXCEPT ![r] = Settled(r, status)]
        PROVE  \A q \in Runs : Deed(q)
    <3>1. run'[r] = Settled(r, status) BY <2>2 DEF IInv, TypeOK, StoreTypeOK
    <3>2. SameWork(r) /\ SameFlag(r) /\ run'[r].status = status /\ run'[r].last_event = "step.reconciled"
      BY <2>1, <3>1 DEF Settled, RunRow, SameWork, SameFlag
    <3>3. IsSettled(r) BY <2>1, <2>2, <3>2, DecisionsStay DEF IsSettled
    <3> QED BY <2>1, <2>2, <3>3, DecisionsStay, OneDeed DEF Deed, IInv
  <2>3. ASSUME NEW output \in Output, run' = [run EXCEPT ![r] = ConfirmedRow(r, output)]
        PROVE  \A q \in Runs : Deed(q)
    <3> DEFINE status == IF run[r].cancel_requested THEN "cancelled"
                         ELSE IF IsLast(r) THEN "completed" ELSE "queued"
    <3>1. run'[r] = Advance(Settled(r, status), output)
      BY <2>3 DEF ConfirmedRow, IInv, TypeOK, StoreTypeOK
    <3>2. \/ status = "cancelled" \/ (status = "completed" /\ IsLast(r))
          \/ (status = "queued" /\ ~IsLast(r))
      OBVIOUS
    <3> HIDE DEF status
    <3>3. /\ run'[r].status = status /\ run'[r].last_event = "step.reconciled"
          /\ run'[r].outputs = Append(run[r].outputs, output) /\ run'[r].cursor = run[r].cursor + 1
          /\ run'[r].attempts = 0 /\ run'[r].tool_calls = run[r].tool_calls
          /\ run'[r].cost = run[r].cost
          /\ run'[r].fingerprint = run[r].fingerprint /\ SameFlag(r)
      BY <2>1, <3>1 DEF Settled, Advance, RunRow, SameFlag
    <3>4. Gains(r) BY <2>1, <3>2, <3>3, DecisionsStay DEF Gains
    <3> QED BY <2>1, <2>3, <3>4, DecisionsStay, OneDeed DEF Deed, IInv
  <2> QED BY <1>5, <2>2, <2>3 DEF Reconcile
<1> QED
  BY <1>1, <1>2, <1>3, <1>4, <1>5 DEF Serve, Request, ReviewRead, ChangeAccess, Register, storeVars

(* Every step does a deed to every mission.                                *)
LEMMA Deeds ==
  ASSUME IInv, HInv, [Next]_vars
  PROVE  \A q \in Runs : Deed(q)
<1>1. CASE Work
  <2>1. PICK w \in Workers : Tick(w) \/ Crash(w) \/ Restart(w) BY <1>1 DEF Work
  <2>2. CASE run' = run /\ approval' = approval BY <2>2, DecisionsStay
  <2> QED
    BY <2>1, <2>2, RecoverDeeds, ClaimDeeds, StopDeeds, StartDeeds, FinishDeeds
       DEF Tick, RecoverScan, ClaimScan, Call, Crash, Restart, storeVars
<1>2. CASE UNCHANGED vars BY <1>2, DecisionsStay DEF vars
<1> QED BY <1>1, <1>2, ServeDeeds, ClockDeeds DEF Next

-----------------------------------------------------------------------------
(* The second invariant is kept.                                           *)

(* A verdict stands while its row does.                                    *)
LEMMA SameVerdict ==
  ASSUME NEW e, StandingVerdict(e), run'[e.run].cursor = run[e.run].cursor,
         run'[e.run].attempts = run[e.run].attempts, run[e.run].lapsed => run'[e.run].lapsed
  PROVE  StandingVerdict(e)'
<1>1. At(e.run)' = At(e.run) BY DEF At
<1>2. AttemptLeft(e.run)' <=> AttemptLeft(e.run) BY <1>1 DEF AttemptLeft, ContractAt, ContractOf, Steps
<1>3. Effectful(e.run, At(e.run))' <=> Effectful(e.run, At(e.run))
  BY <1>1 DEF Effectful, ContractOf, Steps
<1> QED BY <1>2, <1>3 DEF StandingVerdict

(* What an ordinary step leaves of the workers' knowledge.                 *)
LEMMA OrdinaryAgents ==
  ASSUME IInv, HInv, TypeOK', Ordinary
  PROVE  /\ \A r \in Runs : AgentsFollow(r)
         /\ \A w \in Workers : Calling(w)' /\ HoldVerdicts(w)'
<1>1. ASSUME NEW r \in Runs PROVE AgentsFollow(r)
  BY DEF AgentsFollow, Asked, Armed, Ordinary, Keeps, SameJob, LetsGo, Holding
<1>2. \A r \in Runs : run'[r].lease_token # None =>
        /\ run'[r].cursor = run[r].cursor /\ run'[r].lease_token = run[r].lease_token
        /\ run'[r].attempts = run[r].attempts /\ (run[r].lapsed => run'[r].lapsed)
  BY DEF Ordinary, Moves, Stays, Leaves, Advances, Appears
<1>3. ASSUME NEW w \in Workers PROVE Calling(w)'
  <2>1. CASE LetsGo(w) BY <2>1 DEF LetsGo, Calling, Holding
  <2>2. CASE SameJob(w) /\ job[w].pc \notin Holding BY <2>2 DEF SameJob, Calling, Holding
  <2>3. CASE SameJob(w) /\ job[w].pc \in Holding
    <3>1. PICK r \in Runs : r = job[w].run /\ job[w].token # None
      BY <2>3, NullAssumption DEF IInv, JobsHold, Holding
    <3>2. run'[r].lease_token = job[w].token =>
            /\ run[r].lease_token = job[w].token /\ At(r)' = At(r)
            /\ AttemptLeft(r)' <=> AttemptLeft(r)
      <4>1. run'[r].lease_token = job[w].token =>
              /\ run[r].lease_token = job[w].token /\ At(r)' = At(r)
              /\ run'[r].attempts = run[r].attempts
        BY <1>2, <3>1 DEF At
      <4> QED BY <4>1 DEF AttemptLeft, ContractAt, ContractOf, Steps
    <3>3. /\ job[w].pc = "claimed" /\ run[r].lease_token = job[w].token => AttemptLeft(r)
          /\ job[w].pc \in {"prepared", "calling"} /\ run[r].lease_token = job[w].token =>
               job[w].step = At(r)
          /\ job[w].pc = "calling" => calls[<<r, job[w].step>>] > 0
      BY <3>1 DEF HInv, Calling
    <3>4. /\ job'[w].pc = job[w].pc /\ job'[w].run = r /\ job'[w].step = job[w].step
          /\ job'[w].token = job[w].token /\ calls' = calls
      BY <2>3, <3>1 DEF SameJob, Ordinary
    <3>5. /\ job'[w].pc = "claimed" /\ run'[r].lease_token = job'[w].token => AttemptLeft(r)'
          /\ job'[w].pc \in {"prepared", "calling"} /\ run'[r].lease_token = job'[w].token =>
               job'[w].step = At(r)'
          /\ job'[w].pc = "calling" => calls'[<<r, job'[w].step>>] > 0
      BY <3>2, <3>3, <3>4
    <3> QED BY <3>4, <3>5 DEF Calling, AttemptLeft, ContractAt, ContractOf, At, Steps
  <2> QED BY <2>1, <2>2, <2>3 DEF Ordinary, Keeps
<1>4. ASSUME NEW w \in Workers PROVE HoldVerdicts(w)'
  <2> SUFFICES ASSUME NEW e \in scan'[w].leases, run'[e.run].lease_token = e.token
               PROVE  StandingVerdict(e)'
    BY DEF HoldVerdicts
  <2>1. e.run \in Runs /\ e.token # None
    BY NullAssumption DEF TypeOK, WorkerTypeOK, Scan, LapsedLease
  <2>2. run[e.run].lease_token = e.token BY <1>2, <2>1
  <2>3. e \in scan[w].leases \/ ReadsLease(e) BY DEF Ordinary, KeepsScan
  <2>4. StandingVerdict(e)
    BY <2>2, <2>3 DEF HInv, HoldVerdicts, ReadsLease, LapseVerdict, StandingVerdict, AttemptLeft
  <2> QED BY <1>2, <2>1, <2>4, SameVerdict
<1> QED BY <1>1, <1>3, <1>4

(* A claim takes a lease that nobody knows.                                *)
LEMMA ClaimAgents ==
  ASSUME IInv, HInv, NEW w \in Workers, NEW r \in Runs, Claims(r), FreshTokens # {},
         Claim(w, r, CHOOSE t \in FreshTokens : TRUE), UNCHANGED <<calls, scan>>
  PROVE  /\ \A q \in Runs : AgentsFollow(q)
         /\ \A v \in Workers : Calling(v)' /\ HoldVerdicts(v)'
<1> DEFINE t == CHOOSE u \in FreshTokens : TRUE
<1>1. /\ \A v \in Workers : job[v].token # t /\ \A e \in scan[v].leases : e.token # t
  BY FreshIsNew
<1> HIDE DEF t
<1>2. /\ run' = [run EXCEPT ![r] = [@ EXCEPT !.status = "running", !.lease_token = t,
                                             !.lapsed = FALSE]]
      /\ job' = [job EXCEPT ![w] = [@ EXCEPT !.pc = "claimed", !.run = r, !.token = t,
                                             !.todo = {}]]
  BY DEF Claim, t
<1>3. /\ run'[r].lease_token = t /\ \A q \in Runs \ {r} : run'[q] = run[q]
      /\ \A q \in Runs : run'[q].cursor = run[q].cursor /\ run'[q].attempts = run[q].attempts
  BY <1>2 DEF IInv, TypeOK, StoreTypeOK, RunRow
<1>4. /\ job'[w].pc = "claimed" /\ job'[w].run = r /\ \A v \in Workers \ {w} : job'[v] = job[v]
  BY <1>2 DEF IInv, TypeOK, WorkerTypeOK, Job
<1>5. ASSUME NEW q \in Runs PROVE AgentsFollow(q)
  BY <1>4 DEF AgentsFollow, Asked, Armed
<1>6. ASSUME NEW v \in Workers PROVE Calling(v)'
  <2>1. CASE v = w
    <3>1. run[r].status \in Waiting BY DEF Claims, Waiting
    <3>2. At(r) \in 1 .. Len(Steps(r)) BY <3>1, StandsAtStep DEF IInv, Active
    <3>3. AttemptLeft(r) BY <3>1, <3>2 DEF HInv, Recorded, AttemptsCounted
    <3>4. AttemptLeft(r)' BY <1>3, <3>3 DEF AttemptLeft, ContractAt, ContractOf, At, Steps
    <3> QED BY <1>4, <2>1, <3>4 DEF Calling, AttemptLeft, ContractAt, ContractOf, At, Steps
  <2>2. CASE v # w
    <3>1. Calling(v) /\ job'[v] = job[v] /\ (job[v].pc \in Holding => job[v].run \in Runs)
      BY <1>4, <2>2 DEF HInv, IInv, JobsHold, Holding
    <3> QED BY <1>1, <1>3, <3>1 DEF Calling, Holding, AttemptLeft, ContractAt, ContractOf, At, Steps
  <2> QED BY <2>1, <2>2
<1>7. ASSUME NEW v \in Workers PROVE HoldVerdicts(v)'
  <2> SUFFICES ASSUME NEW e \in scan[v].leases, run'[e.run].lease_token = e.token
               PROVE  StandingVerdict(e)'
    BY DEF HoldVerdicts
  <2>1. e.run \in Runs BY DEF IInv, TypeOK, WorkerTypeOK, Scan, LapsedLease
  <2>2. run'[e.run] = run[e.run] BY <1>1, <1>3, <2>1
  <2> QED BY <2>2, SameVerdict DEF HInv, HoldVerdicts
<1> QED BY <1>5, <1>6, <1>7

(* A reservation arms the worker that holds the lease.                     *)
LEMMA StartAgents ==
  ASSUME IInv, HInv, NEW w \in Workers, PrepareStart(w)
  PROVE  /\ \A q \in Runs : AgentsFollow(q)
         /\ \A v \in Workers : Calling(v)' /\ HoldVerdicts(v)'
<1> DEFINE r == job[w].run
<1>1. /\ r \in Runs /\ Reserves(r) BY StartDeeds DEF PrepareStart, IInv, JobsHold
<1>2. /\ run' = [run EXCEPT ![r] = StartedRow(r)]
      /\ job' = [job EXCEPT ![w] = [@ EXCEPT !.pc = "prepared", !.step = At(r)]]
      /\ UNCHANGED <<calls, scan>>
  BY DEF PrepareStart
<1> HIDE DEF r
<1>3. /\ \A q \in Runs : run'[q].cursor = run[q].cursor /\ run'[q].lease_token = run[q].lease_token
      /\ \A q \in Runs \ {r} : run'[q] = run[q]
      /\ run[r].lease_token = job[w].token /\ job[w].token # None /\ ~run[r].lapsed
  BY <1>1, <1>2, NullAssumption
     DEF IInv, JobsHold, TypeOK, StoreTypeOK, RunRow, StartedRow, PrepareStart, Fenced, r
<1>4. /\ job'[w].pc = "prepared" /\ job'[w].run = r /\ job'[w].step = At(r)
      /\ \A v \in Workers \ {w} : job'[v] = job[v]
  BY <1>2 DEF IInv, TypeOK, WorkerTypeOK, Job, r
<1>5. ASSUME NEW q \in Runs PROVE AgentsFollow(q)
  BY <1>1, <1>2, <1>4 DEF AgentsFollow, Asked, Armed
<1>6. ASSUME NEW v \in Workers PROVE Calling(v)'
  <2>1. CASE v = w BY <1>1, <1>3, <1>4, <2>1 DEF Calling, At
  <2>2. CASE v # w
    <3>1. Calling(v) /\ job'[v] = job[v] /\ (job[v].pc \in Holding => job[v].run \in Runs)
      BY <1>4, <2>2 DEF HInv, IInv, JobsHold, Holding
    <3>2. job[v].token # job[w].token BY <1>3, <2>2 DEF IInv, LeaseIffRunning
    <3>3. CASE job[v].pc \notin Holding BY <3>1, <3>3 DEF Calling, Holding
    <3>4. CASE job[v].pc \in Holding /\ job[v].run = r
      <4>1. run'[job'[v].run].lease_token # job'[v].token BY <1>3, <3>1, <3>2, <3>4
      <4> QED BY <1>2, <3>1, <4>1 DEF Calling
    <3>5. CASE job[v].pc \in Holding /\ job[v].run # r
      <4>1. run'[job[v].run] = run[job[v].run] BY <1>3, <3>1, <3>5
      <4> QED BY <1>2, <3>1, <4>1 DEF Calling, AttemptLeft, ContractAt, ContractOf, At, Steps
    <3> QED BY <3>3, <3>4, <3>5
  <2> QED BY <2>1, <2>2
<1>7. ASSUME NEW v \in Workers PROVE HoldVerdicts(v)'
  <2> SUFFICES ASSUME NEW e \in scan[v].leases, run'[e.run].lease_token = e.token
               PROVE  StandingVerdict(e)'
    BY <1>2 DEF HoldVerdicts
  <2>1. e.run \in Runs BY DEF IInv, TypeOK, WorkerTypeOK, Scan, LapsedLease
  <2>2. StandingVerdict(e) BY <1>3, <2>1 DEF HInv, HoldVerdicts
  <2>3. run'[e.run] = run[e.run] BY <1>3, <2>1, <2>2 DEF StandingVerdict
  <2> QED BY <2>2, <2>3, SameVerdict
<1> QED BY <1>5, <1>6, <1>7

(* A request is made by a worker that reserved it.                         *)
LEMMA CallAgents ==
  ASSUME IInv, HInv, NEW w \in Workers, Call(w)
  PROVE  /\ \A q \in Runs : AgentsFollow(q)
         /\ \A v \in Workers : Calling(v)' /\ HoldVerdicts(v)'
<1> DEFINE p == <<job[w].run, job[w].step>>
<1>1. /\ job[w].pc = "prepared" /\ job[w].run \in Runs
      /\ job[w].step \in 1 .. Len(Steps(job[w].run))
  BY DEF Call, IInv, JobsHold
<1>2. p \in Runs \X StepIds BY <1>1, PlanStep
<1>3. run' = run /\ scan' = scan /\ calls' = [calls EXCEPT ![p] = @ + 1] BY DEF Call
<1>4. /\ job'[w].pc = "calling" /\ job'[w].run = job[w].run
      /\ job'[w].step = job[w].step /\ job'[w].token = job[w].token
      /\ \A v \in Workers \ {w} : job'[v] = job[v]
  BY DEF Call, IInv, TypeOK, WorkerTypeOK, Job
<1>5. /\ calls'[p] > 0 /\ \A s \in Runs \X StepIds : calls'[s] = calls[s] \/ s = p
  BY <1>2, <1>3 DEF IInv, TypeOK, StoreTypeOK
<1>6. ASSUME NEW q \in Runs PROVE AgentsFollow(q)
  <2> SUFFICES ASSUME NEW i \in 1 .. Len(Steps(q))
               PROVE  /\ Asked(q, i)' => Asked(q, i)
                      /\ calls[<<q, i>>] > 0 => calls'[<<q, i>>] > 0
    BY DEF AgentsFollow
  <2>1. <<q, i>> \in Runs \X StepIds BY PlanStep
  <2>2. \A v \in Workers : Armed(v, q, i)' => Armed(v, q, i) BY <1>4 DEF Armed
  <2>3. <<q, i>> = p => Armed(w, q, i) BY <1>1 DEF Armed
  <2> QED BY <1>5, <2>1, <2>2, <2>3 DEF Asked
<1>7. ASSUME NEW v \in Workers PROVE Calling(v)'
  <2>1. CASE v = w
    <3>1. Calling(w) BY DEF HInv
    <3> QED BY <1>1, <1>3, <1>4, <1>5, <2>1, <3>1 DEF Calling, At
  <2>2. CASE v # w
    <3>1. Calling(v) /\ job'[v] = job[v] BY <1>4, <2>2 DEF HInv
    <3>2. job[v].pc = "calling" => <<job[v].run, job[v].step>> \in Runs \X StepIds
      BY PlanStep DEF IInv, JobsHold
    <3> QED BY <1>3, <1>5, <3>1, <3>2 DEF Calling, AttemptLeft, ContractAt, ContractOf, At, Steps
  <2> QED BY <2>1, <2>2
<1>8. ASSUME NEW v \in Workers PROVE HoldVerdicts(v)'
  BY <1>3, SameVerdict DEF HInv, HoldVerdicts
<1> QED BY <1>6, <1>7, <1>8

(* A reviewer who decides is not the owner.                                *)
LEMMA DesksKept ==
  ASSUME IInv, HInv, [Next]_vars
  PROVE  \A p \in People : DeskHolds(p)'
<1>1. CASE desk' = desk BY <1>1 DEF HInv, DeskHolds
<1>2. ASSUME NEW p \in People, NEW r \in Runs, NEW i \in StepIds, NEW allow \in BOOLEAN,
             ReviewRead(p, r, i, allow)
      PROVE  \A q \in People : DeskHolds(q)'
  BY <1>2 DEF ReviewRead, IInv, TypeOK, ServiceTypeOK, HInv, DeskHolds
<1>3. ASSUME NEW p \in People, ReviewWrite(p) PROVE \A q \in People : DeskHolds(q)'
  BY <1>3 DEF ReviewWrite, IInv, TypeOK, ServiceTypeOK, HInv, DeskHolds
<1>4. CASE Request BY <1>1, <1>2, <1>3, <1>4 DEF Request, Submit, Cancel, Reconcile, ChangeAccess, Register
<1> QED BY <1>1, <1>4 DEF Next, Work, Serve, Clock, vars

(* Every step keeps both invariants.                                       *)
LEMMA HInductive ==
  ASSUME IInv, HInv, [Next]_vars
  PROVE  IInv' /\ HInv'
<1>1. IInv' BY Inductive
<1>2. /\ \A r \in Runs : AgentsFollow(r)
      /\ \A w \in Workers : Calling(w)' /\ HoldVerdicts(w)'
  <2>1. TypeOK' BY <1>1 DEF IInv
  <2> QED BY <2>1, StepKinds, OrdinaryAgents, ClaimAgents, StartAgents, CallAgents
<1>3. ASSUME NEW r \in Runs PROVE Recorded(r)'
  BY <1>1, <1>2, Deeds, PendingKept, AuditKept, HeldKept, AskedKept, PassedKept, AttemptsKept
     DEF HInv, Recorded
<1> QED BY <1>1, <1>2, <1>3, DesksKept DEF HInv

(* At first nothing is asked, nothing is recorded, nobody decides.         *)
LEMMA HInitially ==
  ASSUME Init
  PROVE  HInv
<1>1. \A r \in Runs : run[r] = NoRun BY DEF Init, StoreInit
<1>2. \A w \in Workers : job[w] = IdleJob /\ scan[w] = NoScan BY DEF Init, WorkerInit
<1>3. \A r \in Runs, i \in StepIds : approval[<<r, i>>] = NoApproval /\ calls[<<r, i>>] = 0
  BY DEF Init, StoreInit
<1>4. ASSUME NEW r \in Runs PROVE Recorded(r)
  <2>1. \A i \in 1 .. Len(Steps(r)) : ~Asked(r, i) /\ ~(i <= run[r].cursor)
    BY <1>1, <1>2, <1>3, PlanStep DEF Asked, Armed, IdleJob, NoRun
  <2>2. AskedWithCause(r) /\ PassedWithCause(r) BY <2>1 DEF AskedWithCause, PassedWithCause
  <2>3. PendingHere(r) BY <1>1, <1>3 DEF PendingHere, NoRun, NoApproval
  <2>4. /\ run[r].status = "none" /\ run[r].attempts = 0 /\ ~run[r].cancel_requested
    BY <1>1 DEF NoRun
  <2>5. Audited(r) BY <2>4 DEF Audited, Explains
  <2>6. EffectHeld(r) BY <2>4 DEF EffectHeld
  <2>7. At(r) = 1 /\ 1 \in 1 .. Len(Steps(r)) BY <1>1, MissionAssumption DEF At, NoRun, Steps
  <2>8. ContractAt(r).max_attempts \in Nat /\ ContractAt(r).max_attempts >= 1
    BY <2>7, PlanStep, ContractAssumption DEF ContractAt, ContractOf, ContractRow, Step
  <2>9. AttemptsCounted(r) BY <2>4, <2>8 DEF AttemptsCounted, AttemptLeft
  <2> QED BY <2>2, <2>3, <2>5, <2>6, <2>9 DEF Recorded
<1>5. \A w \in Workers : Calling(w) /\ HoldVerdicts(w) BY <1>2 DEF Calling, HoldVerdicts, IdleJob, NoScan
<1>6. \A p \in People : DeskHolds(p) BY DEF DeskHolds, Init, ServiceInit
<1> QED BY <1>4, <1>5, <1>6 DEF HInv

-----------------------------------------------------------------------------
(* What the second invariant says in the terms of MissionRuntime.          *)

(* An effect that was requested and has no output yet was reserved.        *)
LEMMA HeldFromCause == IInv /\ HInv => UncertainEffectHeld
<1> SUFFICES ASSUME IInv, HInv, NEW r \in Runs, At(r) <= Len(Steps(r)), Effectful(r, At(r)),
                    calls[<<r, At(r)>>] > 0
             PROVE  \/ run[r].status \in {"running", "needs_reconciliation"}
                    \/ run[r].status \in {"failed", "cancelled"} /\ run[r].last_event = "step.reconciled"
  BY DEF UncertainEffectHeld
<1>1. At(r) \in 1 .. Len(Steps(r)) /\ run[r].attempts \in Nat
  BY DEF IInv, TypeOK, StoreTypeOK, RunRow, At
<1>2. run[r].attempts # 0 BY <1>1 DEF IInv, ReservedThenCalled
<1> QED BY <1>1, <1>2 DEF HInv, Recorded, EffectHeld

(* What covers a step is what its outputs were.                            *)
LEMMA CoveredInput ==
  ASSUME IInv, NEW r \in Runs, NEW i \in 1 .. Len(Steps(r)), i <= At(r), Covered(r, i)
  PROVE  approval[<<r, i>>].action.input = SubSeq(run[r].outputs, 1, i - 1)
<1> DEFINE input == approval[<<r, i>>].action.input
           prefix == SubSeq(run[r].outputs, 1, i - 1)
<1>1. /\ input \in Seq(Output) /\ Len(input) = i - 1
      /\ \A j \in 1 .. (i - 1) : input[j] = run[r].outputs[j]
  BY DEF Covered, Action
<1>2. /\ run[r].outputs \in Seq(Output) /\ i \in Nat /\ i - 1 <= Len(run[r].outputs)
  BY DEF IInv, TypeOK, StoreTypeOK, RunRow, CursorFollowsOutputs, At
<1>3. /\ prefix \in Seq(Output) /\ Len(prefix) = i - 1
      /\ \A j \in 1 .. (i - 1) : prefix[j] = run[r].outputs[j]
  BY <1>2
<1> HIDE DEF input, prefix
<1>4. input = prefix BY <1>1, <1>3
<1> QED BY <1>4 DEF input, prefix

(* A request for a step that needs approval is covered by one.             *)
LEMMA ApprovedFromCause == IInv /\ HInv => CallsWereApproved
<1> SUFFICES ASSUME IInv, HInv, NEW r \in Runs, NEW i \in 1 .. Len(Steps(r)),
                    calls[<<r, i>>] > 0, ContractOf(r, i).approval
             PROVE  /\ approval[<<r, i>>].status = "approved"
                    /\ approval[<<r, i>>].reviewer # Mission[r].owner
                    /\ approval[<<r, i>>].action.fingerprint = run[r].fingerprint[Steps(r)[i].capability]
                    /\ approval[<<r, i>>].action.input = SubSeq(run[r].outputs, 1, i - 1)
  BY DEF CallsWereApproved
<1>1. Covered(r, i) /\ i <= At(r) BY DEF HInv, Recorded, AskedWithCause, Asked
<1> QED BY <1>1, CoveredInput DEF Covered

-----------------------------------------------------------------------------

(* An effect that was requested and whose output is not recorded is waited *)
(* for, held for reconciliation, or was settled by a person, whatever      *)
(* recover(), cancel(), finish() and the deadline do to its mission.       *)
THEOREM EffectsHeld == Spec => []UncertainEffectHeld
<1> QED BY HeldFromCause, Initially, HInitially, HInductive, PTL DEF Spec

(* A waiting mission has one pending approval, that of its step, and no    *)
(* other: prepare(), review(), cancel() and recover() move both together.  *)
THEOREM PendingTogether == Spec => []PendingIffWaiting
<1>1. HInv => PendingIffWaiting BY DEF HInv, Recorded, PendingHere, PendingIffWaiting
<1> QED BY <1>1, Initially, HInitially, HInductive, PTL DEF Spec

(* No step that needs approval is requested without another person's       *)
(* decision on the very inputs and contract it is requested with.          *)
THEOREM ApprovedCalls == Spec => []CallsWereApproved
<1> QED BY ApprovedFromCause, Initially, HInitially, HInductive, PTL DEF Spec

(* A step is requested only if its condition holds on the outputs recorded *)
(* before it, and what a read has not been requested for was skipped.      *)
THEOREM CausesRecorded == Spec => []OutputsHaveCauses
<1>1. HInv => OutputsHaveCauses
  BY DEF HInv, Recorded, AskedWithCause, PassedWithCause, Asked, OutputsHaveCauses
<1> QED BY <1>1, Initially, HInitially, HInductive, PTL DEF Spec

(* The last event of a mission explains its status, unless the approval    *)
(* that its step waited for has expired and the mission with it: of all    *)
(* updates only that one leaves the event log behind.                      *)
THEOREM LogSilentOnLapse ==
  Spec => [](\A r \in Runs : Explains(run[r].last_event, run[r].status) \/ LogIsSilent(r))
<1>1. HInv => \A r \in Runs : Explains(run[r].last_event, run[r].status) \/ LogIsSilent(r)
  BY DEF HInv, Recorded, Audited
<1> QED BY <1>1, Initially, HInitially, HInductive, PTL DEF Spec

(* Once a cancellation is recorded no call is reserved any more, by no     *)
(* worker, and no retry, review or recovery withdraws it.                  *)
THEOREM CancellationStops == Spec => CancellationHolds
<1>1. ASSUME IInv, HInv, [Next]_vars, NEW r \in Runs, run[r].cancel_requested
      PROVE  run'[r].cancel_requested /\ run'[r].tool_calls = run[r].tool_calls
  <2>1. Deed(r) BY <1>1, Deeds
  <2>2. ~Enters(r) /\ ~Reserves(r) BY <1>1 DEF Enters, NoRun, Reserves
  <2> QED
    BY <1>1, <2>1, <2>2 DEF Deed, Quiet, IsCancelled, IsDecided, IsTaken, Expires, Fails, StopsEarly, Gains,
                            IsSettled, SameWork, SameFlag
<1>2. IInv /\ HInv /\ [Next]_vars =>
        [\A r \in Runs : run[r].cancel_requested =>
           /\ run'[r].cancel_requested
           /\ run'[r].tool_calls = run[r].tool_calls]_vars
  BY <1>1
<1> QED BY <1>2, Initially, HInitially, HInductive, PTL DEF Spec, CancellationHolds

(* A lease that has not lapsed is ended by its holder and nobody else.      *)
LEMMA OnlyHolderEnds ==
  ASSUME IInv, HInv, [Next]_vars, NEW r \in Runs, run[r].status = "running", ~run[r].lapsed,
         run'[r].lease_token # run[r].lease_token
  PROVE  \E w \in Workers : job[w].token = run[r].lease_token /\ job'[w] = IdleJob
<1>1. TypeOK /\ run[r] \in RunRow /\ run \in [Runs -> RunRow] BY DEF IInv, TypeOK, StoreTypeOK
<1>2. ASSUME NEW w \in Workers, RecoverApply(w) PROVE FALSE
  <2>1. run'[r] = AfterRecovery(w, r) BY <1>2 DEF RecoverApply
  <2>2. StillLapsed(w, r) = {}
    <3> SUFFICES ASSUME NEW e \in StillLapsed(w, r) PROVE FALSE OBVIOUS
    <3>1. e \in scan[w].leases /\ e.run = r /\ run[e.run].lease_token = e.token BY DEF StillLapsed
    <3> QED BY <3>1 DEF HInv, HoldVerdicts, StandingVerdict
  <2>3. AfterLeases(w, r) = run[r] BY <2>2 DEF AfterLeases
  <2>4. ~MissesDeadline(w, r) BY <2>3 DEF MissesDeadline, Waiting, Claimable
  <2>5. AfterDeadlines(w, r) = run[r] BY <2>3, <2>4 DEF AfterDeadlines
  <2> QED BY <2>1, <2>5 DEF AfterRecovery
<1>3. ASSUME NEW w \in Workers, ClaimTry(w) PROVE FALSE
  <2>1. ~Claims(r) BY DEF Claims, Claimable
  <2>2. PICK q \in Runs : run' = run \/ (Claims(q) /\ \E t : Claim(w, q, t))
    BY <1>1, <1>3 DEF ClaimTry, TypeOK, WorkerTypeOK, Job
  <2>3. run'[r] = run[r] BY <1>1, <2>1, <2>2 DEF Claim
  <2> QED BY <2>3
<1>4. ASSUME NEW w \in Workers, job[w].run = r, Fenced(w), job' = [job EXCEPT ![w] = IdleJob]
      PROVE  job[w].token = run[r].lease_token /\ job'[w] = IdleJob
  BY <1>1, <1>4 DEF Fenced, TypeOK, WorkerTypeOK
<1>5. ASSUME NEW w \in Workers, PrepareStop(w)
      PROVE  job[w].token = run[r].lease_token /\ job'[w] = IdleJob
  <2>1. job' = [job EXCEPT ![w] = IdleJob] BY <1>5 DEF PrepareStop
  <2>2. Fenced(w) /\ \E row : run' = [run EXCEPT ![job[w].run] = row]
    <3>1. run' # run OBVIOUS
    <3> QED BY <1>5, <3>1 DEF PrepareStop
  <2>3. job[w].run = r BY <1>1, <2>2
  <2> QED BY <1>4, <2>1, <2>2, <2>3
<1>6. ASSUME NEW w \in Workers,
             \/ \E retryable \in BOOLEAN : FinishError(w, retryable)
             \/ \E output \in Output : FinishOutput(w, output)
      PROVE  job[w].token = run[r].lease_token /\ job'[w] = IdleJob
  <2>1. job' = [job EXCEPT ![w] = IdleJob] BY <1>6 DEF FinishError, FinishOutput
  <2>2. Fenced(w) /\ \E row : run' = [run EXCEPT ![job[w].run] = row]
    <3>1. run' # run OBVIOUS
    <3> QED BY <1>6, <3>1 DEF FinishError, FinishOutput
  <2>3. job[w].run = r BY <1>1, <2>2
  <2> QED BY <1>4, <2>1, <2>2, <2>3
<1>7. ASSUME NEW w \in Workers, PrepareStart(w) PROVE FALSE
  <2>1. \A q \in Runs : StartedRow(q).lease_token = run[q].lease_token
    BY <1>1 DEF StartedRow, RunRow
  <2>2. run' = [run EXCEPT ![job[w].run] = StartedRow(job[w].run)] BY <1>7 DEF PrepareStart
  <2> QED BY <1>1, <2>1, <2>2
<1>8. ASSUME NEW w \in Workers, Tick(w) \/ Crash(w) \/ Restart(w)
      PROVE  \E v \in Workers : job[v].token = run[r].lease_token /\ job'[v] = IdleJob
  <2>1. run' # run OBVIOUS
  <2>2. ~RecoverScan(w) /\ ~ClaimScan(w) /\ ~Call(w) /\ ~Crash(w) /\ ~Restart(w)
    BY <2>1 DEF RecoverScan, ClaimScan, Call, Crash, Restart, storeVars
  <2> QED BY <1>2, <1>3, <1>5, <1>6, <1>7, <1>8, <2>2 DEF Tick
<1>9. ASSUME Request PROVE FALSE
  <2>1. ASSUME NEW q \in Runs, Submit(q) PROVE FALSE BY <1>1, <2>1 DEF Submit, Submitted
  <2>2. ASSUME NEW p \in People, NEW q \in Runs, Cancel(p, q) PROVE FALSE
    <3>1. CancelledNow(run[q]).lease_token = run[q].lease_token BY <1>1 DEF CancelledNow, RunRow
    <3> QED BY <1>1, <2>2, <3>1 DEF Cancel
  <2>3. ASSUME NEW p \in People, ReviewWrite(p) PROVE FALSE
    <3>1. \A q \in Runs : \A allow : DecidedRun(run[q], allow).lease_token = run[q].lease_token
      BY <1>1 DEF DecidedRun, RunRow
    <3>2. \/ run' = run
          \/ run' = [run EXCEPT ![desk[p].run] = DecidedRun(run[desk[p].run], desk[p].allow)]
      BY <2>3 DEF ReviewWrite
    <3> QED BY <1>1, <3>1, <3>2
  <2>4. ASSUME NEW p \in People, NEW q \in Runs, Reconcile(p, q) PROVE FALSE
    <3>1. q # r BY <2>4 DEF Reconcile
    <3> QED BY <1>1, <2>4, <3>1 DEF Reconcile
  <2>5. run' # run OBVIOUS
  <2> QED
    BY <1>9, <2>1, <2>2, <2>3, <2>4, <2>5 DEF Request, ReviewRead, ChangeAccess, Register, storeVars
<1>10. ASSUME Clock PROVE FALSE
  <2>1. \A q \in Runs : [run[q] EXCEPT !.lapsed = TRUE].lease_token = run[q].lease_token
                       /\ [run[q] EXCEPT !.due = TRUE].lease_token = run[q].lease_token
                       /\ [run[q] EXCEPT !.overdue = TRUE].lease_token = run[q].lease_token
    BY <1>1 DEF RunRow
  <2> QED BY <1>1, <1>10, <2>1 DEF Clock, LeaseLapses, BackoffElapses, DeadlinePasses, ApprovalLapses
<1>11. CASE UNCHANGED vars BY <1>11 DEF vars
<1> QED BY <1>8, <1>9, <1>10, <1>11 DEF Next, Work, Serve

(* No claim, recovery, review or cancellation takes a mission from the     *)
(* worker whose lease has not lapsed, however stale the rows it read.      *)
THEOREM HolderDecides == Spec => LeaseHeldAlone
<1>1. IInv /\ HInv /\ [Next]_vars =>
        [\A r \in Runs :
           run[r].status = "running" /\ ~run[r].lapsed /\ run'[r].lease_token # run[r].lease_token =>
             \E w \in Workers : job[w].token = run[r].lease_token /\ job'[w] = IdleJob]_vars
  BY OnlyHolderEnds
<1> QED BY <1>1, Initially, HInitially, HInductive, PTL DEF Spec, LeaseHeldAlone

(* What has ended stays as it is: no late worker, scan, retry or review     *)
(* moves it again.  What is recorded of a mission that goes on, the outputs *)
(* and the decisions about its steps, is never rewritten or withdrawn.      *)
KeepsPast(r) ==
  /\ run[r].status \in Terminal =>
       SameWork(r) /\ run'[r].status = run[r].status /\ run'[r].last_event = run[r].last_event
  /\ \A j \in 1 .. run[r].cursor : run'[r].outputs[j] = run[r].outputs[j]
  /\ \A i \in StepIds : approval[<<r, i>>].status \notin {"none", "pending"} => SameDecision(<<r, i>>)

PastIsKept == [][\A r \in Runs : KeepsPast(r)]_vars

(* A decision that was taken, or was withdrawn with its mission, stays.     *)
LEMMA DecisionKept ==
  ASSUME NEW r \in Runs, Deed(r), NEW i \in StepIds, approval[<<r, i>>].status \notin {"none", "pending"}
  PROVE  SameDecision(<<r, i>>)
<1>1. CASE SameDecisions(r) BY <1>1 DEF SameDecisions
<1>2. CASE IsCancelled(r) \/ Expires(r) BY <1>2 DEF IsCancelled, Expires, EndsRequests
<1>3. CASE IsDecided(r) BY <1>3 DEF IsDecided
<1>4. CASE StopsEarly(r) BY <1>1, <1>4 DEF StopsEarly
<1> QED
  BY <1>1, <1>2, <1>3, <1>4 DEF Deed, Quiet, Enters, IsTaken, Fails, Reserves, Gains, IsSettled

(* Of all deeds only the quiet one is done to a mission that has ended.     *)
LEMMA EndedIsQuiet ==
  ASSUME NEW r \in Runs, Deed(r), run[r].status \in Terminal
  PROVE  Quiet(r)
<1>1. run[r].status \notin Active \cup {"none", "running", "needs_reconciliation"}
  BY DEF Terminal, Active, Waiting, Claimable
<1>2. ~Enters(r) /\ ~IsCancelled(r) /\ ~IsDecided(r)
  <2>1. ~Enters(r) BY <1>1 DEF Enters, NoRun
  <2>2. ~IsCancelled(r) BY <1>1 DEF IsCancelled
  <2>3. ~IsDecided(r) BY <1>1 DEF IsDecided, Active, Waiting
  <2> QED BY <2>1, <2>2, <2>3
<1>3. ~IsTaken(r) /\ ~Expires(r) /\ ~Fails(r) /\ ~StopsEarly(r)
  BY <1>1 DEF IsTaken, Expires, Fails, StopsEarly, Active, Waiting
<1>4. ~Reserves(r) /\ ~IsSettled(r) BY <1>1 DEF Reserves, IsSettled
<1>5. ~Gains(r) BY <1>1 DEF Gains
<1> QED BY <1>2, <1>3, <1>4, <1>5 DEF Deed

(* finish(), recover(), review() and reconcile() write only to missions     *)
(* that go on, and add to what is recorded of them.                         *)
THEOREM PastKept == Spec => PastIsKept
<1>1. ASSUME IInv, HInv, [Next]_vars, NEW r \in Runs PROVE KeepsPast(r)
  <2>1. Deed(r) /\ IInv' BY <1>1, Deeds, Inductive
  <2>2. run[r].status \in Terminal => Quiet(r) BY <2>1, EndedIsQuiet
  <2>3. \A j \in 1 .. run[r].cursor : run'[r].outputs[j] = run[r].outputs[j]
    <3>1. CASE run[r].status # "none" BY <1>1, <2>1, <3>1, Grows
    <3>2. CASE run[r].status = "none" BY <1>1, <3>2 DEF IInv, UntouchedBefore, NoRun
    <3> QED BY <3>1, <3>2
  <2> QED BY <2>1, <2>2, <2>3, DecisionKept DEF KeepsPast, Quiet
<1>2. IInv /\ HInv /\ [Next]_vars => [\A r \in Runs : KeepsPast(r)]_vars BY <1>1
<1> QED BY <1>2, Initially, HInitially, HInductive, PTL DEF Spec, PastIsKept

-----------------------------------------------------------------------------
(* The moves of MissionPromise, on entries given by their fields.          *)

Entry(s, p, d, a, m, k) ==
  [stage |-> s, plan |-> p, done |-> d, approved |-> a, permitted |-> m, asked |-> k]

(* An entry with one place of a field changed.                             *)
Put(g, i, x) == [g EXCEPT ![i] = x]
PutPermitted(e, i, x) == [e EXCEPT !.permitted[i] = x]
PutAsked(e, i, x) == [e EXCEPT !.asked[i] = x]

(* A change at one place of an entry is a change of one field.             *)
LEMMA PutEntry ==
  ASSUME NEW s, NEW p, NEW d, NEW a, NEW m, NEW k, NEW i, NEW x
  PROVE  /\ PutPermitted(Entry(s, p, d, a, m, k), i, x) = Entry(s, p, d, a, Put(m, i, x), k)
         /\ PutAsked(Entry(s, p, d, a, m, k), i, x) = Entry(s, p, d, a, m, Put(k, i, x))
<1>1. ASSUME NEW n, n = [m EXCEPT ![i] = x]
      PROVE  [Entry(s, p, d, a, m, k) EXCEPT !.permitted[i] = x] = Entry(s, p, d, a, n, k)
  BY <1>1 DEF Entry
<1>2. ASSUME NEW l, l = [k EXCEPT ![i] = x]
      PROVE  [Entry(s, p, d, a, m, k) EXCEPT !.asked[i] = x] = Entry(s, p, d, a, m, l)
  BY <1>2 DEF Entry
<1> QED BY <1>1, <1>2 DEF Put, PutPermitted, PutAsked

(* A mission that appears with its plan is a move.                         *)
LEMMA OpensEntry ==
  ASSUME NEW p0, NEW p, NEW d, NEW a, NEW m, NEW k
  PROVE  Promise!Moves(Entry("absent", p0, d, a, m, k), Entry("open", p, d, a, m, k))
<1> DEFINE e == Entry("absent", p0, d, a, m, k)
           f == Entry("open", p, d, a, m, k)
<1>1. [e EXCEPT !.stage = "open"] = Entry("open", p0, d, a, m, k) BY DEF Entry
<1>2. [Entry("open", p0, d, a, m, k) EXCEPT !.plan = p] = f BY DEF Entry
<1>3. e.stage = "absent" /\ f.plan = p BY DEF Entry
<1>4. f = [e EXCEPT !.stage = "open", !.plan = f.plan] BY <1>1, <1>2, <1>3
<1> QED BY <1>3, <1>4 DEF Promise!Moves, Promise!Opens

(* An approval of the step a mission stands at is a move.                  *)
LEMMA ApprovesEntry ==
  ASSUME NEW p, NEW d, NEW a, NEW m, NEW k, NEW b, d + 1 <= Len(p), d + 1 \notin a,
         b = a \cup {d + 1}
  PROVE  Promise!Moves(Entry("open", p, d, a, m, k), Entry("open", p, d, b, m, k))
<1> DEFINE e == Entry("open", p, d, a, m, k)
           f == Entry("open", p, d, b, m, k)
<1>1. e.stage = "open" /\ e.plan = p /\ e.done = d /\ e.approved = a BY DEF Entry
<1>2. [e EXCEPT !.approved = b] = f BY SMTT(20) DEF Entry
<1>3. f = [e EXCEPT !.approved = @ \cup {d + 1}] BY <1>1, <1>2
<1> QED BY <1>1, <1>3 DEF Promise!Moves, Promise!Approves, Promise!Open, Promise!At

(* A reservation of a step that may be asked for is a move.                *)
LEMMA PermitsEntry ==
  ASSUME NEW p, NEW d, NEW a, NEW m, NEW k, NEW n, NEW w \in Workers, d + 1 <= Len(p),
         p[d + 1].approval => d + 1 \in a,
         p[d + 1].repeatable \/ (k[d + 1] = 0 /\ m[d + 1] = {}),
         n = [m EXCEPT ![d + 1] = m[d + 1] \cup {w}]
  PROVE  Promise!Moves(Entry("open", p, d, a, m, k), Entry("open", p, d, a, n, k))
<1> DEFINE x == m[d + 1] \cup {w}
           e == Entry("open", p, d, a, m, k)
           f == Entry("open", p, d, a, n, k)
<1>1. /\ e.stage = "open" /\ e.plan = p /\ e.done = d /\ e.approved = a /\ e.asked = k
      /\ e.permitted = m
  BY DEF Entry
<1>2. [e EXCEPT !.permitted[d + 1] = x] = f
  <2>1. PutPermitted(e, d + 1, x) = Entry("open", p, d, a, Put(m, d + 1, x), k) BY PutEntry
  <2>2. Put(m, d + 1, x) = n BY DEF Put
  <2> QED BY <2>1, <2>2 DEF PutPermitted
<1>3. f = [e EXCEPT !.permitted[d + 1] = @ \cup {w}] BY <1>1, <1>2
<1>4. Promise!Permits(e, f, w)
  BY <1>1, <1>3 DEF Promise!Permits, Promise!Open, Promise!At, Promise!StepAt
<1> QED BY <1>4 DEF Promise!Moves

(* Using a permission, and losing it, are moves.                           *)
LEMMA DropsEntry ==
  ASSUME NEW s, NEW p, NEW d, NEW a, NEW m, NEW k, NEW n, NEW i \in StepIds, NEW w \in Workers,
         w \in m[i], n = [m EXCEPT ![i] = m[i] \ {w}]
  PROVE  /\ Promise!Moves(Entry(s, p, d, a, m, k), Entry(s, p, d, a, n, k))
         /\ \A l : l = [k EXCEPT ![i] = k[i] + 1] =>
              Promise!Moves(Entry(s, p, d, a, m, k), Entry(s, p, d, a, n, l))
<1> DEFINE e == Entry(s, p, d, a, m, k)
           g == Entry(s, p, d, a, n, k)
<1>1. e.permitted = m /\ e.asked = k /\ g.asked = k BY DEF Entry
<1>2. [e EXCEPT !.permitted[i] = m[i] \ {w}] = g
  <2>1. PutPermitted(e, i, m[i] \ {w}) = Entry(s, p, d, a, Put(m, i, m[i] \ {w}), k) BY PutEntry
  <2>2. Put(m, i, m[i] \ {w}) = n BY DEF Put
  <2> QED BY <2>1, <2>2 DEF PutPermitted
<1>3. [e EXCEPT !.permitted[i] = @ \ {w}] = g BY <1>1, <1>2
<1>4. i \in 1 .. MaxSteps BY DEF StepIds
<1>5. Promise!Drops(e, g, i, w) BY <1>1, <1>3 DEF Promise!Drops
<1>6. ASSUME NEW l, l = [k EXCEPT ![i] = k[i] + 1]
      PROVE  Promise!Asks(e, Entry(s, p, d, a, n, l), i, w)
  <2> DEFINE f == Entry(s, p, d, a, n, l)
  <2>1. [g EXCEPT !.asked[i] = k[i] + 1] = f
    <3>1. PutAsked(g, i, k[i] + 1) = Entry(s, p, d, a, n, Put(k, i, k[i] + 1)) BY PutEntry
    <3>2. Put(k, i, k[i] + 1) = l BY <1>6 DEF Put
    <3> QED BY <3>1, <3>2 DEF PutAsked
  <2>2. [g EXCEPT !.asked[i] = @ + 1] = f BY <1>1, <2>1
  <2>3. f = [e EXCEPT !.permitted[i] = @ \ {w}, !.asked[i] = @ + 1] BY <1>3, <2>2
  <2> QED BY <1>1, <2>3 DEF Promise!Asks
<1> QED BY <1>4, <1>5, <1>6 DEF Promise!Moves

(* Recording an output that has a cause is a move.                         *)
LEMMA RecordsEntry ==
  ASSUME NEW s \in {"open", "held"}, NEW t, NEW p, NEW d, NEW a, NEW m, NEW k, d + 1 <= Len(p),
         k[d + 1] > 0 \/ p[d + 1].optional \/ s = "held",
         t \in {"cancelled", IF d + 1 = Len(p) THEN "completed" ELSE "open"}
  PROVE  Promise!Moves(Entry(s, p, d, a, m, k), Entry(t, p, d + 1, a, m, k))
<1> DEFINE e == Entry(s, p, d, a, m, k)
           f == Entry(t, p, d + 1, a, m, k)
<1>1. e.stage = s /\ e.plan = p /\ e.done = d /\ e.asked = k /\ f.stage = t BY DEF Entry
<1>2. [e EXCEPT !.done = d + 1] = Entry(s, p, d + 1, a, m, k) BY DEF Entry
<1>3. [Entry(s, p, d + 1, a, m, k) EXCEPT !.stage = t] = f BY DEF Entry
<1>4. f = [e EXCEPT !.done = @ + 1, !.stage = f.stage] BY <1>1, <1>2, <1>3
<1>5. Promise!Records(e, f)
  BY <1>1, <1>4 DEF Promise!Records, Promise!Unsettled, Promise!At, Promise!StepAt
<1> QED BY <1>5 DEF Promise!Moves

(* Holding or ending a mission is a move.                                  *)
LEMMA SettlesEntry ==
  ASSUME NEW s \in {"open", "held"}, NEW t, NEW p, NEW d, NEW a, NEW m, NEW k, NEW n, d + 1 <= Len(p),
         (s = "open" /\ t = "held" /\ ~p[d + 1].repeatable) \/ t \in Promise!Ends,
         n[d + 1] \subseteq m[d + 1], n = [m EXCEPT ![d + 1] = n[d + 1]]
  PROVE  Promise!Moves(Entry(s, p, d, a, m, k), Entry(t, p, d, a, n, k))
<1> DEFINE e == Entry(s, p, d, a, m, k)
           f == Entry(t, p, d, a, n, k)
<1>1. /\ e.stage = s /\ e.plan = p /\ e.done = d /\ e.permitted = m
      /\ f.stage = t /\ f.permitted = n
  BY DEF Entry
<1>2. [e EXCEPT !.stage = t] = Entry(t, p, d, a, m, k) BY DEF Entry
<1>3. [Entry(t, p, d, a, m, k) EXCEPT !.permitted[d + 1] = n[d + 1]] = f
  <2>1. PutPermitted(Entry(t, p, d, a, m, k), d + 1, n[d + 1])
          = Entry(t, p, d, a, Put(m, d + 1, n[d + 1]), k)
    BY PutEntry
  <2>2. Put(m, d + 1, n[d + 1]) = n BY DEF Put
  <2> QED BY <2>1, <2>2 DEF PutPermitted
<1>4. f = [e EXCEPT !.stage = f.stage, !.permitted[d + 1] = f.permitted[d + 1]]
  BY <1>1, <1>2, <1>3
<1>5. Promise!Settles(e, f) BY <1>1, <1>4 DEF Promise!Settles, Promise!At
<1>6. Promise!Holds(e, f) \/ Promise!Closes(e, f)
  BY <1>1, <1>5 DEF Promise!Holds, Promise!Closes, Promise!Open, Promise!Unsettled,
     Promise!At, Promise!StepAt
<1> QED BY <1>6 DEF Promise!Moves

-----------------------------------------------------------------------------
(* The ledger of MissionRuntime as an entry.                               *)

PlanOf(r) == IF Submitted(r) THEN Plans[r] ELSE <<>>
ApprovedOf(r) ==
  {i \in StepIds : approval[<<r, i>>].status = "approved" /\ approval[<<r, i>>].reviewer # Mission[r].owner}
Holders(r, i) == {w \in Workers : Armed(w, r, i)}
PermittedOf(r) == [i \in StepIds |-> Holders(r, i)]
AskedOf(r) == [i \in StepIds |-> calls[<<r, i>>]]

Follows(r) == Ledger(r)' = Ledger(r) \/ Promise!Moves(Ledger(r), Ledger(r)')

(* The entry that a mission stands for, by its fields.                     *)
LEMMA LedgerIs ==
  ASSUME NEW r \in Runs
  PROVE  /\ Ledger(r) = Entry(Stage(r), PlanOf(r), run[r].cursor, ApprovedOf(r), PermittedOf(r), AskedOf(r))
         /\ Ledger(r)' = Entry(Stage(r)', PlanOf(r)', run'[r].cursor, ApprovedOf(r)', PermittedOf(r)', AskedOf(r)')
BY DEF Ledger, Entry, PlanOf, ApprovedOf, PermittedOf, Holders, Armed, AskedOf

(* Where the entry of a mission that has not ended stands.                 *)
LEMMA EntryAt ==
  ASSUME IInv, NEW r \in Runs, run[r].status \in Active \cup {"needs_reconciliation"}
  PROVE  /\ At(r) \in StepIds /\ At(r) \in 1 .. Len(Steps(r))
         /\ Len(PlanOf(r)) = Len(Steps(r)) /\ At(r) <= Len(PlanOf(r))
         /\ PlanOf(r)[At(r)].approval = ContractAt(r).approval
         /\ PlanOf(r)[At(r)].repeatable = ~Effectful(r, At(r))
         /\ PlanOf(r)[At(r)].optional = (StepAt(r).when.op # "always")
<1> DEFINE n == Len(Steps(r))
           X == [approval: BOOLEAN, repeatable: BOOLEAN, optional: BOOLEAN]
<1>1. At(r) \in 1 .. n /\ At(r) \in StepIds /\ n \in Nat
  BY StandsAtStep, MissionAssumption DEF IInv, Steps
<1>2. PlanOf(r) = [i \in 1 .. n |-> [approval |-> ContractOf(r, i).approval, repeatable |-> ~Effectful(r, i),
                                     optional |-> Steps(r)[i].when.op # "always"]]
  <2>1. Submitted(r) BY DEF Submitted, Active, Waiting, Claimable
  <2> QED BY <2>1 DEF PlanOf, Plans
<1>3. PlanOf(r) \in [1 .. n -> X]
  <2>1. \A i \in 1 .. n : ContractOf(r, i).approval \in BOOLEAN BY PlanStep DEF ContractRow
  <2> QED BY <1>2, <2>1
<1> HIDE DEF n, X
<1>4. PlanOf(r) \in Seq(X) BY <1>1, <1>3, SeqDef
<1>5. Len(PlanOf(r)) = n BY <1>1, <1>3, <1>4, LenProperties
<1> QED BY <1>1, <1>2, <1>5 DEF n, ContractAt, StepAt

(* The stage of a mission, by its status.                                  *)
LEMMA StageIs ==
  ASSUME NEW r \in Runs
  PROVE  /\ run[r].status \in Active => Stage(r) = "open"
         /\ run[r].status = "needs_reconciliation" => Stage(r) = "held"
         /\ run'[r].status \in Active => Stage(r)' = "open"
         /\ run'[r].status = "needs_reconciliation" => Stage(r)' = "held"
         /\ run'[r].status \in Terminal => Stage(r)' = run'[r].status
BY DEF Stage, Active, Waiting, Claimable, Terminal

(* The plan of a submitted mission stays.                                  *)
LEMMA PlanKept ==
  ASSUME NEW r \in Runs, run[r].status # "none", run'[r].status # "none"
  PROVE  PlanOf(r)' = PlanOf(r)
BY DEF PlanOf, Submitted, Plans, ContractOf, Effectful, Steps

(* Approvals stay unless one of them is decided.                           *)
LEMMA ApprovedKept ==
  ASSUME NEW r \in Runs, SameDecisions(r) \/ EndsRequests(r)
  PROVE  ApprovedOf(r)' = ApprovedOf(r)
BY DEF ApprovedOf, SameDecisions, EndsRequests, SameDecision

(* A deed that leaves what the entry shows.                                *)
LEMMA SameLedger ==
  ASSUME NEW r \in Runs, Stage(r)' = Stage(r), run[r].status # "none", run'[r].status # "none",
         run'[r].cursor = run[r].cursor, ApprovedOf(r)' = ApprovedOf(r),
         PermittedOf(r)' = PermittedOf(r), AskedOf(r)' = AskedOf(r)
  PROVE  Ledger(r)' = Ledger(r)
BY LedgerIs, PlanKept

(* A deed that holds or ends the mission.                                  *)
LEMMA EndsFollows ==
  ASSUME IInv, NEW r \in Runs, run[r].status \in Active \cup {"needs_reconciliation"},
         run'[r].status \in Promise!Ends \/
           (run'[r].status = "needs_reconciliation" /\ run[r].status \in Active /\ Effectful(r, At(r))),
         SameWork(r), SameDecisions(r) \/ EndsRequests(r), AskedOf(r)' = AskedOf(r),
         NEW x, x \subseteq Holders(r, At(r)), PermittedOf(r)' = [PermittedOf(r) EXCEPT ![At(r)] = x]
  PROVE  Follows(r)
<1> DEFINE m == PermittedOf(r)
           n == PermittedOf(r)'
           s == Stage(r)
           t == Stage(r)'
           d == run[r].cursor
<1>1. /\ d + 1 \in StepIds /\ d + 1 <= Len(PlanOf(r))
      /\ PlanOf(r)[d + 1].repeatable = ~Effectful(r, d + 1)
  BY EntryAt DEF At
<1>2. n[d + 1] = x /\ m[d + 1] = Holders(r, d + 1) BY <1>1 DEF PermittedOf, At
<1>3. /\ s \in {"open", "held"}
      /\ (s = "open" /\ t = "held" /\ ~PlanOf(r)[d + 1].repeatable) \/ t \in Promise!Ends
  BY <1>1, StageIs DEF Promise!Ends, Terminal, At
<1>4. /\ PlanOf(r)' = PlanOf(r) /\ run'[r].cursor = d /\ ApprovedOf(r)' = ApprovedOf(r)
  BY PlanKept, ApprovedKept DEF SameWork, Promise!Ends, Active, Waiting, Claimable
<1>5. /\ Ledger(r) = Entry(s, PlanOf(r), d, ApprovedOf(r), m, AskedOf(r))
      /\ Ledger(r)' = Entry(t, PlanOf(r), d, ApprovedOf(r), n, AskedOf(r))
  BY <1>4, LedgerIs
<1>6. n = [m EXCEPT ![d + 1] = n[d + 1]] /\ n[d + 1] \subseteq m[d + 1] BY <1>2 DEF At
<1> HIDE DEF m, n, s, t, d
<1>7. Promise!Moves(Entry(s, PlanOf(r), d, ApprovedOf(r), m, AskedOf(r)),
                    Entry(t, PlanOf(r), d, ApprovedOf(r), n, AskedOf(r)))
  BY <1>1, <1>3, <1>6, SettlesEntry
<1> QED BY <1>5, <1>7 DEF Follows

(* What a deed does to a mission when no permission is given, used or lost.*)
LEMMA DeedFollows ==
  ASSUME IInv, IInv', HInv, NEW r \in Runs, Deed(r),
         PermittedOf(r)' = PermittedOf(r), AskedOf(r)' = AskedOf(r)
  PROVE  Follows(r)
<1> DEFINE m == PermittedOf(r)
           x == Holders(r, At(r))
<1>1. m = [m EXCEPT ![At(r)] = x]
  BY DEF PermittedOf
<1>2. run[r].status \in Active /\ run'[r].status \in Active => Stage(r)' = Stage(r) BY StageIs
<1>3. CASE Quiet(r)
  <2>1. Stage(r)' = Stage(r) /\ run'[r].cursor = run[r].cursor /\ PlanOf(r)' = PlanOf(r)
    BY <1>3 DEF Quiet, SameWork, Stage, PlanOf, Submitted, Plans, ContractOf, Effectful, Steps
  <2> QED BY <1>3, <2>1, ApprovedKept, LedgerIs DEF Quiet, Follows
<1>4. CASE Enters(r)
  <2>1. /\ Stage(r) = "absent" /\ Stage(r)' = "open" /\ run'[r].cursor = run[r].cursor
        /\ ApprovedOf(r)' = ApprovedOf(r)
    BY <1>4, ApprovedKept, StageIs DEF Enters, NoRun, Stage, Active, Waiting, Claimable
  <2> QED BY <2>1, LedgerIs, OpensEntry DEF Follows
<1>5. CASE IsCancelled(r)
  <2>1. CASE run[r].status = "running"
    BY <1>2, <1>5, <2>1, ApprovedKept, SameLedger DEF IsCancelled, SameWork, Follows, Active
  <2>2. CASE run[r].status # "running"
    <3>1. run'[r].status \in Promise!Ends BY <1>5, <2>2 DEF IsCancelled, Promise!Ends
    <3> QED BY <1>1, <1>5, <3>1, EndsFollows DEF IsCancelled
  <2> QED BY <2>1, <2>2
<1>6. CASE IsDecided(r)
  <2>1. PICK i \in StepIds, p \in People :
          /\ p # Mission[r].owner
          /\ run[r].status = "waiting_approval" /\ approval[<<r, i>>].status = "pending"
          /\ SameWork(r) /\ \A j \in StepIds \ {i} : SameDecision(<<r, j>>)
          /\ approval'[<<r, i>>].reviewer = p
          /\ \/ run'[r].status = "queued" /\ approval'[<<r, i>>].status = "approved"
             \/ run'[r].status = "rejected" /\ approval'[<<r, i>>].status = "rejected"
    BY <1>6 DEF IsDecided
  <2>2. i = At(r) BY <2>1 DEF HInv, Recorded, PendingHere
  <2>3. CASE run'[r].status = "queued" /\ approval'[<<r, i>>].status = "approved"
    <3>1. ApprovedOf(r)' = ApprovedOf(r) \cup {At(r)} /\ At(r) \notin ApprovedOf(r)
      BY <2>1, <2>2, <2>3 DEF ApprovedOf, SameDecision
    <3>2. Stage(r) = "open" /\ Stage(r)' = "open" /\ run'[r].cursor = run[r].cursor /\ PlanOf(r)' = PlanOf(r)
      BY <2>1, <2>3, StageIs, PlanKept DEF SameWork, Active, Waiting, Claimable
    <3>3. run[r].cursor + 1 <= Len(PlanOf(r)) BY <2>1, EntryAt DEF At, Active, Waiting
    <3> QED BY <3>1, <3>2, <3>3, LedgerIs, ApprovesEntry DEF Follows, At
  <2>4. CASE run'[r].status = "rejected" /\ approval'[<<r, i>>].status = "rejected"
    <3>1. EndsRequests(r)
      <4>1. \A j \in StepIds \ {i} : approval[<<r, j>>].status # "pending"
        BY <2>2 DEF HInv, Recorded, PendingHere
      <4> QED BY <2>1, <2>4, <4>1 DEF EndsRequests, SameDecision
    <3>2. run[r].status \in Active /\ run'[r].status \in Promise!Ends
      BY <2>1, <2>4 DEF Active, Waiting, Promise!Ends
    <3> QED BY <1>1, <2>1, <3>1, <3>2, EndsFollows
  <2> QED BY <2>1, <2>3, <2>4
<1>7. CASE IsTaken(r)
  BY <1>2, <1>7, ApprovedKept, SameLedger DEF IsTaken, SameWork, Follows, Active, Waiting, Claimable
<1>8. CASE Expires(r)
  <2>1. run[r].status \in Active /\ run'[r].status \in Promise!Ends
    BY <1>8 DEF Expires, Active, Promise!Ends
  <2> QED BY <1>1, <1>8, <2>1, EndsFollows DEF Expires
<1>9. CASE Fails(r)
  <2>1. CASE run'[r].status = "retry_wait"
    BY <1>2, <1>9, <2>1, ApprovedKept, SameLedger DEF Fails, SameWork, Follows, Active, Waiting, Claimable
  <2>2. CASE run'[r].status # "retry_wait"
    <3>1. /\ run[r].status \in Active
          /\ \/ run'[r].status \in Promise!Ends
             \/ run'[r].status = "needs_reconciliation" /\ Effectful(r, At(r))
      BY <1>9, <2>2 DEF Fails, Active, Promise!Ends
    <3> QED BY <1>1, <1>9, <3>1, EndsFollows DEF Fails
  <2> QED BY <2>1, <2>2
<1>10. CASE StopsEarly(r)
  <2>1. CASE run'[r].status = "waiting_approval"
    <3>1. ApprovedOf(r)' = ApprovedOf(r)
      BY <1>10, <2>1 DEF StopsEarly, ApprovedOf, SameDecision
    <3> QED BY <1>2, <1>10, <2>1, <3>1, SameLedger DEF StopsEarly, SameWork, Follows, Active, Waiting
  <2>2. CASE run'[r].status # "waiting_approval"
    <3>1. run[r].status \in Active /\ run'[r].status \in Promise!Ends /\ SameWork(r) /\ SameDecisions(r)
      BY <1>10, <2>2 DEF StopsEarly, Active, Promise!Ends
    <3> QED BY <1>1, <3>1, EndsFollows
  <2> QED BY <2>1, <2>2
<1>11. CASE Reserves(r)
  BY <1>2, <1>11, ApprovedKept, SameLedger DEF Reserves, Follows, Active
<1>12. CASE Gains(r)
  <2> DEFINE d == run[r].cursor
             t == Stage(r)'
  <2>1. /\ run[r].status \in {"running", "needs_reconciliation"} /\ run'[r].cursor = d + 1
        /\ run[r].status = "needs_reconciliation" \/ calls[<<r, At(r)>>] > 0 \/ ~ConditionMatches(r)
    BY <1>12 DEF Gains
  <2>2. /\ At(r) \in StepIds /\ d + 1 <= Len(PlanOf(r)) /\ Len(PlanOf(r)) = Len(Steps(r))
        /\ PlanOf(r)[d + 1].optional = (StepAt(r).when.op # "always")
    BY <2>1, EntryAt DEF At, Active
  <2>3. Stage(r) \in {"open", "held"} /\ (run[r].status = "needs_reconciliation" => Stage(r) = "held")
    BY <2>1, StageIs DEF Active
  <2>4. AskedOf(r)[d + 1] > 0 \/ PlanOf(r)[d + 1].optional \/ Stage(r) = "held"
    BY <2>1, <2>2, <2>3 DEF AskedOf, ConditionMatches, At
  <2>5. t \in {"cancelled", IF d + 1 = Len(PlanOf(r)) THEN "completed" ELSE "open"}
    <3>1. \/ run'[r].status = "cancelled" \/ (run'[r].status = "completed" /\ d + 1 = Len(PlanOf(r)))
          \/ (run'[r].status = "queued" /\ d + 1 # Len(PlanOf(r)))
      BY <1>12, <2>2 DEF Gains, IsLast
    <3> QED BY <3>1, StageIs DEF Terminal, Active, Waiting, Claimable
  <2>6. PlanOf(r)' = PlanOf(r) /\ ApprovedOf(r)' = ApprovedOf(r)
    BY <1>12, <2>1, PlanKept, ApprovedKept DEF Gains
  <2>7. Ledger(r)' = Entry(t, PlanOf(r), d + 1, ApprovedOf(r), m, AskedOf(r))
    BY <2>1, <2>6, LedgerIs
  <2> HIDE DEF d, t, m
  <2>8. Promise!Moves(Entry(Stage(r), PlanOf(r), d, ApprovedOf(r), m, AskedOf(r)),
                      Entry(t, PlanOf(r), d + 1, ApprovedOf(r), m, AskedOf(r)))
    BY <2>2, <2>3, <2>4, <2>5, RecordsEntry
  <2> QED BY <2>7, <2>8, LedgerIs DEF Follows, d, m
<1>13. CASE IsSettled(r)
  <2>1. run'[r].status \in Promise!Ends BY <1>13 DEF IsSettled, Promise!Ends
  <2> QED BY <1>1, <1>13, <2>1, EndsFollows DEF IsSettled
<1> QED BY <1>3, <1>4, <1>5, <1>6, <1>7, <1>8, <1>9, <1>10, <1>11, <1>12, <1>13 DEF Deed

-----------------------------------------------------------------------------
(* Permissions to ask, which workers are given by a reservation, use by a  *)
(* request and lose by an error or a crash.                                *)

SamePermissions(r) == PermittedOf(r)' = PermittedOf(r) /\ AskedOf(r)' = AskedOf(r)

Given(r, w) ==
  /\ PermittedOf(r)' = [PermittedOf(r) EXCEPT ![At(r)] = Holders(r, At(r)) \cup {w}]
  /\ AskedOf(r)' = AskedOf(r)

Taken(r, i, w) ==
  /\ w \in Holders(r, i)
  /\ PermittedOf(r)' = [PermittedOf(r) EXCEPT ![i] = Holders(r, i) \ {w}]

Used(r, i) == AskedOf(r)' = [AskedOf(r) EXCEPT ![i] = calls[<<r, i>>] + 1]

PermissionsMove(r) ==
  \/ SamePermissions(r)
  \/ Reserves(r) /\ \E w \in Workers : Given(r, w)
  \/ \E i \in StepIds, w \in Workers : Taken(r, i, w) /\ Quiet(r) /\ (Used(r, i) \/ AskedOf(r)' = AskedOf(r))
  \/ \E w \in Workers : Taken(r, At(r), w) /\ Fails(r) /\ AskedOf(r)' = AskedOf(r)

(* A worker that neither gets nor had permission changes nobody's.         *)
LEMMA Unpermitted ==
  ASSUME calls' = calls,
         \A w \in Workers : job'[w] = job[w] \/ (job[w].pc # "prepared" /\ job'[w].pc # "prepared")
  PROVE  \A r \in Runs : SamePermissions(r)
BY DEF SamePermissions, PermittedOf, AskedOf, Holders, Armed

(* A function that differs at one place.                                   *)
LEMMA OnePlace ==
  ASSUME NEW S, NEW i \in S, NEW x, NEW f, NEW g, f = [j \in S |-> f[j]], g = [j \in S |-> g[j]],
         g[i] = x, \A j \in S \ {i} : g[j] = f[j]
  PROVE  g = [f EXCEPT ![i] = x]
<1>1. [f EXCEPT ![i] = x] = [j \in S |-> IF j = i THEN x ELSE f[j]] OBVIOUS
<1>2. \A j \in S : g[j] = IF j = i THEN x ELSE f[j] OBVIOUS
<1> QED BY <1>1, <1>2

(* A prepared worker has permission for a step.                            *)
LEMMA PreparedHolds ==
  ASSUME IInv, NEW w \in Workers, job[w].pc = "prepared"
  PROVE  \E q \in Runs, i \in StepIds : Armed(w, q, i)
BY PlanStep DEF IInv, JobsHold, Armed

(* A worker that is done with its step loses its permission only.          *)
LEMMA Disarmed ==
  ASSUME NEW w \in Workers, NEW q \in Runs, NEW i \in StepIds, Armed(w, q, i), job'[w].pc # "prepared",
         \A v \in Workers \ {w} : job'[v] = job[v]
  PROVE  /\ Taken(q, i, w)
         /\ \A r \in Runs \ {q} : PermittedOf(r)' = PermittedOf(r)
<1>1. \A r \in Runs, j \in StepIds : Holders(r, j)' = IF r = q /\ j = i THEN Holders(r, j) \ {w} ELSE Holders(r, j)
  BY DEF Holders, Armed
<1>2. w \in Holders(q, i) BY DEF Holders
<1>3. PermittedOf(q)' = [PermittedOf(q) EXCEPT ![i] = Holders(q, i) \ {w}]
  <2> DEFINE f == PermittedOf(q)
             g == PermittedOf(q)'
  <2>1. f = [j \in StepIds |-> f[j]] /\ g = [j \in StepIds |-> g[j]] BY DEF PermittedOf
  <2>2. g[i] = Holders(q, i) \ {w} /\ \A j \in StepIds \ {i} : g[j] = f[j]
    BY <1>1 DEF PermittedOf
  <2> HIDE DEF f, g
  <2>3. g = [f EXCEPT ![i] = Holders(q, i) \ {w}] BY <2>1, <2>2, OnePlace
  <2> QED BY <2>3 DEF f, g
<1>4. \A r \in Runs \ {q} : PermittedOf(r)' = PermittedOf(r) BY <1>1 DEF PermittedOf
<1> QED BY <1>2, <1>3, <1>4 DEF Taken

(* Rows that a step leaves alone.                                          *)
LEMMA RowsQuiet ==
  ASSUME approval' = approval
  PROVE  \A r \in Runs : run'[r] = run[r] => Quiet(r)
BY DecisionsStay DEF Quiet, SameWork, SameFlag

(* A reservation gives its worker permission.                              *)
LEMMA StartPermits ==
  ASSUME IInv, HInv, NEW w \in Workers, PrepareStart(w)
  PROVE  \A r \in Runs : PermissionsMove(r)
<1> PICK q \in Runs : q = job[w].run BY DEF PrepareStart, IInv, JobsHold
<1>1. Reserves(q) BY StartDeeds
<1>2. /\ job[w].pc = "claimed" /\ calls' = calls
      /\ job' = [job EXCEPT ![w] = [@ EXCEPT !.pc = "prepared", !.step = At(q)]]
  BY DEF PrepareStart
<1>3. /\ job'[w].pc = "prepared" /\ job'[w].run = q /\ job'[w].step = At(q)
      /\ \A v \in Workers \ {w} : job'[v] = job[v]
  BY <1>2 DEF IInv, TypeOK, WorkerTypeOK, Job
<1>4. \A r \in Runs, j \in StepIds : Holders(r, j)' = IF r = q /\ j = At(q) THEN Holders(r, j) \cup {w} ELSE Holders(r, j)
  BY <1>2, <1>3 DEF Holders, Armed
<1>5. \A r \in Runs : AskedOf(r)' = AskedOf(r) BY <1>2 DEF AskedOf
<1>6. ASSUME NEW r \in Runs, r # q PROVE SamePermissions(r)
  BY <1>4, <1>5, <1>6 DEF SamePermissions, PermittedOf
<1>7. Given(q, w)
  <2> DEFINE f == PermittedOf(q)
             g == PermittedOf(q)'
             x == Holders(q, At(q)) \cup {w}
  <2>1. At(q) \in StepIds BY <1>1, EntryAt DEF Reserves, Active
  <2>2. f = [j \in StepIds |-> f[j]] /\ g = [j \in StepIds |-> g[j]] BY DEF PermittedOf
  <2>3. g[At(q)] = x /\ \A j \in StepIds \ {At(q)} : g[j] = f[j]
    BY <1>1, <1>4, <2>1 DEF PermittedOf
  <2> HIDE DEF f, g, x
  <2>4. g = [f EXCEPT ![At(q)] = x] BY <2>1, <2>2, <2>3, OnePlace
  <2> QED BY <1>1, <1>5, <2>4 DEF Given, f, g, x
<1> QED BY <1>1, <1>6, <1>7 DEF PermissionsMove

(* A request uses the permission.                                          *)
LEMMA CallPermits ==
  ASSUME IInv, NEW w \in Workers, Call(w)
  PROVE  \A r \in Runs : PermissionsMove(r)
<1> PICK q \in Runs, i \in StepIds : Armed(w, q, i) BY PreparedHolds DEF Call
<1>1. /\ job'[w].pc = "calling" /\ \A v \in Workers \ {w} : job'[v] = job[v]
      /\ run' = run /\ approval' = approval /\ calls' = [calls EXCEPT ![<<q, i>>] = @ + 1]
  BY DEF Call, IInv, TypeOK, WorkerTypeOK, Job, Armed
<1>2. Taken(q, i, w) /\ \A r \in Runs \ {q} : PermittedOf(r)' = PermittedOf(r)
  BY <1>1, Disarmed
<1>3. \A r \in Runs, j \in StepIds :
        calls'[<<r, j>>] = IF r = q /\ j = i THEN calls[<<r, j>>] + 1 ELSE calls[<<r, j>>]
  BY <1>1, <1>2 DEF IInv, TypeOK, StoreTypeOK
<1>4. ASSUME NEW r \in Runs, r # q PROVE SamePermissions(r)
  BY <1>2, <1>3, <1>4 DEF SamePermissions, AskedOf
<1>5. Used(q, i)
  <2> DEFINE f == AskedOf(q)
             g == AskedOf(q)'
  <2>1. f = [j \in StepIds |-> f[j]] /\ g = [j \in StepIds |-> g[j]] BY DEF AskedOf
  <2>2. g[i] = calls[<<q, i>>] + 1 /\ \A j \in StepIds \ {i} : g[j] = f[j]
    BY <1>2, <1>3 DEF AskedOf
  <2> HIDE DEF f, g
  <2>3. g = [f EXCEPT ![i] = calls[<<q, i>>] + 1] BY <1>2, <2>1, <2>2, OnePlace
  <2> QED BY <2>3 DEF Used, f, g
<1>6. Quiet(q) BY <1>1, <1>2, RowsQuiet
<1> QED BY <1>2, <1>4, <1>5, <1>6 DEF PermissionsMove

(* A crash, and an error before the request, lose it.                      *)
LEMMA LosesPermission ==
  ASSUME IInv, HInv, NEW w \in Workers, job[w].pc = "prepared",
         Crash(w) \/ \E retryable \in BOOLEAN : FinishError(w, retryable)
  PROVE  \A r \in Runs : PermissionsMove(r)
<1> PICK q \in Runs, i \in StepIds : Armed(w, q, i) BY PreparedHolds
<1>1. /\ job'[w].pc # "prepared" /\ \A v \in Workers \ {w} : job'[v] = job[v]
      /\ approval' = approval /\ calls' = calls
  BY DEF Crash, FinishError, IdleJob, IInv, TypeOK, WorkerTypeOK, storeVars
<1>2. Taken(q, i, w) /\ \A r \in Runs \ {q} : PermittedOf(r)' = PermittedOf(r)
  BY <1>1, Disarmed
<1>3. \A r \in Runs : AskedOf(r)' = AskedOf(r) BY <1>1 DEF AskedOf
<1>4. Quiet(q) \/ (Fails(q) /\ i = At(q))
  <2>1. CASE run' = run BY <1>1, <1>2, <2>1, RowsQuiet
  <2>2. ASSUME NEW retryable \in BOOLEAN, Fenced(w), FinishError(w, retryable)
        PROVE  Fails(q) /\ i = At(q)
    <3>1. run' = [run EXCEPT ![q] = FailedRow(q, retryable)] /\ run[q].lease_token = job[w].token
      BY <2>2 DEF FinishError, Fenced, Armed
    <3>2. i = At(q) BY <3>1 DEF HInv, Calling, Armed
    <3>3. Fails(q) BY <1>1, <2>2, <3>1, FailureFails DEF Fenced, Armed
    <3> QED BY <3>2, <3>3
  <2> QED BY <2>1, <2>2 DEF Crash, FinishError, storeVars
<1>5. ASSUME NEW r \in Runs, r # q PROVE SamePermissions(r)
  BY <1>2, <1>3, <1>5 DEF SamePermissions
<1> QED BY <1>2, <1>3, <1>4, <1>5 DEF PermissionsMove

(* Every step gives, uses or takes permissions as the promise allows.      *)
LEMMA Permissions ==
  ASSUME IInv, HInv, [Next]_vars
  PROVE  \A r \in Runs : PermissionsMove(r)
<1>1. CASE job' = job /\ calls' = calls BY <1>1, Unpermitted DEF PermissionsMove
<1>2. ASSUME NEW w \in Workers, Tick(w) \/ Crash(w) \/ Restart(w) PROVE \A r \in Runs : PermissionsMove(r)
  <2>1. CASE PrepareStart(w) \/ Call(w) BY <2>1, StartPermits, CallPermits
  <2>2. CASE job[w].pc = "prepared" /\ ~Call(w)
    BY <1>2, <2>2, LosesPermission
       DEF Tick, RecoverScan, RecoverApply, ClaimScan, ClaimTry, PrepareStop, PrepareStart, FinishOutput, Restart
  <2>3. CASE job[w].pc # "prepared" /\ ~PrepareStart(w)
    <3>1. calls' = calls /\ \E j : job' = [job EXCEPT ![w] = j] /\ j.pc # "prepared"
      <4>1. job[w] \in Job /\ IdleJob.pc = "idle" /\ [IdleJob EXCEPT !.pc = "down"].pc = "down"
        BY DEF IInv, TypeOK, WorkerTypeOK, IdleJob
      <4>2. /\ [job[w] EXCEPT !.pc = "recovering", !.seen = catalog].pc = "recovering"
            /\ [job[w] EXCEPT !.pc = "looking"].pc = "looking"
            /\ [job[w] EXCEPT !.pc = "claiming", !.todo = Candidates].pc = "claiming"
            /\ \A r, t : [job[w] EXCEPT !.pc = "claimed", !.run = r, !.token = t, !.todo = {}].pc = "claimed"
            /\ \A r : PassOver(w, r).pc # "prepared"
        BY <2>3, <4>1 DEF Job, PassOver
      <4>3. CASE RecoverScan(w) BY <4>2, <4>3 DEF RecoverScan, storeVars
      <4>4. CASE RecoverApply(w) BY <4>2, <4>4 DEF RecoverApply
      <4>5. CASE ClaimScan(w) BY <4>1, <4>2, <4>5 DEF ClaimScan, storeVars
      <4>6. CASE ClaimTry(w)
        <5>1. PICK r \in job[w].todo :
                \/ Claim(w, r, CHOOSE t \in FreshTokens : TRUE)
                \/ job' = [job EXCEPT ![w] = PassOver(w, r)]
          BY <4>6 DEF ClaimTry
        <5>2. calls' = calls BY <4>6 DEF ClaimTry
        <5>3. ASSUME NEW t, Claim(w, r, t)
              PROVE  \E j : job' = [job EXCEPT ![w] = j] /\ j.pc # "prepared"
          BY <4>2, <5>3 DEF Claim
        <5> QED BY <4>2, <5>1, <5>2, <5>3
      <4>7. CASE PrepareStop(w) BY <4>1, <4>7 DEF PrepareStop
      <4>8. CASE \/ \E retryable \in BOOLEAN : FinishError(w, retryable)
                 \/ \E output \in Output : FinishOutput(w, output)
        BY <4>1, <4>8 DEF FinishError, FinishOutput
      <4>9. CASE Crash(w) \/ Restart(w) BY <4>1, <4>9 DEF Crash, Restart, storeVars
      <4>10. ~Call(w) BY <2>3 DEF Call
      <4> QED BY <1>2, <2>3, <4>3, <4>4, <4>5, <4>6, <4>7, <4>8, <4>9, <4>10 DEF Tick
    <3>2. job'[w].pc # "prepared" /\ \A v \in Workers \ {w} : job'[v] = job[v]
      BY <3>1 DEF IInv, TypeOK, WorkerTypeOK
    <3> QED BY <2>3, <3>1, <3>2, Unpermitted DEF PermissionsMove
  <2> QED BY <2>1, <2>2, <2>3
<1> QED BY <1>1, <1>2 DEF Next, Work, Serve, Clock, Request, Submit, Cancel, ReviewRead, ReviewWrite, Reconcile,
    ChangeAccess, Register, storeVars, vars

-----------------------------------------------------------------------------
(* Every step is a move of the promise for every mission, or none.         *)

(* A reservation is the permission that the promise allows.                *)
LEMMA GivenFollows ==
  ASSUME IInv, IInv', HInv, NEW r \in Runs, NEW w \in Workers, Reserves(r), Given(r, w)
  PROVE  Follows(r)
<1> DEFINE d == run[r].cursor
           m == PermittedOf(r)
           n == PermittedOf(r)'
<1>1. run[r].status \in Active /\ run'[r].status \in Active /\ run[r].status # "none"
  BY DEF Reserves, Active
<1>2. /\ At(r) \in StepIds /\ At(r) \in 1 .. Len(Steps(r)) /\ d + 1 <= Len(PlanOf(r))
      /\ PlanOf(r)[d + 1].approval = ContractAt(r).approval
      /\ PlanOf(r)[d + 1].repeatable = ~Effectful(r, At(r))
  BY <1>1, EntryAt DEF At
<1>3. PlanOf(r)[d + 1].approval => d + 1 \in ApprovedOf(r)
  BY <1>2 DEF Reserves, Approved, ApprovalStands, ApprovedOf, At
<1>4. PlanOf(r)[d + 1].repeatable \/ (AskedOf(r)[d + 1] = 0 /\ m[d + 1] = {})
  <2>1. Effectful(r, At(r)) => calls[<<r, At(r)>>] = 0 /\ \A v \in Workers : ~Armed(v, r, At(r))
    BY <1>2 DEF Reserves, IInv, ReservedThenCalled
  <2>2. AskedOf(r)[At(r)] = calls[<<r, At(r)>>] /\ m[At(r)] = Holders(r, At(r))
    BY <1>2 DEF AskedOf, PermittedOf
  <2> QED BY <1>2, <2>1, <2>2 DEF Holders, At
<1>5. n = [m EXCEPT ![d + 1] = m[d + 1] \cup {w}]
  BY <1>2 DEF Given, PermittedOf, At
<1>6. /\ PlanOf(r)' = PlanOf(r) /\ run'[r].cursor = d /\ ApprovedOf(r)' = ApprovedOf(r)
      /\ AskedOf(r)' = AskedOf(r) /\ Stage(r) = "open" /\ Stage(r)' = "open"
  BY <1>1, PlanKept, ApprovedKept, StageIs DEF Reserves, Given, Active
<1>7. /\ Ledger(r) = Entry("open", PlanOf(r), d, ApprovedOf(r), m, AskedOf(r))
      /\ Ledger(r)' = Entry("open", PlanOf(r), d, ApprovedOf(r), n, AskedOf(r))
  BY <1>6, LedgerIs
<1> HIDE DEF d, m, n
<1>8. Promise!Moves(Entry("open", PlanOf(r), d, ApprovedOf(r), m, AskedOf(r)),
                    Entry("open", PlanOf(r), d, ApprovedOf(r), n, AskedOf(r)))
  BY <1>2, <1>3, <1>4, <1>5, PermitsEntry
<1> QED BY <1>7, <1>8 DEF Follows

(* A permission that is used or lost while the mission stays as it is.     *)
LEMMA TakenFollows ==
  ASSUME NEW r \in Runs, NEW i \in StepIds, NEW w \in Workers, Taken(r, i, w),
         Stage(r)' = Stage(r), PlanOf(r)' = PlanOf(r), run'[r].cursor = run[r].cursor,
         ApprovedOf(r)' = ApprovedOf(r), Used(r, i) \/ AskedOf(r)' = AskedOf(r)
  PROVE  Follows(r)
<1> DEFINE m == PermittedOf(r)
           n == PermittedOf(r)'
           k == AskedOf(r)
           l == AskedOf(r)'
<1>1. m[i] = Holders(r, i) /\ k[i] = calls[<<r, i>>] BY DEF PermittedOf, AskedOf
<1>2. w \in m[i] /\ n = [m EXCEPT ![i] = m[i] \ {w}] BY <1>1 DEF Taken
<1>3. l = k \/ l = [k EXCEPT ![i] = k[i] + 1] BY <1>1 DEF Used
<1>4. /\ Ledger(r) = Entry(Stage(r), PlanOf(r), run[r].cursor, ApprovedOf(r), m, k)
      /\ Ledger(r)' = Entry(Stage(r), PlanOf(r), run[r].cursor, ApprovedOf(r), n, l)
  BY LedgerIs
<1> HIDE DEF m, n, k, l
<1>5. Promise!Moves(Entry(Stage(r), PlanOf(r), run[r].cursor, ApprovedOf(r), m, k),
                    Entry(Stage(r), PlanOf(r), run[r].cursor, ApprovedOf(r), n, l))
  BY <1>2, <1>3, DropsEntry
<1> QED BY <1>4, <1>5 DEF Follows

(* Every step is a move of each mission, or leaves it as it is.            *)
LEMMA NextFollows ==
  ASSUME IInv, IInv', HInv, [Next]_vars
  PROVE  \A r \in Runs : Follows(r)
<1> SUFFICES ASSUME NEW r \in Runs PROVE Follows(r)
  OBVIOUS
<1>1. Deed(r) /\ PermissionsMove(r) BY Deeds, Permissions
<1>2. CASE SamePermissions(r) BY <1>1, <1>2, DeedFollows DEF SamePermissions
<1>3. CASE Reserves(r) /\ \E w \in Workers : Given(r, w) BY <1>3, GivenFollows
<1>4. ASSUME NEW i \in StepIds, NEW w \in Workers, Taken(r, i, w), Quiet(r),
             Used(r, i) \/ AskedOf(r)' = AskedOf(r)
      PROVE  Follows(r)
  <2>1. Stage(r)' = Stage(r) /\ run'[r].cursor = run[r].cursor /\ PlanOf(r)' = PlanOf(r)
    BY <1>4 DEF Quiet, SameWork, Stage, PlanOf, Submitted, Plans, ContractOf, Effectful, Steps
  <2> QED BY <1>4, <2>1, ApprovedKept, TakenFollows DEF Quiet
<1>5. ASSUME NEW w \in Workers, Taken(r, At(r), w), Fails(r), AskedOf(r)' = AskedOf(r)
      PROVE  Follows(r)
  <2>1. run[r].status \in Active /\ run[r].status # "none" BY <1>5 DEF Fails, Active
  <2>2. At(r) \in StepIds BY <2>1, EntryAt
  <2>3. CASE run'[r].status = "retry_wait"
    <3>1. /\ Stage(r)' = Stage(r) /\ run'[r].cursor = run[r].cursor /\ PlanOf(r)' = PlanOf(r)
          /\ ApprovedOf(r)' = ApprovedOf(r)
      BY <1>5, <2>1, <2>3, StageIs, PlanKept, ApprovedKept
         DEF Fails, SameWork, Active, Waiting, Claimable
    <3> QED BY <1>5, <2>2, <3>1, TakenFollows
  <2>4. CASE run'[r].status # "retry_wait"
    <3>1. \/ run'[r].status \in Promise!Ends
          \/ run'[r].status = "needs_reconciliation" /\ Effectful(r, At(r))
      BY <1>5, <2>4 DEF Fails, Promise!Ends
    <3> DEFINE x == Holders(r, At(r)) \ {w}
    <3>2. x \subseteq Holders(r, At(r)) /\ PermittedOf(r)' = [PermittedOf(r) EXCEPT ![At(r)] = x]
      BY <1>5 DEF Taken
    <3> HIDE DEF x
    <3> QED BY <1>5, <2>1, <3>1, <3>2, EndsFollows DEF Fails
  <2> QED BY <2>3, <2>4
<1> QED BY <1>1, <1>2, <1>3, <1>4, <1>5 DEF PermissionsMove

(* The runtime implements MissionPromise: leases, retries, recovery, stale *)
(* workers, reviews, cancellations and crashes together are steps that the *)
(* promise allows, of as many missions at once as one transaction moves.   *)
THEOREM Implements == Spec => KeepsPromise
<1> DEFINE ledger == [r \in Runs |-> Ledger(r)]
<1>1. Init => Promise!PromiseInit
  <2>1. SUFFICES ASSUME Init, NEW r \in Runs PROVE Ledger(r) = Promise!Empty
    BY DEF Promise!PromiseInit
  <2>2. run[r].status = "none" /\ run[r].cursor = 0 BY <2>1 DEF Init, StoreInit, NoRun
  <2>3. PlanOf(r) = <<>> /\ Stage(r) = "absent"
    BY <2>2 DEF PlanOf, Submitted, Stage, Active, Waiting, Claimable
  <2>4. \A i \in StepIds : i \notin ApprovedOf(r) /\ Holders(r, i) = {} /\ calls[<<r, i>>] = 0
    BY <2>1 DEF Init, StoreInit, WorkerInit, NoApproval, IdleJob, ApprovedOf, Holders, Armed
  <2>5. ApprovedOf(r) = {} BY <2>4 DEF ApprovedOf
  <2>6. PermittedOf(r) = [i \in 1 .. MaxSteps |-> {}] /\ AskedOf(r) = [i \in 1 .. MaxSteps |-> 0]
    BY <2>4 DEF PermittedOf, AskedOf, StepIds
  <2> QED BY <2>2, <2>3, <2>5, <2>6, LedgerIs DEF Entry, Promise!Empty
<1>2. IInv /\ HInv /\ IInv' /\ [Next]_vars => [Promise!PromiseNext]_ledger
  <2> SUFFICES ASSUME IInv, HInv, IInv', [Next]_vars PROVE Promise!PromiseNext
    OBVIOUS
  <2>1. \A r \in Runs : Follows(r) BY NextFollows
  <2> QED BY <2>1 DEF Follows, Promise!PromiseNext
<1> QED BY <1>1, <1>2, Initially, HInitially, HInductive, PTL DEF Spec, KeepsPromise, Promise!PromiseSpec

-----------------------------------------------------------------------------
(* A third invariant: what was reserved pays for what was requested.       *)

(* The reservations of a mission whose workers have not requested yet.     *)
Outstanding(r) == UNION {Holders(r, i) : i \in StepIds}

(* The attempts that may have been counted for a step: the counter speaks  *)
(* for the step a mission stands at, and was reset for those it passed.    *)
Allowance(r, i) ==
  IF i > At(r) THEN 0 ELSE IF i = At(r) THEN run[r].attempts ELSE ContractOf(r, i).max_attempts

StepCounted(r, i) == calls[<<r, i>>] + Cardinality(Holders(r, i)) <= Allowance(r, i)

(* Workers that lost their lease may still request: they are outstanding   *)
(* until they do or die, so the sums count them and not the lease.         *)
CallsCounted(r) ==
  /\ IsFiniteSet(Requests(r)) /\ IsFiniteSet(Outstanding(r))
  /\ Cardinality(Requests(r)) + Cardinality(Outstanding(r)) <= run[r].tool_calls

Afforded(r) == run[r].tool_calls <= Mission[r].max_tool_calls /\ run[r].cost <= Mission[r].budget

LInv ==
  \A r \in Runs :
    /\ \A i \in 1 .. Len(Steps(r)) : StepCounted(r, i)
    /\ CallsCounted(r) /\ Afforded(r)

(* What a deed does to the counters of a mission.                          *)
LEMMA DeedWork ==
  ASSUME NEW r \in Runs, Deed(r)
  PROVE  SameWork(r) \/ Enters(r) \/ Reserves(r) \/ Gains(r)
BY DEF Deed, Quiet, IsCancelled, IsDecided, IsTaken, Expires, Fails, StopsEarly, IsSettled

(* The counters are numbers, and a reserved call costs one.                *)
LEMMA CounterTypes ==
  ASSUME IInv, NEW r \in Runs
  PROVE  /\ run[r].tool_calls \in Nat /\ run[r].cost \in Nat /\ run[r].attempts \in Nat
         /\ At(r) \in Nat \ {0} /\ Len(Steps(r)) \in Nat
         /\ Mission[r].max_tool_calls \in Nat /\ Mission[r].budget \in Nat
         /\ \A i \in StepIds : calls[<<r, i>>] \in Nat
<1>1. run[r] \in RunRow /\ Mission[r] \in MissionRow /\ Len(Mission[r].steps) \in 1 .. MaxSteps
  BY MissionAssumption DEF IInv, TypeOK, StoreTypeOK
<1>2. \A i \in StepIds : calls[<<r, i>>] \in Nat BY DEF IInv, TypeOK, StoreTypeOK
<1> QED BY <1>1, <1>2, MissionAssumption DEF RunRow, MissionRow, At, Steps

(* No call is reserved past the limits of its mission.                     *)
LEMMA AffordedKept ==
  ASSUME IInv, NEW r \in Runs, Afforded(r), Deed(r)
  PROVE  Afforded(r)' /\ run'[r].tool_calls \in Nat /\ run'[r].tool_calls >= run[r].tool_calls
<1>1. CASE SameWork(r) \/ Gains(r) BY <1>1, CounterTypes DEF SameWork, Gains, Afforded
<1>2. CASE Enters(r) BY <1>2, CounterTypes DEF Enters, NoRun, Afforded
<1>3. CASE Reserves(r)
  <2>1. ContractAt(r).cost \in Nat
    BY <1>3, StandsAtStep DEF IInv, Reserves, Active, ContractRow
  <2> QED BY <1>3, <2>1, CounterTypes DEF Reserves, BudgetExhausted, Afforded
<1> QED BY <1>1, <1>2, <1>3, DeedWork

(* The allowance of a step never shrinks, and a reservation adds to that   *)
(* of the step it is for.                                                  *)
LEMMA AllowanceGrows ==
  ASSUME IInv, HInv, NEW r \in Runs, Deed(r), NEW i \in 1 .. Len(Steps(r))
  PROVE  /\ Allowance(r, i) \in Nat /\ Allowance(r, i)' \in Nat
         /\ Allowance(r, i)' >= Allowance(r, i)
         /\ Reserves(r) /\ i = At(r) => Allowance(r, i)' = Allowance(r, i) + 1
<1>1. /\ At(r) \in Nat \ {0} /\ run[r].attempts \in Nat /\ i \in Nat
      /\ ContractOf(r, i).max_attempts \in Nat
      /\ ContractOf(r, i)' = ContractOf(r, i)
  BY CounterTypes, PlanStep DEF ContractRow, ContractOf, Steps
<1>2. i = At(r) => run[r].attempts <= ContractOf(r, i).max_attempts
  <2>1. AttemptsCounted(r) BY DEF HInv, Recorded
  <2> QED BY <2>1 DEF AttemptsCounted, ContractAt
<1>3. CASE SameWork(r)
  <2>1. At(r)' = At(r) /\ run'[r].attempts = run[r].attempts BY <1>3 DEF SameWork, At
  <2>2. ~Reserves(r) BY <1>1, <2>1 DEF Reserves
  <2> QED BY <1>1, <2>1, <2>2 DEF Allowance
<1>4. CASE Enters(r)
  <2>1. At(r)' = At(r) /\ run'[r].attempts = run[r].attempts BY <1>4 DEF Enters, NoRun, At
  <2>2. ~Reserves(r) BY <1>1, <2>1 DEF Reserves
  <2> QED BY <1>1, <2>1, <2>2 DEF Allowance
<1>5. CASE Reserves(r)
  <2>1. At(r)' = At(r) /\ run'[r].attempts = run[r].attempts + 1 BY <1>5 DEF Reserves, At
  <2> QED BY <1>1, <2>1 DEF Allowance
<1>6. CASE Gains(r)
  <2>1. At(r)' = At(r) + 1 /\ run'[r].attempts = 0 BY <1>1, <1>6 DEF Gains, At
  <2>2. ~Reserves(r) BY <1>1, <2>1 DEF Reserves
  <2> QED BY <1>1, <1>2, <2>1, <2>2 DEF Allowance
<1> QED BY <1>3, <1>4, <1>5, <1>6, DeedWork

(* Permissions change for one step at a time.                              *)
LEMMA OneHolder ==
  ASSUME NEW r \in Runs, NEW i \in StepIds, NEW x,
         PermittedOf(r)' = [PermittedOf(r) EXCEPT ![i] = x]
  PROVE  Holders(r, i)' = x /\ \A j \in StepIds \ {i} : Holders(r, j)' = Holders(r, j)
<1> DEFINE f == PermittedOf(r)
           g == PermittedOf(r)'
<1>1. f = [j \in StepIds |-> Holders(r, j)] /\ g = [j \in StepIds |-> Holders(r, j)'] BY DEF PermittedOf
<1>2. \A j \in StepIds : f[j] = Holders(r, j) /\ g[j] = Holders(r, j)' BY <1>1
<1>3. \A j \in StepIds : g[j] = IF j = i THEN x ELSE f[j] BY <1>1
<1> QED BY <1>2, <1>3

(* What a used permission adds to the calls.                               *)
LEMMA OneRequest ==
  ASSUME NEW r \in Runs, NEW i \in StepIds, Used(r, i)
  PROVE  /\ calls'[<<r, i>>] = calls[<<r, i>>] + 1
         /\ \A j \in StepIds \ {i} : calls'[<<r, j>>] = calls[<<r, j>>]
<1> DEFINE f == AskedOf(r)
           g == AskedOf(r)'
<1>1. f = [j \in StepIds |-> calls[<<r, j>>]] /\ g = [j \in StepIds |-> calls'[<<r, j>>]] BY DEF AskedOf
<1>2. \A j \in StepIds : f[j] = calls[<<r, j>>] /\ g[j] = calls'[<<r, j>>] BY <1>1
<1>3. \A j \in StepIds : g[j] = IF j = i THEN calls[<<r, i>>] + 1 ELSE f[j] BY <1>1 DEF Used
<1> QED BY <1>2, <1>3

(* No request, and all calls are as they were.                             *)
LEMMA NoRequest ==
  ASSUME NEW r \in Runs, AskedOf(r)' = AskedOf(r)
  PROVE  Requests(r)' = Requests(r) /\ \A j \in StepIds : calls'[<<r, j>>] = calls[<<r, j>>]
<1> DEFINE f == AskedOf(r)
           g == AskedOf(r)'
<1>1. f = [j \in StepIds |-> calls[<<r, j>>]] /\ g = [j \in StepIds |-> calls'[<<r, j>>]] BY DEF AskedOf
<1>2. \A j \in StepIds : f[j] = calls[<<r, j>>] /\ g[j] = calls'[<<r, j>>] BY <1>1
<1>3. \A j \in StepIds : calls'[<<r, j>>] = calls[<<r, j>>] BY <1>2
<1> QED BY <1>3 DEF Requests

(* Few workers hold a permission for a step.                               *)
LEMMA FewHolders ==
  ASSUME NEW r \in Runs, NEW i \in StepIds, IsFiniteSet(Outstanding(r))
  PROVE  IsFiniteSet(Holders(r, i)) /\ Cardinality(Holders(r, i)) \in Nat
<1>1. Holders(r, i) \in SUBSET Outstanding(r) BY DEF Outstanding
<1>2. IsFiniteSet(Holders(r, i)) BY <1>1, FS_Subset
<1> QED BY <1>2, FS_CardinalityType

(* A request is one more.                                                  *)
LEMMA MoreRequests ==
  ASSUME IInv, NEW r \in Runs, NEW i \in StepIds, Used(r, i), IsFiniteSet(Requests(r))
  PROVE  /\ IsFiniteSet(Requests(r)')
         /\ Cardinality(Requests(r)') <= Cardinality(Requests(r)) + 1
<1> DEFINE x == <<i, calls[<<r, i>>] + 1>>
<1>1. \A j \in StepIds : 1 .. calls'[<<r, j>>] =
        IF j = i THEN (1 .. calls[<<r, j>>]) \cup {calls[<<r, i>>] + 1} ELSE 1 .. calls[<<r, j>>]
  <2>1. calls[<<r, i>>] \in Nat BY CounterTypes
  <2>2. 1 .. (calls[<<r, i>>] + 1) = (1 .. calls[<<r, i>>]) \cup {calls[<<r, i>>] + 1} BY <2>1
  <2> QED BY <2>2, OneRequest
<1>2. Requests(r)' = Requests(r) \cup {x}
  <2> DEFINE Of(j) == {j} \X (1 .. calls[<<r, j>>])
             Later(j) == {j} \X (1 .. calls'[<<r, j>>])
  <2>1. \A j \in StepIds : Later(j) = IF j = i THEN Of(j) \cup {x} ELSE Of(j)
    <3> SUFFICES ASSUME NEW j \in StepIds PROVE Later(j) = IF j = i THEN Of(j) \cup {x} ELSE Of(j)
      OBVIOUS
    <3>1. CASE j = i
      <4>1. 1 .. calls'[<<r, j>>] = (1 .. calls[<<r, j>>]) \cup {calls[<<r, i>>] + 1} BY <1>1, <3>1
      <4> DEFINE S == 1 .. calls[<<r, j>>]
                 n == calls[<<r, i>>] + 1
      <4>2. Later(j) = {j} \X (S \cup {n}) /\ Of(j) = {j} \X S /\ x = <<i, n>> BY <4>1
      <4> HIDE DEF S, n, Of, Later, x
      <4>3. {j} \X (S \cup {n}) = ({j} \X S) \cup {<<j, n>>} OBVIOUS
      <4> QED BY <3>1, <4>2, <4>3
    <3>2. CASE j # i
      <4>1. 1 .. calls'[<<r, j>>] = 1 .. calls[<<r, j>>] BY <1>1, <3>2
      <4> QED BY <3>2, <4>1
    <3> QED BY <3>1, <3>2
  <2>2. Requests(r) = UNION {Of(j) : j \in StepIds} /\ Requests(r)' = UNION {Later(j) : j \in StepIds}
    BY DEF Requests
  <2> HIDE DEF Of, Later, x
  <2> QED BY <2>1, <2>2
<1>3. Cardinality(Requests(r)) \in Nat BY FS_CardinalityType
<1> HIDE DEF x
<1> QED BY <1>2, <1>3, FS_AddElement

-----------------------------------------------------------------------------
(* The three ways permissions move keep the counts.                        *)

(* Nothing is given, used or lost.                                         *)
LEMMA SameCounts ==
  ASSUME IInv, HInv, LInv, NEW r \in Runs, Deed(r), SamePermissions(r)
  PROVE  CallsCounted(r)' /\ \A i \in 1 .. Len(Steps(r)) : StepCounted(r, i)'
<1>1. \A i \in StepIds : Holders(r, i)' = Holders(r, i)
  <2> DEFINE f == PermittedOf(r)
             g == PermittedOf(r)'
  <2>1. \A j \in StepIds : f[j] = Holders(r, j) /\ g[j] = Holders(r, j)' BY DEF PermittedOf
  <2>2. f = g BY DEF SamePermissions
  <2> QED BY <2>1, <2>2
<1>2. Outstanding(r)' = Outstanding(r) BY <1>1 DEF Outstanding
<1>3. Requests(r)' = Requests(r) /\ \A j \in StepIds : calls'[<<r, j>>] = calls[<<r, j>>]
  BY NoRequest DEF SamePermissions
<1>4. CallsCounted(r) /\ Afforded(r) BY DEF LInv
<1>5. /\ Cardinality(Requests(r)) \in Nat /\ Cardinality(Outstanding(r)) \in Nat
  BY <1>4, FS_CardinalityType DEF CallsCounted
<1>6. run'[r].tool_calls \in Nat /\ run'[r].tool_calls >= run[r].tool_calls /\ run[r].tool_calls \in Nat
  BY <1>4, AffordedKept, CounterTypes
<1>7. CallsCounted(r)' BY <1>2, <1>3, <1>4, <1>5, <1>6 DEF CallsCounted
<1>8. ASSUME NEW i \in 1 .. Len(Steps(r)) PROVE StepCounted(r, i)'
  <2>1. i \in StepIds /\ calls[<<r, i>>] \in Nat BY PlanStep, CounterTypes
  <2>2. Cardinality(Holders(r, i)) \in Nat BY <1>4, <2>1, FewHolders DEF CallsCounted
  <2>3. StepCounted(r, i) BY DEF LInv
  <2> QED BY <1>1, <1>3, <2>1, <2>2, <2>3, AllowanceGrows DEF StepCounted
<1> QED BY <1>7, <1>8

(* A reservation is counted and given.                                     *)
LEMMA GivenCounts ==
  ASSUME IInv, HInv, LInv, NEW r \in Runs, Reserves(r), NEW w \in Workers, Given(r, w)
  PROVE  CallsCounted(r)' /\ \A i \in 1 .. Len(Steps(r)) : StepCounted(r, i)'
<1>1. PICK n \in StepIds : n = At(r) BY EntryAt DEF Reserves, Active
<1>2. /\ Holders(r, n)' = Holders(r, n) \cup {w}
      /\ \A j \in StepIds \ {n} : Holders(r, j)' = Holders(r, j)
  BY <1>1, OneHolder DEF Given
<1>3. Outstanding(r)' = Outstanding(r) \cup {w}
  <2>1. \A x : (\E j \in StepIds : x \in Holders(r, j)') <=> (\E j \in StepIds : x \in Holders(r, j)) \/ x = w
    BY <1>2
  <2> QED BY <2>1 DEF Outstanding
<1>4. Requests(r)' = Requests(r) /\ \A j \in StepIds : calls'[<<r, j>>] = calls[<<r, j>>]
  BY NoRequest DEF Given
<1>5. CallsCounted(r) BY DEF LInv
<1>6. /\ Cardinality(Requests(r)) \in Nat /\ Cardinality(Outstanding(r)) \in Nat
  BY <1>5, FS_CardinalityType DEF CallsCounted
<1>7. run'[r].tool_calls = run[r].tool_calls + 1 /\ run[r].tool_calls \in Nat
  BY CounterTypes DEF Reserves
<1>8. CallsCounted(r)'
  <2>1. /\ IsFiniteSet(Outstanding(r) \cup {w})
        /\ Cardinality(Outstanding(r) \cup {w}) \in {Cardinality(Outstanding(r)), Cardinality(Outstanding(r)) + 1}
    BY <1>5, FS_AddElement DEF CallsCounted
  <2> QED BY <1>3, <1>4, <1>5, <1>6, <1>7, <2>1 DEF CallsCounted
<1>9. ASSUME NEW i \in 1 .. Len(Steps(r)) PROVE StepCounted(r, i)'
  <2>1. i \in StepIds /\ calls[<<r, i>>] \in Nat BY PlanStep, CounterTypes
  <2>2. IsFiniteSet(Holders(r, i)) /\ Cardinality(Holders(r, i)) \in Nat
    BY <1>5, <2>1, FewHolders DEF CallsCounted
  <2>3. StepCounted(r, i) BY DEF LInv
  <2>4. /\ Allowance(r, i) \in Nat /\ Allowance(r, i)' \in Nat /\ Allowance(r, i)' >= Allowance(r, i)
        /\ i = n => Allowance(r, i)' = Allowance(r, i) + 1
    BY <1>1, AllowanceGrows DEF Deed
  <2>5. CASE i = n
    <3>1. Cardinality(Holders(r, i) \cup {w}) \in {Cardinality(Holders(r, i)), Cardinality(Holders(r, i)) + 1}
      BY <2>2, FS_AddElement
    <3>2. Holders(r, i)' = Holders(r, i) \cup {w} BY <1>2, <2>5
    <3>3. calls'[<<r, i>>] = calls[<<r, i>>] BY <1>4, <2>1
    <3> QED BY <2>1, <2>2, <2>3, <2>4, <2>5, <3>1, <3>2, <3>3 DEF StepCounted
  <2>6. CASE i # n
    <3>1. Holders(r, i)' = Holders(r, i) /\ calls'[<<r, i>>] = calls[<<r, i>>] BY <1>2, <1>4, <2>1, <2>6
    <3> QED BY <2>1, <2>2, <2>3, <2>4, <3>1 DEF StepCounted
  <2> QED BY <2>5, <2>6
<1> QED BY <1>8, <1>9

(* A permission that is used or lost was counted when it was given.        *)
LEMMA TakenCounts ==
  ASSUME IInv, HInv, LInv, NEW r \in Runs, Deed(r), SameWork(r),
         NEW i \in StepIds, NEW w \in Workers, Taken(r, i, w), Used(r, i) \/ AskedOf(r)' = AskedOf(r)
  PROVE  CallsCounted(r)' /\ \A j \in 1 .. Len(Steps(r)) : StepCounted(r, j)'
<1>1. /\ w \in Holders(r, i) /\ Holders(r, i)' = Holders(r, i) \ {w}
      /\ \A j \in StepIds \ {i} : Holders(r, j)' = Holders(r, j)
  BY OneHolder DEF Taken
<1>2. \A j \in StepIds \ {i} : w \notin Holders(r, j) BY <1>1 DEF Holders, Armed
<1>3. Outstanding(r)' = Outstanding(r) \ {w} /\ w \in Outstanding(r) BY <1>1, <1>2 DEF Outstanding
<1>4. CallsCounted(r) BY DEF LInv
<1>5. /\ Cardinality(Requests(r)) \in Nat /\ Cardinality(Outstanding(r)) \in Nat
  BY <1>4, FS_CardinalityType DEF CallsCounted
<1>6. run'[r].tool_calls = run[r].tool_calls /\ run[r].tool_calls \in Nat BY CounterTypes DEF SameWork
<1>7. IsFiniteSet(Requests(r)') /\ Cardinality(Requests(r)') \in Nat
      /\ Cardinality(Requests(r)') <= Cardinality(Requests(r)) + 1
  <2>1. CASE Used(r, i) BY <1>4, <2>1, MoreRequests, FS_CardinalityType DEF CallsCounted
  <2>2. CASE AskedOf(r)' = AskedOf(r) BY <1>4, <1>5, <2>2, NoRequest DEF CallsCounted
  <2> QED BY <2>1, <2>2
<1>8. CallsCounted(r)'
  <2>1. /\ IsFiniteSet(Outstanding(r) \ {w})
        /\ Cardinality(Outstanding(r) \ {w}) = Cardinality(Outstanding(r)) - 1
    BY <1>3, <1>4, FS_RemoveElement DEF CallsCounted
  <2> QED BY <1>3, <1>4, <1>5, <1>6, <1>7, <2>1 DEF CallsCounted
<1>9. ASSUME NEW j \in 1 .. Len(Steps(r)) PROVE StepCounted(r, j)'
  <2>1. j \in StepIds /\ calls[<<r, j>>] \in Nat BY PlanStep, CounterTypes
  <2>2. IsFiniteSet(Holders(r, j)) /\ Cardinality(Holders(r, j)) \in Nat
    BY <1>4, <2>1, FewHolders DEF CallsCounted
  <2>3. StepCounted(r, j) BY DEF LInv
  <2>4. calls'[<<r, j>>] = calls[<<r, j>>] \/ (j = i /\ calls'[<<r, j>>] = calls[<<r, j>>] + 1)
    BY <2>1, OneRequest, NoRequest
  <2>5. Allowance(r, j) \in Nat /\ Allowance(r, j)' \in Nat /\ Allowance(r, j)' >= Allowance(r, j)
    BY AllowanceGrows
  <2>6. CASE j = i
    <3>1. Cardinality(Holders(r, j) \ {w}) = Cardinality(Holders(r, j)) - 1
      BY <1>1, <2>2, <2>6, FS_RemoveElement
    <3>2. Holders(r, j)' = Holders(r, j) \ {w} BY <1>1, <2>6
    <3>3. Cardinality(Holders(r, j)') = Cardinality(Holders(r, j)) - 1 BY <3>1, <3>2
    <3>4. /\ calls'[<<r, j>>] \in Nat /\ calls'[<<r, j>>] <= calls[<<r, j>>] + 1 BY <2>1, <2>4
    <3> QED BY <2>1, <2>2, <2>3, <2>5, <3>3, <3>4 DEF StepCounted
  <2>7. CASE j # i
    <3>1. Holders(r, j)' = Holders(r, j) /\ calls'[<<r, j>>] = calls[<<r, j>>]
      BY <1>1, <2>1, <2>4, <2>7
    <3> QED BY <2>1, <2>2, <2>3, <2>5, <3>1 DEF StepCounted
  <2> QED BY <2>6, <2>7
<1> QED BY <1>8, <1>9

(* Every step keeps the counts.                                            *)
LEMMA LInductive ==
  ASSUME IInv, HInv, LInv, [Next]_vars
  PROVE  LInv'
<1> SUFFICES ASSUME NEW r \in Runs
             PROVE  /\ CallsCounted(r)' /\ Afforded(r)'
                    /\ \A i \in 1 .. Len(Steps(r)) : StepCounted(r, i)'
  BY DEF LInv, Steps
<1>1. Deed(r) /\ PermissionsMove(r) BY Deeds, Permissions
<1>2. Afforded(r)' BY <1>1, AffordedKept DEF LInv
<1>3. CASE SamePermissions(r) BY <1>1, <1>2, <1>3, SameCounts
<1>4. CASE Reserves(r) /\ \E w \in Workers : Given(r, w) BY <1>2, <1>4, GivenCounts
<1>5. CASE \E i \in StepIds, w \in Workers :
             Taken(r, i, w) /\ Quiet(r) /\ (Used(r, i) \/ AskedOf(r)' = AskedOf(r))
  BY <1>1, <1>2, <1>5, TakenCounts DEF Quiet
<1>6. CASE \E w \in Workers : Taken(r, At(r), w) /\ Fails(r) /\ AskedOf(r)' = AskedOf(r)
  <2>1. At(r) \in StepIds BY <1>6, EntryAt DEF Fails, Active
  <2> QED BY <1>1, <1>2, <1>6, <2>1, TakenCounts DEF Fails
<1> QED BY <1>1, <1>3, <1>4, <1>5, <1>6 DEF PermissionsMove

(* At first nothing is reserved and nothing is requested.                  *)
LEMMA LInitially ==
  ASSUME Init
  PROVE  LInv
<1> SUFFICES ASSUME NEW r \in Runs
             PROVE  /\ CallsCounted(r) /\ Afforded(r)
                    /\ \A i \in 1 .. Len(Steps(r)) : StepCounted(r, i)
  BY DEF LInv
<1>1. IInv BY Initially
<1>2. run[r] = NoRun /\ \A i \in StepIds : Holders(r, i) = {} /\ calls[<<r, i>>] = 0
  BY DEF Init, StoreInit, WorkerInit, IdleJob, Holders, Armed
<1>3. Outstanding(r) = {} /\ Requests(r) = {}
  <2>1. Outstanding(r) = {} BY <1>2 DEF Outstanding
  <2>2. \A i \in StepIds : {i} \X (1 .. calls[<<r, i>>]) = {} BY <1>2
  <2> QED BY <2>1, <2>2 DEF Requests
<1>4. run[r].tool_calls = 0 /\ run[r].cost = 0 /\ run[r].attempts = 0 BY <1>2 DEF NoRun
<1>5. CallsCounted(r) BY <1>3, <1>4, FS_EmptySet DEF CallsCounted
<1>6. Afforded(r) BY <1>1, <1>4, CounterTypes DEF Afforded
<1>7. ASSUME NEW i \in 1 .. Len(Steps(r)) PROVE StepCounted(r, i)
  <2>1. i \in StepIds /\ ContractOf(r, i).max_attempts \in Nat BY PlanStep DEF ContractRow
  <2>2. Cardinality(Holders(r, i)) = 0 /\ calls[<<r, i>>] = 0 BY <1>2, <2>1, FS_EmptySet
  <2>3. Allowance(r, i) \in Nat BY <1>4, <2>1 DEF Allowance
  <2> QED BY <2>2, <2>3 DEF StepCounted
<1> QED BY <1>5, <1>6, <1>7

(* What was requested was reserved, and nothing is reserved past the tool  *)
(* calls, the budget and the attempts that a mission and its contracts     *)
(* allow: not by workers that lost their lease, nor by the retries and     *)
(* resets of the counters.                                                 *)
THEOREM LimitsHold == Spec => []WithinLimits
<1>1. IInv /\ HInv /\ LInv => WithinLimits
  <2> SUFFICES ASSUME IInv, HInv, LInv, NEW r \in Runs
               PROVE  /\ Afforded(r) /\ Cardinality(Requests(r)) <= run[r].tool_calls
                      /\ \A i \in 1 .. Len(Steps(r)) : calls[<<r, i>>] <= ContractOf(r, i).max_attempts
    BY DEF WithinLimits, Afforded
  <2>1. CallsCounted(r) /\ Afforded(r) BY DEF LInv
  <2>2. Cardinality(Requests(r)) \in Nat /\ Cardinality(Outstanding(r)) \in Nat
    BY <2>1, FS_CardinalityType DEF CallsCounted
  <2>3. Cardinality(Requests(r)) <= run[r].tool_calls BY <2>1, <2>2, CounterTypes DEF CallsCounted
  <2>4. ASSUME NEW i \in 1 .. Len(Steps(r)) PROVE calls[<<r, i>>] <= ContractOf(r, i).max_attempts
    <3>1. i \in StepIds /\ calls[<<r, i>>] \in Nat /\ ContractOf(r, i).max_attempts \in Nat
      BY PlanStep, CounterTypes DEF ContractRow
    <3>2. Cardinality(Holders(r, i)) \in Nat BY <2>1, <3>1, FewHolders DEF CallsCounted
    <3>3. StepCounted(r, i) BY DEF LInv
    <3>4. i = At(r) => run[r].attempts <= ContractOf(r, i).max_attempts
      <4>1. AttemptsCounted(r) BY DEF HInv, Recorded
      <4> QED BY <4>1 DEF AttemptsCounted, ContractAt
    <3> QED BY <3>1, <3>2, <3>3, <3>4, CounterTypes DEF StepCounted, Allowance
  <2> QED BY <2>1, <2>3, <2>4
<1> QED BY <1>1, Initially, HInitially, LInitially, HInductive, LInductive, PTL DEF Spec
=============================================================================
