---------------------------- MODULE MissionStore ----------------------------
(***************************************************************************)
(* The rows that the RedNexus platform keeps about missions, and the       *)
(* helpers its two users, the API service and the workers, read them with. *)
(*                                                                         *)
(* A mission ("run" in the code) is a fixed sequence of steps.  Each step  *)
(* calls one capability through the gateway.  Every decision is taken by a *)
(* database transaction on one row of nx_runs, at most one row of          *)
(* nx_approvals for the mission's step, and the nx_events outbox.          *)
(*                                                                         *)
(* Abstractions of data:                                                   *)
(*   - missions are numbered in creation order;                            *)
(*   - a timestamp column is kept as what a comparison with the clock can  *)
(*     tell: "lapsed" is lease_until <= now, "due" is next_attempt <= now, *)
(*     "overdue" is deadline <= now; the clock's steps flip them;          *)
(*   - an output is a value, Absent when the field that later conditions   *)
(*     and bindings point to is missing from it (a skipped step's is);     *)
(*   - a capability's contract digest is a version number;                 *)
(*   - of a mission's events the row keeps the kind of the last one.       *)
(***************************************************************************)
EXTENDS Naturals, Sequences, FiniteSets

CONSTANTS
  NRuns,         \* how many missions are ever submitted
  MaxSteps,      \* bound on the length of a plan
  Capabilities,  \* the capabilities of the catalog
  Contract,      \* [Capabilities -> contract]: effect, approval, attempts, cost
  Mission,       \* [Runs -> mission]: owner, steps, max_tool_calls, budget
  People,        \* identities
  Values,        \* what a capability can return
  Absent,        \* an output without the field that others point to
  Tokens,        \* lease tokens
  None           \* NULL

Runs    == 1 .. NRuns
StepIds == 1 .. MaxSteps
Output  == Values \cup {Absent}

ContractRow == [effect: {"read", "propose", "write"}, approval: BOOLEAN,
                max_attempts: Nat, cost: Nat]

Condition == [op: {"always", "exists", "eq"}, step: Nat, value: Output]

Step == [capability: Capabilities, when: Condition, binds: SUBSET Nat]

MissionRow == [owner: People, steps: Seq(Step), max_tool_calls: Nat, budget: Nat]

(* What the contract and plan models validate before a row exists.         *)
ASSUME ContractAssumption ==
  /\ Contract \in [Capabilities -> ContractRow]
  /\ \A c \in Capabilities :
       /\ Contract[c].max_attempts >= 1
       /\ Contract[c].effect # "read" => Contract[c].approval

ASSUME MissionAssumption ==
  /\ NRuns \in Nat /\ MaxSteps \in Nat
  /\ Mission \in [Runs -> MissionRow]
  /\ \A r \in Runs :
       /\ Len(Mission[r].steps) \in 1 .. MaxSteps
       /\ \A i \in 1 .. Len(Mission[r].steps) :
            LET s == Mission[r].steps[i]
            IN  /\ s.when.op # "always" => s.when.step \in 1 .. (i - 1)
                /\ s.binds \subseteq 1 .. (i - 1)

ASSUME NullAssumption == None \notin Tokens \cup People

-----------------------------------------------------------------------------
(* The tables.                                                             *)

Claimable == {"queued", "retry_wait"}
Waiting   == Claimable \cup {"waiting_approval"}
Active    == Waiting \cup {"running"}
Terminal  == {"completed", "failed", "cancelled", "rejected", "expired", "blocked"}
Status    == Active \cup Terminal \cup {"needs_reconciliation", "none"}

Kinds == {"none", "workflow.submitted", "workflow.cancellation_requested",
          "workflow.expired", "workflow.completed", "approval.requested",
          "approval.decided", "step.started", "step.skipped", "step.blocked",
          "step.completed", "step.failed", "step.lease_expired", "step.reconciled"}

RunRow == [status: Status, cursor: Nat, outputs: Seq(Output), attempts: Nat,
           tool_calls: Nat, cost: Nat, cancel_requested: BOOLEAN,
           lease_token: Tokens \cup {None}, lapsed: BOOLEAN, due: BOOLEAN,
           overdue: BOOLEAN, fingerprint: [Capabilities -> Nat], last_event: Kinds]

Action == [fingerprint: Nat, input: Seq(Output)]

ApprovalRow == [status: {"none", "pending", "approved", "rejected", "cancelled", "expired"},
                action: Action \cup {None}, lapsed: BOOLEAN,
                reviewer: People \cup {None}]

VARIABLES
  run,       \* nx_runs
  approval,  \* nx_approvals, at most one row for a mission's step
  access,    \* the identities whose membership carries what is asked of them
  catalog,   \* the version of each capability's contract
  calls      \* history: how often the gateway was asked to execute a step

storeVars == <<run, approval, access, catalog, calls>>

NoRun == [status |-> "none", cursor |-> 0, outputs |-> <<>>, attempts |-> 0,
          tool_calls |-> 0, cost |-> 0, cancel_requested |-> FALSE,
          lease_token |-> None, lapsed |-> FALSE, due |-> TRUE, overdue |-> FALSE,
          fingerprint |-> [c \in Capabilities |-> 0], last_event |-> "none"]

NoApproval == [status |-> "none", action |-> None, lapsed |-> FALSE, reviewer |-> None]

StoreInit ==
  /\ run = [r \in Runs |-> NoRun]
  /\ approval = [p \in Runs \X StepIds |-> NoApproval]
  /\ access = People
  /\ catalog = [c \in Capabilities |-> 0]
  /\ calls = [p \in Runs \X StepIds |-> 0]

StoreTypeOK ==
  /\ run \in [Runs -> RunRow]
  /\ approval \in [Runs \X StepIds -> ApprovalRow]
  /\ access \subseteq People
  /\ catalog \in [Capabilities -> Nat]
  /\ calls \in [Runs \X StepIds -> Nat]

-----------------------------------------------------------------------------
(* Reading a row.  Steps are numbered from 1; cursor counts finished ones. *)

Steps(r) == Mission[r].steps
At(r)    == run[r].cursor + 1
ContractOf(r, i) == Contract[Steps(r)[i].capability]
StepAt(r)   == Steps(r)[At(r)]
ContractAt(r) == ContractOf(r, At(r))
Effectful(r, i) == ContractOf(r, i).effect # "read"

ActiveRuns == {r \in Runs : run[r].status \in Active}

(* resolve(): the referenced output lacks the field the pointer names.     *)
Unresolved(r, j) == run[r].outputs[j] = Absent

(* condition_matches(): true, false, or a Problem when the reference does  *)
(* not resolve and the operator is not "exists".                           *)
ConditionProblem(r) ==
  LET when == StepAt(r).when
  IN  when.op = "eq" /\ Unresolved(r, when.step)

(* Mutant: a comparison holds as soon as its reference resolves.           *)
ConditionMatchesResolved(r) ==
  LET when == StepAt(r).when
  IN  when.op # "always" => ~Unresolved(r, when.step)

ConditionMatches(r) ==
  LET when == StepAt(r).when
  IN  \/ when.op = "always"
      \/ when.op = "exists" /\ ~Unresolved(r, when.step)
      \/ when.op = "eq" /\ run[r].outputs[when.step] = when.value

(* input_for() and validate_payload(): a binding that does not resolve.    *)
InputProblem(r) == \E j \in StepAt(r).binds : Unresolved(r, j)

(* The action whose digest a reviewer approves: the payload is a function  *)
(* of the plan's step and of the outputs before it.                        *)
ActionAt(r) == [fingerprint |-> run[r].fingerprint[StepAt(r).capability],
                input |-> run[r].outputs]

(* lease_token = lease_until = None, in a transaction that sets a status.  *)
Release(row, status, kind) ==
  [row EXCEPT !.status = status, !.lease_token = None, !.lapsed = FALSE,
              !.last_event = kind]

(* A step's output is appended and the cursor moves past it.               *)
Advance(row, output) ==
  [row EXCEPT !.outputs = Append(@, output), !.cursor = @ + 1, !.attempts = 0]

IsLast(r) == run[r].cursor + 1 = Len(Steps(r))
=============================================================================
