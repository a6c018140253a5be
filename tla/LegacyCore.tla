----------------------------- MODULE LegacyCore -----------------------------
(***************************************************************************)
(* The trusted-local reference runtime: one process, one SQLite file, no   *)
(* worker and no lease.  advance() commits "running", calls the handler in *)
(* the caller's own thread, and commits the outcome from the row it read   *)
(* before.  A handler may use the runtime itself, so calls nest; and the   *)
(* process may end at any point, to start again with other contracts.      *)
(*                                                                         *)
(* A commit is a step.  A call that is refused, or finds nothing to do,    *)
(* changes nothing and is no step; so is submit() with a known key.        *)
(***************************************************************************)
EXTENDS Naturals, Sequences

CONSTANTS
  Runs,          \* request keys, and the runs they stand for
  MaxSteps,      \* bound on the length of a plan (20 in the code)
  Capabilities,
  Offers,        \* [Capabilities -> contracts that a deployment may register]
  Submission,    \* [Runs -> who submits which capabilities]
  People,
  Values,        \* what a handler can return
  None

Contract == [version: Nat, approval: BOOLEAN]

ASSUME LegacyAssumption ==
  /\ MaxSteps \in Nat
  /\ Offers \in [Capabilities -> SUBSET Contract]
  /\ Submission \in [Runs -> [owner: People, steps: Seq(Capabilities)]]
  /\ \A r \in Runs : Len(Submission[r].steps) \in 1 .. MaxSteps
  /\ None \notin Contract

VARIABLES
  run,        \* the table runs
  approvals,  \* the table approvals
  registry,   \* what is registered in this process
  stack,      \* the calls of advance() that this process is in
  calls       \* history: how often a step's handler was called

legacyVars == <<run, approvals, registry, stack, calls>>

Status == {"none", "queued", "waiting_approval", "running", "completed", "failed",
           "rejected", "cancelled"}
PlanStep == [capability: Capabilities, version: Nat, approval: BOOLEAN]
Row == [status: Status, plan: Seq(PlanStep), cursor: Nat, outputs: Seq(Values)]

(* A call of advance() after its first commit: the row as it read it.      *)
Frame == [run: Runs, cursor: Nat, outputs: Seq(Values), inside: BOOLEAN]

NoRow == [status |-> "none", plan |-> <<>>, cursor |-> 0, outputs |-> <<>>]
NoDecision == [decision |-> "none", reviewer |-> None]
Nothing == [c \in Capabilities |-> None]

LegacyInit ==
  /\ run = [r \in Runs |-> NoRow]
  /\ approvals = [p \in Runs \X (1 .. MaxSteps) |-> NoDecision]
  /\ registry = Nothing
  /\ stack = <<>>
  /\ calls = [p \in Runs \X (1 .. MaxSteps) |-> 0]

LegacyTypeOK ==
  /\ run \in [Runs -> Row]
  /\ approvals \in [Runs \X (1 .. MaxSteps) ->
                     [decision: {"none", "allowed", "denied"}, reviewer: People \cup {None}]]
  /\ registry \in [Capabilities -> Contract \cup {None}]
  /\ stack \in Seq(Frame)
  /\ calls \in [Runs \X (1 .. MaxSteps) -> Nat]

-----------------------------------------------------------------------------
(* Who holds the thread of control.                                        *)

Top == stack[Len(stack)]
Below == SubSeq(stack, 1, Len(stack) - 1)

(* The caller, or the handler that is being called.                        *)
MayCall == stack # <<>> => Top.inside

At(r) == run[r].cursor + 1
StepAt(r) == run[r].plan[At(r)]

-----------------------------------------------------------------------------
Register(c) ==
  /\ MayCall
  /\ registry[c] = None
  /\ \E contract \in Offers[c] : registry' = [registry EXCEPT ![c] = contract]
  /\ UNCHANGED <<run, approvals, stack, calls>>

(* The plan takes a snapshot of each contract.                             *)
PlanOf(r) ==
  [i \in 1 .. Len(Submission[r].steps) |->
    LET c == Submission[r].steps[i]
    IN  [capability |-> c, version |-> registry[c].version, approval |-> registry[c].approval]]

Submit(r) ==
  /\ MayCall
  /\ run[r].status = "none"
  /\ \A i \in 1 .. Len(Submission[r].steps) : registry[Submission[r].steps[i]] # None
  /\ run' = [run EXCEPT ![r] = [NoRow EXCEPT !.status = "queued", !.plan = PlanOf(r)]]
  /\ UNCHANGED <<approvals, registry, stack, calls>>

(* Mutant: a step that a crash left running is tried again.                *)
ProceedsAlways(r) ==
  /\ run[r].status \in {"queued", "waiting_approval", "running"}
  /\ registry[StepAt(r).capability] =
       [version |-> StepAt(r).version, approval |-> StepAt(r).approval]

(* advance() does not return the final row, or raise, before its approval. *)
Proceeds(r) ==
  /\ run[r].status \in {"queued", "waiting_approval"}
  /\ registry[StepAt(r).capability] =
       [version |-> StepAt(r).version, approval |-> StepAt(r).approval]

AdvanceWait(r) ==
  /\ MayCall
  /\ Proceeds(r)
  /\ StepAt(r).approval /\ approvals[<<r, At(r)>>].decision = "none"
  /\ run' = [run EXCEPT ![r] = [@ EXCEPT !.status = "waiting_approval"]]
  /\ UNCHANGED <<approvals, registry, stack, calls>>

AdvanceStart(r) ==
  /\ MayCall
  /\ Proceeds(r)
  /\ StepAt(r).approval => approvals[<<r, At(r)>>].decision # "none"
  /\ approvals[<<r, At(r)>>].decision # "denied"
  /\ run' = [run EXCEPT ![r] = [@ EXCEPT !.status = "running"]]
  /\ stack' = Append(stack, [run |-> r, cursor |-> run[r].cursor,
                             outputs |-> run[r].outputs, inside |-> FALSE])
  /\ UNCHANGED <<approvals, registry, calls>>

CallHandler ==
  /\ stack # <<>> /\ ~Top.inside
  /\ calls' = [calls EXCEPT ![<<Top.run, Top.cursor + 1>>] = @ + 1]
  /\ stack' = [stack EXCEPT ![Len(stack)] = [@ EXCEPT !.inside = TRUE]]
  /\ UNCHANGED <<run, approvals, registry>>

(* The outcome is written over whatever the row has become.                *)
HandlerReturns(output) ==
  /\ stack # <<>> /\ Top.inside
  /\ run' = [run EXCEPT ![Top.run] =
       [@ EXCEPT !.cursor = Top.cursor + 1, !.outputs = Append(Top.outputs, output),
                 !.status = IF Top.cursor + 1 = Len(run[Top.run].plan)
                            THEN "completed" ELSE "queued"]]
  /\ stack' = Below
  /\ UNCHANGED <<approvals, registry, calls>>

(* It raises an Exception, or what it returns cannot be stored.            *)
HandlerFails ==
  /\ stack # <<>> /\ Top.inside
  /\ run' = [run EXCEPT ![Top.run] = [@ EXCEPT !.status = "failed"]]
  /\ stack' = Below
  /\ UNCHANGED <<approvals, registry, calls>>

(* advance() is left by what it does not catch: an interrupt, or an error  *)
(* of the commit that was to record the outcome.                           *)
Abandon ==
  /\ stack # <<>>
  /\ stack' = Below
  /\ UNCHANGED <<run, approvals, registry, calls>>

Decided(row, allow) ==
  [row EXCEPT !.status = IF allow THEN "queued" ELSE "rejected"]

Review(p, r, allow) ==
  /\ MayCall
  /\ p # Submission[r].owner
  /\ run[r].status = "waiting_approval"
  /\ approvals[<<r, At(r)>>].decision = "none"
  /\ approvals' = [approvals EXCEPT ![<<r, At(r)>>] =
       [decision |-> IF allow THEN "allowed" ELSE "denied", reviewer |-> p]]
  /\ run' = [run EXCEPT ![r] = Decided(run[r], allow)]
  /\ UNCHANGED <<registry, stack, calls>>

Cancel(r) ==
  /\ MayCall
  /\ run[r].status \in {"queued", "waiting_approval"}
  /\ run' = [run EXCEPT ![r] = [@ EXCEPT !.status = "cancelled"]]
  /\ UNCHANGED <<approvals, registry, stack, calls>>

(* The process ends, wherever it is, and another opens the same file.      *)
ProcessRestart ==
  /\ stack' = <<>>
  /\ registry' = Nothing
  /\ UNCHANGED <<run, approvals, calls>>

LegacyNext ==
  \/ \E c \in Capabilities : Register(c)
  \/ \E r \in Runs : Submit(r) \/ AdvanceWait(r) \/ AdvanceStart(r) \/ Cancel(r)
  \/ CallHandler
  \/ \E output \in Values : HandlerReturns(output)
  \/ HandlerFails \/ Abandon \/ ProcessRestart
  \/ \E p \in People, r \in Runs, allow \in BOOLEAN : Review(p, r, allow)

LegacySpec == LegacyInit /\ [][LegacyNext]_legacyVars

-----------------------------------------------------------------------------
(* Refinement.  A run that is running and not being advanced was left by a *)
(* crash: it is held.                                                      *)

Frames == {stack[k] : k \in 1 .. Len(stack)}

Advancing(r) == \E f \in Frames : f.run = r

Stage(r) ==
  CASE run[r].status = "none" -> "absent"
    [] run[r].status \in {"queued", "waiting_approval"} -> "open"
    [] run[r].status = "running" -> IF Advancing(r) THEN "open" ELSE "held"
    [] OTHER -> run[r].status

PlanLedger(r) ==
  [i \in 1 .. Len(run[r].plan) |->
    [approval |-> run[r].plan[i].approval, repeatable |-> FALSE, optional |-> FALSE]]

Approved(r) ==
  {i \in 1 .. MaxSteps : /\ approvals[<<r, i>>].decision = "allowed"
                         /\ approvals[<<r, i>>].reviewer # Submission[r].owner}

AboutToCall(r, i) == \E f \in Frames : f.run = r /\ ~f.inside /\ f.cursor + 1 = i

Ledger(r) ==
  [stage |-> Stage(r), plan |-> PlanLedger(r), done |-> Len(run[r].outputs),
   approved |-> Approved(r),
   permitted |-> [i \in 1 .. MaxSteps |-> IF AboutToCall(r, i) THEN {"process"} ELSE {}],
   asked |-> [i \in 1 .. MaxSteps |-> calls[<<r, i>>]]]

Promise == INSTANCE MissionPromise
             WITH Missions <- Runs, Agents <- {"process"},
                  ledger <- [r \in Runs |-> Ledger(r)]

(* "A crashed running step is blocked for manual reconciliation, never     *)
(* auto-retried": whatever handlers do with the runtime and wherever the   *)
(* process ends, a step is called in order, with the approval of somebody  *)
(* else where its plan asks for one, and once; its output is recorded once.*)
KeepsPromise == Promise!PromiseSpec
=============================================================================
