---------------------------- MODULE LegacyProofs ----------------------------
(* Proofs about LegacyCore, for any runs, plans, deployments and depth of   *)
(* nested calls: it implements MissionPromise with steps that may never be  *)
(* repeated.                                                                *)
EXTENDS LegacyCore, SequenceTheorems, TLAPS

(* The row a call of advance() read is still the row it will overwrite, no  *)
(* two calls are on one run, and only the last has yet to call its handler. *)
FramesFit ==
  /\ \A j, k \in 1 .. Len(stack) : stack[j].run = stack[k].run => j = k
  /\ \A k \in 1 .. Len(stack) :
       LET f == stack[k]
       IN  /\ run[f.run].status = "running"
           /\ f.cursor = run[f.run].cursor /\ f.outputs = run[f.run].outputs
           /\ f.inside <=> calls[<<f.run, f.cursor + 1>>] > 0
           /\ ~f.inside => k = Len(stack)

RowFits(r) ==
  /\ Len(run[r].outputs) = run[r].cursor
  /\ Len(run[r].plan) <= MaxSteps
  /\ run[r].status = "none" => run[r] = NoRow
  /\ run[r].status \in {"queued", "waiting_approval", "running"} =>
       run[r].cursor < Len(run[r].plan)

(* Nothing is decided or called before its run exists; beyond its cursor,   *)
(* only the step of a run that is running, or failed at it, was called.     *)
HistoryFits(r, i) ==
  /\ run[r].status = "none" => approvals[<<r, i>>] = NoDecision
  /\ approvals[<<r, i>>].decision = "allowed" => approvals[<<r, i>>].reviewer # Submission[r].owner
  /\ calls[<<r, i>>] > 0 => \/ i <= run[r].cursor
                            \/ i = run[r].cursor + 1 /\ run[r].status \in {"running", "failed"}

IInv ==
  /\ LegacyTypeOK /\ FramesFit
  /\ \A r \in Runs : RowFits(r) /\ \A i \in 1 .. MaxSteps : HistoryFits(r, i)

(* What the last call on the stack is, and what its end leaves.             *)
LEMMA TopIs ==
  ASSUME LegacyTypeOK, stack # <<>>
  PROVE  /\ Len(stack) \in Nat \ {0} /\ Top \in Frame /\ Top = stack[Len(stack)]
         /\ Below \in Seq(Frame) /\ Len(Below) = Len(stack) - 1
         /\ \A k \in 1 .. Len(Below) : Below[k] = stack[k]
<1>1. stack \in Seq(Frame) /\ Len(stack) \in Nat
  BY DEF LegacyTypeOK
<1>2. Len(stack) # 0
  BY <1>1, EmptySeq
<1>3. \A k \in 1 .. Len(stack) : stack[k] \in Frame
  BY <1>1, ElementOfSeq
<1>4. \A k \in 1 .. (Len(stack) - 1) : stack[k] \in Frame
  BY <1>1, <1>3
<1> DEFINE n == Len(stack) - 1
<1>5. n \in Nat /\ n \in Int /\ 1 \in Int /\ \A k \in 1 .. n : stack[k] \in Frame
  BY <1>1, <1>2, <1>4
<1>. HIDE DEF n
<1>6. /\ SubSeq(stack, 1, n) \in Seq(Frame)
      /\ Len(SubSeq(stack, 1, n)) = IF 1 <= n THEN n - 1 + 1 ELSE 0
      /\ \A k \in 1 .. n - 1 + 1 : SubSeq(stack, 1, n)[k] = stack[1 + k - 1]
  BY <1>5, SubSeqProperties
<1>7. /\ SubSeq(stack, 1, n) \in Seq(Frame) /\ Len(SubSeq(stack, 1, n)) = n
      /\ \A k \in 1 .. n : SubSeq(stack, 1, n)[k] = stack[k]
  BY <1>5, <1>6
<1>8. Below = SubSeq(stack, 1, n)
  BY DEF n, Below
<1>9. /\ Below \in Seq(Frame) /\ Len(Below) = Len(stack) - 1
      /\ \A k \in 1 .. Len(Below) : Below[k] = stack[k]
  BY <1>7, <1>8 DEF n
<1>10. Len(stack) \in Nat \ {0} /\ Top \in Frame /\ Top = stack[Len(stack)]
  BY <1>1, <1>2, <1>3 DEF Top
<1>. QED BY <1>9, <1>10

(* What a call on the stack is made of.                                     *)
LEMMA FramesAre ==
  ASSUME LegacyTypeOK, NEW k \in 1 .. Len(stack)
  PROVE  /\ stack[k] \in Frame /\ stack[k].run \in Runs /\ stack[k].cursor \in Nat
         /\ stack[k].inside \in BOOLEAN
<1>1. stack[k] \in Frame
  BY ElementOfSeq DEF LegacyTypeOK
<1>. QED BY <1>1 DEF Frame

(* Nothing is submitted, decided or called at first.                        *)
LEMMA InitHolds == LegacyInit => IInv
BY LegacyAssumption DEF LegacyInit, IInv, LegacyTypeOK, FramesFit, RowFits, HistoryFits, Row, Status, NoRow,
   NoDecision, Nothing

(* What holds of the row and the history of every run.                      *)
RunsFit == \A r \in Runs : RowFits(r) /\ \A i \in 1 .. MaxSteps : HistoryFits(r, i)

(* A step that changes one run's row and leaves the calls, on the stack and *)
(* made, as they are.                                                       *)
LEMMA RowStep ==
  ASSUME IInv, NEW r \in Runs, NEW row \in Row, run' = [run EXCEPT ![r] = row],
         run[r].status # "running", row.status # "none",
         Len(row.outputs) = row.cursor, Len(row.plan) <= MaxSteps,
         row.cursor = run[r].cursor,
         row.status \in {"queued", "waiting_approval", "running"} => row.cursor < Len(row.plan),
         run[r].status = "failed" => row.status = "failed",
         UNCHANGED <<registry, stack, calls>>,
         approvals' \in [Runs \X (1 .. MaxSteps) ->
           [decision: {"none", "allowed", "denied"}, reviewer: People \cup {None}]],
         \A q \in Runs : \A i \in 1 .. MaxSteps :
           \/ approvals'[<<q, i>>] = approvals[<<q, i>>]
           \/ /\ q = r
              /\ approvals'[<<q, i>>].decision = "allowed" =>
                   approvals'[<<q, i>>].reviewer # Submission[r].owner
  PROVE  IInv'
<1>1. /\ run'[r] = row /\ \A q \in Runs \ {r} : run'[q] = run[q]
      /\ run' \in [Runs -> Row]
  BY DEF IInv, LegacyTypeOK
<1>2. LegacyTypeOK'
  BY <1>1 DEF IInv, LegacyTypeOK
<1>3. FramesFit'
  <2>1. \A k \in 1 .. Len(stack) : stack[k].run \in Runs /\ stack[k].run # r
    BY FramesAre DEF IInv, FramesFit
  <2>. QED BY <2>1, <1>1 DEF IInv, FramesFit
<1>4. ASSUME NEW q \in Runs PROVE RowFits(q)'
  BY <1>1 DEF IInv, RowFits
<1>5. ASSUME NEW q \in Runs, NEW i \in 1 .. MaxSteps PROVE HistoryFits(q, i)'
  BY <1>1 DEF IInv, HistoryFits
<1>. QED BY <1>2, <1>3, <1>4, <1>5 DEF IInv

(* A deployment registers contracts; only the registry changes.             *)
LEMMA RegistryStep ==
  ASSUME IInv, UNCHANGED <<run, approvals, stack, calls>>,
         registry' \in [Capabilities -> Contract \cup {None}]
  PROVE  IInv'
<1>1. LegacyTypeOK'
  BY DEF IInv, LegacyTypeOK
<1>2. FramesFit'
  BY DEF IInv, FramesFit
<1>3. ASSUME NEW r \in Runs PROVE RowFits(r)' /\ \A i \in 1 .. MaxSteps : HistoryFits(r, i)'
  BY DEF IInv, RowFits, HistoryFits
<1>. QED BY <1>1, <1>2, <1>3 DEF IInv

(* register() keeps the invariant: what plans hold are snapshots.           *)
LEMMA RegisterStep == ASSUME IInv, NEW c \in Capabilities, Register(c) PROVE IInv'
<1>1. registry' \in [Capabilities -> Contract \cup {None}]
  <2>1. registry \in [Capabilities -> Contract \cup {None}] /\ Offers[c] \subseteq Contract
    BY LegacyAssumption DEF IInv, LegacyTypeOK
  <2>2. PICK contract \in Offers[c] : registry' = [registry EXCEPT ![c] = contract]
    BY DEF Register
  <2>. QED BY <2>1, <2>2
<1>. QED BY <1>1, RegistryStep DEF Register

(* A plan has a step for every capability that was asked for.               *)
LEMMA PlanIs ==
  ASSUME LegacyTypeOK, NEW r \in Runs,
         \A i \in 1 .. Len(Submission[r].steps) : registry[Submission[r].steps[i]] # None
  PROVE  PlanOf(r) \in Seq(PlanStep) /\ Len(PlanOf(r)) \in 1 .. MaxSteps
<1>1. Submission[r].steps \in Seq(Capabilities) /\ Len(Submission[r].steps) \in 1 .. MaxSteps
  BY LegacyAssumption
<1>2. ASSUME NEW i \in 1 .. Len(Submission[r].steps)
      PROVE  Submission[r].steps[i] \in Capabilities /\ registry[Submission[r].steps[i]] \in Contract
  <2>1. Submission[r].steps[i] \in Capabilities
    BY <1>1, ElementOfSeq
  <2>. QED BY <2>1 DEF LegacyTypeOK
<1>3. Len(Submission[r].steps) \in Nat
  BY <1>1
<1>4. PlanOf(r) \in [1 .. Len(Submission[r].steps) -> PlanStep]
  BY <1>2 DEF PlanOf, PlanStep, Contract
<1>5. PlanOf(r) \in Seq(PlanStep)
  BY <1>3, <1>4, SeqDef
<1>6. Len(PlanOf(r)) = Len(Submission[r].steps)
  BY <1>3, <1>4, <1>5, LenProperties
<1>. QED BY <1>1, <1>5, <1>6

(* submit() keeps the invariant: the new run is at its first step.          *)
LEMMA SubmitStep == ASSUME IInv, NEW r \in Runs, Submit(r) PROVE IInv'
<1> DEFINE row == [NoRow EXCEPT !.status = "queued", !.plan = PlanOf(r)]
<1>1. PlanOf(r) \in Seq(PlanStep) /\ Len(PlanOf(r)) \in 1 .. MaxSteps
  BY PlanIs DEF Submit, IInv
<1>2. /\ row.status = "queued" /\ row.plan = PlanOf(r) /\ row.cursor = 0 /\ row.outputs = <<>>
      /\ row \in Row /\ run[r].cursor = 0
  <2>1. run[r] = NoRow
    BY DEF Submit, IInv, RowFits
  <2>2. NoRow \in Row
    <3>1. <<>> \in Seq(Values) /\ <<>> \in Seq(PlanStep)
      OBVIOUS
    <3>. QED BY <3>1 DEF NoRow, Row, Status
  <2>3. row \in Row
    BY <1>1, <2>2 DEF Row, Status
  <2>4. /\ row.status = "queued" /\ row.plan = PlanOf(r)
        /\ row.cursor = NoRow.cursor /\ row.outputs = NoRow.outputs
    BY <2>2 DEF Row
  <2>. QED BY <2>1, <2>3, <2>4 DEF NoRow
<1>3. run' = [run EXCEPT ![r] = row] /\ run[r].status = "none"
  BY DEF Submit
<1> HIDE DEF row
<1>4. /\ Len(row.outputs) = row.cursor /\ Len(row.plan) <= MaxSteps /\ row.cursor < Len(row.plan)
  BY <1>1, <1>2, LegacyAssumption
<1>. QED BY <1>2, <1>3, <1>4, RowStep DEF Submit, IInv, LegacyTypeOK

(* The steps that write a status and nothing else of a run's row.           *)
LEMMA StatusIs ==
  ASSUME IInv, NEW r \in Runs, NEW status \in Status
  PROVE  LET row == [run[r] EXCEPT !.status = status]
         IN  /\ row \in Row /\ row.status = status
             /\ row.plan = run[r].plan /\ row.cursor = run[r].cursor /\ row.outputs = run[r].outputs
BY DEF IInv, LegacyTypeOK, Row

(* advance() that asks for an approval keeps the invariant.                 *)
LEMMA AdvanceWaitStep == ASSUME IInv, NEW r \in Runs, AdvanceWait(r) PROVE IInv'
<1>1. run[r].status \in {"queued", "waiting_approval"} /\ "waiting_approval" \in Status
  BY DEF AdvanceWait, Proceeds, Status
<1>2. RowFits(r)
  BY DEF IInv
<1> DEFINE row == [run[r] EXCEPT !.status = "waiting_approval"]
<1>3. /\ row \in Row /\ row.status = "waiting_approval" /\ row.plan = run[r].plan
      /\ row.cursor = run[r].cursor /\ row.outputs = run[r].outputs
  BY <1>1, StatusIs
<1>4. run' = [run EXCEPT ![r] = row]
  BY DEF AdvanceWait
<1> HIDE DEF row
<1>. QED BY <1>1, <1>2, <1>3, <1>4, RowStep DEF AdvanceWait, RowFits, IInv, LegacyTypeOK

(* cancel() keeps the invariant: it refuses a run that is running.          *)
LEMMA CancelStep == ASSUME IInv, NEW r \in Runs, Cancel(r) PROVE IInv'
<1>1. run[r].status \in {"queued", "waiting_approval"} /\ "cancelled" \in Status
  BY DEF Cancel, Status
<1>2. RowFits(r)
  BY DEF IInv
<1> DEFINE row == [run[r] EXCEPT !.status = "cancelled"]
<1>3. /\ row \in Row /\ row.status = "cancelled" /\ row.plan = run[r].plan
      /\ row.cursor = run[r].cursor /\ row.outputs = run[r].outputs
  BY <1>1, StatusIs
<1>4. run' = [run EXCEPT ![r] = row]
  BY DEF Cancel
<1> HIDE DEF row
<1>. QED BY <1>1, <1>2, <1>3, <1>4, RowStep DEF Cancel, RowFits, IInv, LegacyTypeOK

(* review() keeps the invariant: a reviewer is not the owner.               *)
LEMMA ReviewStep ==
  ASSUME IInv, NEW p \in People, NEW r \in Runs, NEW allow \in BOOLEAN, Review(p, r, allow)
  PROVE  IInv'
<1> DEFINE status == IF allow THEN "queued" ELSE "rejected"
<1>1. run[r].status = "waiting_approval" /\ status \in Status /\ Decided(run[r], allow) = [run[r] EXCEPT !.status = status]
  BY DEF Review, Status, Decided
<1>2. RowFits(r) /\ At(r) \in 1 .. MaxSteps
  BY <1>1, LegacyAssumption DEF IInv, LegacyTypeOK, RowFits, At, Row
<1>3. /\ approvals' \in [Runs \X (1 .. MaxSteps) ->
           [decision: {"none", "allowed", "denied"}, reviewer: People \cup {None}]]
      /\ \A q \in Runs : \A i \in 1 .. MaxSteps :
           \/ approvals'[<<q, i>>] = approvals[<<q, i>>]
           \/ /\ q = r
              /\ approvals'[<<q, i>>].decision = "allowed" =>
                   approvals'[<<q, i>>].reviewer # Submission[r].owner
  BY <1>2 DEF Review, IInv, LegacyTypeOK
<1> DEFINE row == [run[r] EXCEPT !.status = status]
<1>4. /\ row \in Row /\ row.status = status /\ row.plan = run[r].plan
      /\ row.cursor = run[r].cursor /\ row.outputs = run[r].outputs
  BY <1>1, StatusIs
<1>5. run' = [run EXCEPT ![r] = row] /\ status \in {"queued", "rejected"}
  BY <1>1 DEF Review
<1> HIDE DEF row, status
<1>6. /\ Len(row.outputs) = row.cursor /\ Len(row.plan) <= MaxSteps
      /\ row.cursor < Len(row.plan)
  BY <1>1, <1>2, <1>4 DEF RowFits
<1>7. row.status \notin {"none", "running"} /\ run[r].status # "failed" /\ run[r].status # "running"
  BY <1>1, <1>4, <1>5
<1>8. UNCHANGED <<registry, stack, calls>>
  BY DEF Review
<1>. QED BY <1>3, <1>4, <1>5, <1>6, <1>7, <1>8, RowStep

(* The run that the last call is on.                                        *)
LEMMA TopFits ==
  ASSUME IInv, stack # <<>>
  PROVE  /\ Top.run \in Runs /\ run[Top.run] \in Row /\ run[Top.run].status = "running"
         /\ Top.cursor = run[Top.run].cursor /\ Top.outputs = run[Top.run].outputs
         /\ Top.cursor + 1 \in 1 .. MaxSteps
         /\ Top.inside <=> calls[<<Top.run, Top.cursor + 1>>] > 0
<1>1. Len(stack) \in 1 .. Len(stack) /\ Top = stack[Len(stack)] /\ Top \in Frame
  BY TopIs DEF IInv
<1>2. Top.run \in Runs
  BY <1>1 DEF Frame
<1>3. run[Top.run] \in Row /\ run[Top.run].status = "running"
  BY <1>1, <1>2 DEF IInv, LegacyTypeOK, FramesFit
<1>4. run[Top.run].cursor \in Nat /\ Len(run[Top.run].plan) \in Nat
  BY <1>3 DEF Row
<1>5. run[Top.run].cursor + 1 \in 1 .. MaxSteps
  BY <1>2, <1>3, <1>4, LegacyAssumption DEF IInv, RowFits
<1>. QED BY <1>1, <1>2, <1>3, <1>5 DEF IInv, FramesFit

(* The last call ends, with this row for its run.                           *)
LEMMA PopStep ==
  ASSUME IInv, stack # <<>>, stack' = Below,
         NEW row \in Row, run' = [run EXCEPT ![Top.run] = row],
         UNCHANGED <<approvals, registry, calls>>,
         row.status # "none", Len(row.outputs) = row.cursor, Len(row.plan) <= MaxSteps,
         row.status \in {"queued", "waiting_approval", "running"} => row.cursor < Len(row.plan),
         \A i \in 1 .. MaxSteps : calls[<<Top.run, i>>] > 0 =>
           i <= row.cursor \/ (i = row.cursor + 1 /\ row.status \in {"running", "failed"})
  PROVE  IInv'
<1>1. Top.run \in Runs /\ Len(stack) \in Nat \ {0} /\ Top = stack[Len(stack)]
      /\ Below \in Seq(Frame) /\ Len(Below) = Len(stack) - 1
      /\ \A k \in 1 .. Len(Below) : Below[k] = stack[k]
  BY TopIs, TopFits DEF IInv
<1>2. /\ run'[Top.run] = row /\ \A q \in Runs \ {Top.run} : run'[q] = run[q]
      /\ run' \in [Runs -> Row]
  BY <1>1 DEF IInv, LegacyTypeOK
<1>3. LegacyTypeOK'
  BY <1>1, <1>2 DEF IInv, LegacyTypeOK
<1>4. FramesFit'
  <2>1. ASSUME NEW k \in 1 .. Len(Below)
        PROVE  k \in 1 .. Len(stack) /\ Below[k] = stack[k] /\ k # Len(stack)
    BY <1>1
  <2>2. ASSUME NEW k \in 1 .. Len(Below)
        PROVE  stack[k].run \in Runs /\ stack[k].run # Top.run /\ stack[k].inside
    <3>1. stack[k].run \in Runs /\ stack[k].inside \in BOOLEAN
      BY <2>1, FramesAre DEF IInv
    <3>2. stack[k].inside
      BY <2>1, <3>1 DEF IInv, FramesFit
    <3>3. stack[k].run # Top.run
      BY <2>1, <1>1 DEF IInv, FramesFit
    <3>. QED BY <3>1, <3>2, <3>3
  <2>. QED BY <1>2, <2>1, <2>2 DEF IInv, FramesFit
<1>5. ASSUME NEW q \in Runs PROVE RowFits(q)'
  BY <1>2 DEF IInv, RowFits
<1>6. ASSUME NEW q \in Runs, NEW i \in 1 .. MaxSteps PROVE HistoryFits(q, i)'
  <2>1. CASE q = Top.run
    BY <2>1, <1>2, TopFits DEF IInv, HistoryFits
  <2>2. CASE q # Top.run
    BY <2>2, <1>2 DEF IInv, HistoryFits
  <2>. QED BY <2>1, <2>2
<1>. QED BY <1>3, <1>4, <1>5, <1>6 DEF IInv

(* An outcome keeps the invariant: the row is still the one that was read.  *)
LEMMA HandlerReturnsStep ==
  ASSUME IInv, NEW output \in Values, HandlerReturns(output) PROVE IInv'
<1> DEFINE old == run[Top.run]
           status == IF Top.cursor + 1 = Len(old.plan) THEN "completed" ELSE "queued"
           row == [old EXCEPT !.cursor = Top.cursor + 1, !.outputs = Append(Top.outputs, output),
                              !.status = status]
<1>1. /\ stack # <<>> /\ Top.run \in Runs /\ old \in Row /\ old.status = "running"
      /\ Top.cursor = old.cursor /\ Top.outputs = old.outputs
  BY TopFits DEF HandlerReturns
<1>2. /\ Append(old.outputs, output) \in Seq(Values)
      /\ Len(Append(old.outputs, output)) = Len(old.outputs) + 1
  BY <1>1, AppendProperties DEF Row
<1>3. old.cursor \in Nat /\ Len(old.plan) \in Nat /\ status \in Status
  BY <1>1 DEF Row, Status
<1>4. /\ row \in Row /\ row.cursor = old.cursor + 1 /\ row.plan = old.plan /\ row.status = status
      /\ row.outputs = Append(old.outputs, output)
  <2>1. Top.cursor + 1 = old.cursor + 1 /\ Append(Top.outputs, output) = Append(old.outputs, output)
    BY <1>1
  <2>2. old.cursor + 1 \in Nat
    BY <1>3
  <2> HIDE DEF old, status
  <2>3. row = [old EXCEPT !.cursor = old.cursor + 1, !.outputs = Append(old.outputs, output),
                          !.status = status]
    BY <2>1
  <2> DEFINE cursor == old.cursor + 1
             outputs == Append(old.outputs, output)
  <2>4. cursor \in Nat /\ outputs \in Seq(Values)
    BY <1>2, <2>2
  <2> HIDE DEF cursor, outputs, row
  <2>5. row = [old EXCEPT !.cursor = cursor, !.outputs = outputs, !.status = status]
    BY <2>3 DEF cursor, outputs
  <2>6. /\ row \in Row /\ row.cursor = cursor /\ row.plan = old.plan /\ row.status = status
        /\ row.outputs = outputs
    BY <1>1, <1>3, <2>4, <2>5 DEF Row
  <2>. QED BY <2>6 DEF cursor, outputs
<1>5. /\ Len(old.outputs) = old.cursor /\ Len(old.plan) <= MaxSteps /\ old.cursor < Len(old.plan)
      /\ \A i \in 1 .. MaxSteps : calls[<<Top.run, i>>] > 0 => i <= old.cursor + 1
  BY <1>1, <1>3 DEF IInv, RowFits, HistoryFits
<1>6. run' = [run EXCEPT ![Top.run] = row] /\ stack' = Below /\ UNCHANGED <<approvals, registry, calls>>
  BY DEF HandlerReturns
<1>7. /\ row.status \in {"completed", "queued"}
      /\ row.status = "queued" => row.cursor # Len(old.plan)
  BY <1>1, <1>4
<1> HIDE DEF row, status, old
<1>8. /\ Len(row.outputs) = row.cursor /\ Len(row.plan) <= MaxSteps
      /\ row.status = "queued" => row.cursor < Len(row.plan)
      /\ \A i \in 1 .. MaxSteps : calls[<<Top.run, i>>] > 0 => i <= row.cursor
  BY <1>2, <1>3, <1>4, <1>5, <1>7
<1>. QED BY <1>1, <1>4, <1>6, <1>7, <1>8, PopStep

(* A failure keeps the invariant: the failed run stays at its step.         *)
LEMMA HandlerFailsStep == ASSUME IInv, HandlerFails PROVE IInv'
<1> DEFINE row == [run[Top.run] EXCEPT !.status = "failed"]
<1>1. /\ stack # <<>> /\ Top.run \in Runs /\ run[Top.run].status = "running" /\ "failed" \in Status
  BY TopFits DEF HandlerFails, Status
<1>2. /\ row \in Row /\ row.status = "failed" /\ row.plan = run[Top.run].plan
      /\ row.cursor = run[Top.run].cursor /\ row.outputs = run[Top.run].outputs
  BY <1>1, StatusIs
<1>3. run' = [run EXCEPT ![Top.run] = row] /\ stack' = Below /\ UNCHANGED <<approvals, registry, calls>>
  BY DEF HandlerFails
<1> HIDE DEF row
<1>4. /\ Len(row.outputs) = row.cursor /\ Len(row.plan) <= MaxSteps
      /\ \A i \in 1 .. MaxSteps : calls[<<Top.run, i>>] > 0 => i <= row.cursor \/ i = row.cursor + 1
  BY <1>1, <1>2 DEF IInv, RowFits, HistoryFits
<1>. QED BY <1>1, <1>2, <1>3, <1>4, PopStep

(* A call that is given up leaves its run running, which the invariant      *)
(* allows.                                                                  *)
LEMMA AbandonStep == ASSUME IInv, Abandon PROVE IInv'
<1> DEFINE row == run[Top.run]
<1>1. /\ stack # <<>> /\ Top.run \in Runs /\ row \in Row /\ row.status = "running"
  BY TopFits DEF Abandon
<1>2. run' = [run EXCEPT ![Top.run] = row] /\ stack' = Below /\ UNCHANGED <<approvals, registry, calls>>
  BY <1>1 DEF Abandon, IInv, LegacyTypeOK
<1>3. /\ Len(row.outputs) = row.cursor /\ Len(row.plan) <= MaxSteps /\ row.cursor < Len(row.plan)
      /\ \A i \in 1 .. MaxSteps : calls[<<Top.run, i>>] > 0 => i <= row.cursor \/ i = row.cursor + 1
  BY <1>1 DEF IInv, RowFits, HistoryFits
<1> HIDE DEF row
<1>. QED BY <1>1, <1>2, <1>3, PopStep

(* The invariant does not need the calls that a dead process was in.        *)
LEMMA RestartStep == ASSUME IInv, ProcessRestart PROVE IInv'
<1>1. stack' = <<>> /\ Len(stack') = 0 /\ stack' \in Seq(Frame)
  BY EmptySeq DEF ProcessRestart
<1>2. LegacyTypeOK'
  BY <1>1 DEF ProcessRestart, Nothing, IInv, LegacyTypeOK
<1>3. FramesFit'
  BY <1>1 DEF FramesFit
<1>4. ASSUME NEW r \in Runs PROVE RowFits(r)' /\ \A i \in 1 .. MaxSteps : HistoryFits(r, i)'
  BY DEF ProcessRestart, IInv, RowFits, HistoryFits
<1>. QED BY <1>2, <1>3, <1>4 DEF IInv

(* A run that may proceed is at a step that was never called, and no call   *)
(* is on it.                                                                *)
LEMMA ProceedsAtFresh ==
  ASSUME IInv, NEW r \in Runs, run[r].status \in {"queued", "waiting_approval"}
  PROVE  /\ run[r] \in Row /\ At(r) = run[r].cursor + 1 /\ At(r) \in 1 .. Len(run[r].plan)
         /\ At(r) \in 1 .. MaxSteps /\ calls[<<r, At(r)>>] = 0
         /\ \A k \in 1 .. Len(stack) : stack[k].run # r
<1>1. run[r] \in Row
  BY DEF IInv, LegacyTypeOK
<1>2. run[r].cursor \in Nat /\ Len(run[r].plan) \in Nat
  BY <1>1 DEF Row
<1>3. At(r) = run[r].cursor + 1 /\ At(r) \in 1 .. Len(run[r].plan) /\ At(r) \in 1 .. MaxSteps
  BY <1>2, LegacyAssumption DEF At, IInv, RowFits
<1>4. calls[<<r, At(r)>>] \in Nat
  BY <1>3 DEF IInv, LegacyTypeOK
<1>5. ~(calls[<<r, At(r)>>] > 0)
  BY <1>2, <1>3 DEF IInv, HistoryFits
<1>6. \A k \in 1 .. Len(stack) : stack[k].run # r
  BY DEF IInv, FramesFit
<1>. QED BY <1>1, <1>3, <1>4, <1>5, <1>6

(* Taking a step keeps the invariant: nobody else is on that run.           *)
LEMMA AdvanceStartStep == ASSUME IInv, NEW r \in Runs, AdvanceStart(r) PROVE IInv'
<1> DEFINE f == [run |-> r, cursor |-> run[r].cursor, outputs |-> run[r].outputs, inside |-> FALSE]
           row == [run[r] EXCEPT !.status = "running"]
<1>1. run[r].status \in {"queued", "waiting_approval"} /\ "running" \in Status
  BY DEF AdvanceStart, Proceeds, Status
<1>2. /\ row \in Row /\ row.status = "running" /\ row.plan = run[r].plan
      /\ row.cursor = run[r].cursor /\ row.outputs = run[r].outputs
  BY <1>1, StatusIs
<1>3. f \in Frame /\ f.run = r /\ f.cursor = row.cursor /\ f.outputs = row.outputs /\ ~f.inside
  BY <1>2 DEF Frame, Row
<1>4. run' = [run EXCEPT ![r] = row] /\ stack' = Append(stack, f)
      /\ UNCHANGED <<approvals, registry, calls>>
  BY DEF AdvanceStart
<1> HIDE DEF f, row
<1>5. /\ run'[r] = row /\ \A q \in Runs \ {r} : run'[q] = run[q]
      /\ run' \in [Runs -> Row]
  BY <1>2, <1>4 DEF IInv, LegacyTypeOK
<1>6. /\ stack' \in Seq(Frame) /\ Len(stack') = Len(stack) + 1 /\ Len(stack) \in Nat
      /\ \A k \in 1 .. Len(stack) : stack'[k] = stack[k]
      /\ stack'[Len(stack) + 1] = f
  BY <1>3, <1>4, AppendProperties, LenProperties DEF IInv, LegacyTypeOK
<1>7. LegacyTypeOK'
  BY <1>4, <1>5, <1>6 DEF IInv, LegacyTypeOK
<1>8. FramesFit'
  <2>1. ASSUME NEW k \in 1 .. Len(stack')
        PROVE  k \in 1 .. Len(stack) \/ k = Len(stack) + 1
    BY <1>6
  <2>2. ASSUME NEW k \in 1 .. Len(stack)
        PROVE  stack[k].run \in Runs /\ stack[k].run # r /\ stack[k].inside \in BOOLEAN
    BY <1>1, ProceedsAtFresh, FramesAre DEF IInv
  <2>3. ASSUME NEW k \in 1 .. Len(stack) PROVE stack[k].inside
    <3>1. stack # <<>> /\ Top.inside
      BY <1>6, EmptySeq DEF AdvanceStart, MayCall
    <3>. QED BY <2>2, <3>1 DEF IInv, FramesFit, Top
  <2>4. calls[<<r, f.cursor + 1>>] = 0
    BY <1>1, <1>2, <1>3, ProceedsAtFresh, ZenonT(40)
  <2>5. ASSUME NEW j \in 1 .. Len(stack'), NEW k \in 1 .. Len(stack'), stack'[j].run = stack'[k].run
        PROVE  j = k
    BY <1>3, <1>6, <2>1, <2>2, <2>5 DEF IInv, FramesFit
  <2>6. ASSUME NEW k \in 1 .. Len(stack')
        PROVE  LET g == stack'[k]
               IN  /\ run'[g.run].status = "running"
                   /\ g.cursor = run'[g.run].cursor /\ g.outputs = run'[g.run].outputs
                   /\ g.inside <=> calls'[<<g.run, g.cursor + 1>>] > 0
                   /\ ~g.inside => k = Len(stack')
    <3>1. CASE k = Len(stack) + 1
      BY <1>2, <1>3, <1>4, <1>5, <1>6, <2>4, <3>1
    <3>2. CASE k \in 1 .. Len(stack)
      BY <1>4, <1>5, <1>6, <2>2, <2>3, <3>2 DEF IInv, FramesFit
    <3>. QED BY <2>1, <3>1, <3>2
  <2>. QED BY <2>5, <2>6 DEF FramesFit
<1>9. ASSUME NEW q \in Runs PROVE RowFits(q)'
  BY <1>1, <1>2, <1>5 DEF IInv, RowFits
<1>10. ASSUME NEW q \in Runs, NEW i \in 1 .. MaxSteps PROVE HistoryFits(q, i)'
  BY <1>1, <1>2, <1>4, <1>5 DEF IInv, HistoryFits
<1>. QED BY <1>7, <1>8, <1>9, <1>10 DEF IInv

(* Calling the handler keeps the invariant: it is the only call of this     *)
(* step.                                                                    *)
LEMMA CallHandlerStep == ASSUME IInv, CallHandler PROVE IInv'
<1> DEFINE p == <<Top.run, Top.cursor + 1>>
           f == [Top EXCEPT !.inside = TRUE]
<1>1. /\ Top.run \in Runs /\ Top.cursor + 1 \in 1 .. MaxSteps /\ run[Top.run].status = "running"
      /\ Top.cursor = run[Top.run].cursor
  BY TopFits DEF CallHandler
<1>2. /\ Len(stack) \in 1 .. Len(stack) /\ Top = stack[Len(stack)] /\ Top \in Frame
      /\ stack \in Seq(Frame) /\ Len(stack) \in Nat
  BY TopIs DEF CallHandler, IInv, LegacyTypeOK
<1>3. /\ f \in Frame /\ f.run = Top.run /\ f.cursor = Top.cursor /\ f.outputs = Top.outputs
      /\ f.inside
  BY <1>2 DEF Frame
<1>4. p \in Runs \X (1 .. MaxSteps) /\ calls[p] \in Nat
  BY <1>1 DEF IInv, LegacyTypeOK
<1>5. /\ calls' \in [Runs \X (1 .. MaxSteps) -> Nat] /\ calls'[p] = calls[p] + 1
      /\ \A q \in Runs \X (1 .. MaxSteps) : q # p => calls'[q] = calls[q]
  BY <1>4 DEF CallHandler, IInv, LegacyTypeOK
<1>6. stack' = [stack EXCEPT ![Len(stack)] = f]
  BY <1>2 DEF CallHandler
<1> HIDE DEF f
<1>7. /\ stack' \in Seq(Frame) /\ Len(stack') = Len(stack)
      /\ \A k \in 1 .. Len(stack) : stack'[k] = IF k = Len(stack) THEN f ELSE stack[k]
  BY <1>2, <1>3, <1>6, ExceptSeq
<1>8. LegacyTypeOK'
  BY <1>5, <1>7 DEF CallHandler, IInv, LegacyTypeOK
<1>9. FramesFit'
  <2>1. ASSUME NEW k \in 1 .. Len(stack)
        PROVE  /\ stack'[k].run = stack[k].run /\ stack'[k].cursor = stack[k].cursor
               /\ stack'[k].outputs = stack[k].outputs
               /\ k = Len(stack) => stack'[k].inside /\ stack[k].run = Top.run /\ stack[k].cursor = Top.cursor
               /\ k # Len(stack) => stack'[k] = stack[k] /\ stack[k].run # Top.run
               /\ stack[k].run \in Runs
    BY <1>2, <1>3, <1>7, FramesAre DEF IInv, FramesFit
  <2>0. /\ FramesFit
        /\ \A k \in 1 .. Len(stack) : stack[k].run \in Runs => RowFits(stack[k].run)
    BY DEF IInv
  <2>2. ASSUME NEW k \in 1 .. Len(stack)
        PROVE  stack'[k].inside <=> calls'[<<stack'[k].run, stack'[k].cursor + 1>>] > 0
    <3>1. CASE k = Len(stack)
      <4>1. stack'[k].run = Top.run /\ stack'[k].cursor = Top.cursor /\ stack'[k].inside
        BY <2>1, <3>1
      <4>. QED BY <1>4, <1>5, <4>1
    <3>2. CASE k # Len(stack)
      <4>1. stack[k].cursor + 1 \in 1 .. MaxSteps
        <5>1. run[stack[k].run].status = "running" /\ stack[k].cursor = run[stack[k].run].cursor
          BY <2>0 DEF FramesFit
        <5>2. run[stack[k].run] \in Row
          BY <2>1 DEF IInv, LegacyTypeOK
        <5>3. run[stack[k].run].cursor \in Nat /\ Len(run[stack[k].run].plan) \in Nat
          BY <5>2 DEF Row
        <5>4. RowFits(stack[k].run)
          BY <2>0, <2>1
        <5>. QED BY <5>1, <5>3, <5>4, LegacyAssumption DEF RowFits
      <4>2. calls'[<<stack[k].run, stack[k].cursor + 1>>] = calls[<<stack[k].run, stack[k].cursor + 1>>]
        BY <1>5, <2>1, <3>2, <4>1
      <4>3. stack[k].inside <=> calls[<<stack[k].run, stack[k].cursor + 1>>] > 0
        BY <2>0 DEF FramesFit
      <4>. QED BY <2>1, <3>2, <4>2, <4>3
    <3>. QED BY <3>1, <3>2
  <2>3. run' = run /\ Len(stack') = Len(stack)
    BY <1>7 DEF CallHandler
  <2>4. ASSUME NEW j \in 1 .. Len(stack), NEW k \in 1 .. Len(stack), stack'[j].run = stack'[k].run
        PROVE  j = k
    <3>1. stack[j].run = stack[k].run
      BY <2>1, <2>4
    <3>. QED BY <2>0, <3>1 DEF FramesFit
  <2>5. ASSUME NEW k \in 1 .. Len(stack)
        PROVE  /\ run'[stack'[k].run].status = "running"
               /\ stack'[k].cursor = run'[stack'[k].run].cursor
               /\ stack'[k].outputs = run'[stack'[k].run].outputs
               /\ ~stack'[k].inside => k = Len(stack')
    <3>1. /\ run[stack[k].run].status = "running"
          /\ stack[k].cursor = run[stack[k].run].cursor
          /\ stack[k].outputs = run[stack[k].run].outputs
          /\ ~stack[k].inside => k = Len(stack)
      BY <2>0 DEF FramesFit
    <3>. QED BY <2>1, <2>3, <3>1
  <2>. QED BY <2>2, <2>3, <2>4, <2>5 DEF FramesFit
<1>10. ASSUME NEW q \in Runs PROVE RowFits(q)'
  BY DEF IInv, RowFits, CallHandler
<1>11. ASSUME NEW q \in Runs, NEW i \in 1 .. MaxSteps PROVE HistoryFits(q, i)'
  <2>1. CASE <<q, i>> = p
    BY <1>1, <2>1 DEF CallHandler, IInv, HistoryFits
  <2>2. CASE <<q, i>> # p
    BY <1>5, <2>2 DEF CallHandler, IInv, HistoryFits
  <2>. QED BY <2>1, <2>2
<1>. QED BY <1>8, <1>9, <1>10, <1>11 DEF IInv

(* Every step of the runtime keeps the invariant.                           *)
LEMMA NextHolds == IInv /\ [LegacyNext]_legacyVars => IInv'
<1> SUFFICES ASSUME IInv, [LegacyNext]_legacyVars PROVE IInv'
  OBVIOUS
<1>1. CASE UNCHANGED legacyVars
  BY <1>1, RegistryStep DEF legacyVars, IInv, LegacyTypeOK
<1>2. CASE LegacyNext
  BY <1>2, RegisterStep, SubmitStep, AdvanceWaitStep, AdvanceStartStep, CancelStep,
     CallHandlerStep, HandlerReturnsStep, HandlerFailsStep, AbandonStep, RestartStep, ReviewStep
  DEF LegacyNext
<1>. QED BY <1>1, <1>2

(* What every call of advance() and every restart relies on.                *)
THEOREM Invariance == LegacySpec => []IInv
BY InitHolds, NextHolds, PTL DEF LegacySpec

(* Whatever handlers do with the runtime, its tables stay well-formed.      *)
THEOREM TypeCorrect == LegacySpec => []LegacyTypeOK
<1>1. IInv => LegacyTypeOK
  BY DEF IInv
<1>. QED BY Invariance, <1>1, PTL

-----------------------------------------------------------------------------
(* The moves of MissionPromise, on entries given by their fields.           *)

Entry(s, p, d, a, m, k) ==
  [stage |-> s, plan |-> p, done |-> d, approved |-> a, permitted |-> m, asked |-> k]

(* An entry with one place of a field changed.                              *)
Put(g, i, x) == [g EXCEPT ![i] = x]
PutPermitted(e, i, x) == [e EXCEPT !.permitted[i] = x]
PutAsked(e, i, x) == [e EXCEPT !.asked[i] = x]

(* A change at one place of an entry is a change of one field.              *)
LEMMA PutEntry ==
  ASSUME NEW s, NEW p, NEW d, NEW a, NEW m, NEW k, NEW i, NEW x
  PROVE  /\ PutPermitted(Entry(s, p, d, a, m, k), i, x) = Entry(s, p, d, a, Put(m, i, x), k)
         /\ PutAsked(Entry(s, p, d, a, m, k), i, x) = Entry(s, p, d, a, m, Put(k, i, x))
<1>1. ASSUME NEW n, n = [m EXCEPT ![i] = x]
      PROVE  [Entry(s, p, d, a, m, k) EXCEPT !.permitted[i] = x] = Entry(s, p, d, a, n, k)
  BY <1>1 DEF Entry
<1>2. ASSUME NEW l, l = [k EXCEPT ![i] = x]
      PROVE  [Entry(s, p, d, a, m, k) EXCEPT !.asked[i] = x] = Entry(s, p, d, a, m, l)
  BY <1>2 DEF Entry
<1>. QED BY <1>1, <1>2 DEF Put, PutPermitted, PutAsked

(* A mission that appears with its plan is a move of the promise.           *)
LEMMA OpensEntry ==
  ASSUME NEW p0, NEW p, NEW d, NEW a, NEW m, NEW k
  PROVE  Promise!Moves(Entry("absent", p0, d, a, m, k), Entry("open", p, d, a, m, k))
<1> DEFINE e == Entry("absent", p0, d, a, m, k)
           f == Entry("open", p, d, a, m, k)
<1>1. [e EXCEPT !.stage = "open"] = Entry("open", p0, d, a, m, k)
  BY DEF Entry
<1>2. [Entry("open", p0, d, a, m, k) EXCEPT !.plan = p] = f
  BY DEF Entry
<1>3. e.stage = "absent" /\ f.plan = p
  BY DEF Entry
<1>4. f = [e EXCEPT !.stage = "open", !.plan = f.plan]
  BY <1>1, <1>2, <1>3
<1>. QED BY <1>3, <1>4 DEF Promise!Moves, Promise!Opens

(* An approval of the step a mission is at is a move of the promise.        *)
LEMMA ApprovesEntry ==
  ASSUME NEW p, NEW d, NEW a, NEW m, NEW k, NEW b, d + 1 <= Len(p), d + 1 \notin a,
         b = a \cup {d + 1}
  PROVE  Promise!Moves(Entry("open", p, d, a, m, k), Entry("open", p, d, b, m, k))
<1> DEFINE e == Entry("open", p, d, a, m, k)
           f == Entry("open", p, d, b, m, k)
<1>1. e.stage = "open" /\ e.plan = p /\ e.done = d /\ e.approved = a
  BY DEF Entry
<1>2. [e EXCEPT !.approved = b] = f
  BY SMTT(20) DEF Entry
<1>3. f = [e EXCEPT !.approved = @ \cup {d + 1}]
  BY <1>1, <1>2
<1>. QED BY <1>1, <1>3 DEF Promise!Moves, Promise!Approves, Promise!Open, Promise!At

(* Permission to ask for a step that may be asked for is a move of the      *)
(* promise.                                                                 *)
LEMMA PermitsEntry ==
  ASSUME NEW p, NEW d, NEW a, NEW m, NEW k, NEW n, d + 1 <= Len(p),
         p[d + 1].approval => d + 1 \in a, k[d + 1] = 0, m[d + 1] = {},
         n = [m EXCEPT ![d + 1] = {"process"}]
  PROVE  Promise!Moves(Entry("open", p, d, a, m, k), Entry("open", p, d, a, n, k))
<1> DEFINE e == Entry("open", p, d, a, m, k)
           f == Entry("open", p, d, a, n, k)
<1>1. /\ e.stage = "open" /\ e.plan = p /\ e.done = d /\ e.approved = a /\ e.asked = k
      /\ e.permitted = m
  BY DEF Entry
<1>2. [e EXCEPT !.permitted[d + 1] = {"process"}] = f
  <2>1. PutPermitted(e, d + 1, {"process"}) = Entry("open", p, d, a, Put(m, d + 1, {"process"}), k)
    BY PutEntry
  <2>2. Put(m, d + 1, {"process"}) = n
    BY DEF Put
  <2>. QED BY <2>1, <2>2 DEF PutPermitted
<1>3. m[d + 1] \cup {"process"} = {"process"}
  OBVIOUS
<1>4. f = [e EXCEPT !.permitted[d + 1] = @ \cup {"process"}]
  BY <1>1, <1>2, <1>3
<1>5. Promise!Permits(e, f, "process")
  BY <1>1, <1>4 DEF Promise!Permits, Promise!Open, Promise!At, Promise!StepAt
<1>. QED BY <1>5 DEF Promise!Moves

(* Asking for what was permitted is a move of the promise.                  *)
LEMMA AsksEntry ==
  ASSUME NEW s, NEW p, NEW d, NEW a, NEW m, NEW k, NEW n, NEW l, NEW i \in 1 .. MaxSteps,
         m[i] = {"process"}, n = [m EXCEPT ![i] = {}], l = [k EXCEPT ![i] = k[i] + 1]
  PROVE  Promise!Moves(Entry(s, p, d, a, m, k), Entry(s, p, d, a, n, l))
<1> DEFINE e == Entry(s, p, d, a, m, k)
           g == Entry(s, p, d, a, n, k)
           f == Entry(s, p, d, a, n, l)
<1>1. e.permitted = m /\ e.asked = k /\ g.asked = k
  BY DEF Entry
<1>2. [e EXCEPT !.permitted[i] = {}] = g
  <2>1. PutPermitted(e, i, {}) = Entry(s, p, d, a, Put(m, i, {}), k)
    BY PutEntry
  <2>2. Put(m, i, {}) = n
    BY DEF Put
  <2>. QED BY <2>1, <2>2 DEF PutPermitted
<1>3. [e EXCEPT !.permitted[i] = @ \ {"process"}] = g
  BY <1>1, <1>2
<1>4. [g EXCEPT !.asked[i] = k[i] + 1] = f
  <2>1. PutAsked(g, i, k[i] + 1) = Entry(s, p, d, a, n, Put(k, i, k[i] + 1))
    BY PutEntry
  <2>2. Put(k, i, k[i] + 1) = l
    BY DEF Put
  <2>. QED BY <2>1, <2>2 DEF PutAsked
<1>5. [g EXCEPT !.asked[i] = @ + 1] = f
  BY <1>1, <1>4
<1>6. f = [e EXCEPT !.permitted[i] = @ \ {"process"}, !.asked[i] = @ + 1]
  BY <1>3, <1>5
<1>7. Promise!Asks(e, f, i, "process")
  BY <1>1, <1>6 DEF Promise!Asks
<1>. QED BY <1>7 DEF Promise!Moves

(* Recording the output of a step that was asked for is a move of the       *)
(* promise.                                                                 *)
LEMMA RecordsEntry ==
  ASSUME NEW p, NEW d, NEW a, NEW m, NEW k, d + 1 <= Len(p), k[d + 1] > 0
  PROVE  Promise!Moves(Entry("open", p, d, a, m, k),
                       Entry(IF d + 1 = Len(p) THEN "completed" ELSE "open", p, d + 1, a, m, k))
<1> DEFINE s == IF d + 1 = Len(p) THEN "completed" ELSE "open"
           e == Entry("open", p, d, a, m, k)
           f == Entry(s, p, d + 1, a, m, k)
<1>1. e.stage = "open" /\ e.plan = p /\ e.done = d /\ e.asked = k /\ f.stage = s
  BY DEF Entry
<1>2. [e EXCEPT !.done = d + 1] = Entry("open", p, d + 1, a, m, k)
  BY DEF Entry
<1>3. [Entry("open", p, d + 1, a, m, k) EXCEPT !.stage = s] = f
  BY DEF Entry
<1>4. f = [e EXCEPT !.done = @ + 1, !.stage = f.stage]
  BY <1>1, <1>2, <1>3
<1>5. Promise!Records(e, f)
  BY <1>1, <1>4 DEF Promise!Records, Promise!Unsettled, Promise!At
<1>. QED BY <1>5 DEF Promise!Moves

(* Holding or ending a mission is a move of the promise.                    *)
LEMMA SettlesEntry ==
  ASSUME NEW t, NEW p, NEW d, NEW a, NEW m, NEW k, NEW n, d + 1 <= Len(p),
         (t = "held" /\ ~p[d + 1].repeatable) \/ t \in Promise!Ends,
         n[d + 1] \subseteq m[d + 1], n = [m EXCEPT ![d + 1] = n[d + 1]]
  PROVE  Promise!Moves(Entry("open", p, d, a, m, k), Entry(t, p, d, a, n, k))
<1> DEFINE e == Entry("open", p, d, a, m, k)
           f == Entry(t, p, d, a, n, k)
<1>1. /\ e.stage = "open" /\ e.plan = p /\ e.done = d /\ e.permitted = m
      /\ f.stage = t /\ f.permitted = n
  BY DEF Entry
<1>2. [e EXCEPT !.stage = t] = Entry(t, p, d, a, m, k)
  BY DEF Entry
<1>3. [Entry(t, p, d, a, m, k) EXCEPT !.permitted[d + 1] = n[d + 1]] = f
  <2>1. PutPermitted(Entry(t, p, d, a, m, k), d + 1, n[d + 1])
          = Entry(t, p, d, a, Put(m, d + 1, n[d + 1]), k)
    BY PutEntry
  <2>2. Put(m, d + 1, n[d + 1]) = n
    BY DEF Put
  <2>. QED BY <2>1, <2>2 DEF PutPermitted
<1>4. f = [e EXCEPT !.stage = f.stage, !.permitted[d + 1] = f.permitted[d + 1]]
  BY <1>1, <1>2, <1>3
<1>5. Promise!Settles(e, f)
  BY <1>1, <1>4 DEF Promise!Settles, Promise!At
<1>6. Promise!Holds(e, f) \/ Promise!Closes(e, f)
  BY <1>1, <1>5 DEF Promise!Holds, Promise!Closes, Promise!Open, Promise!Unsettled,
     Promise!At, Promise!StepAt
<1>. QED BY <1>6 DEF Promise!Moves

-----------------------------------------------------------------------------
(* The ledger of LegacyCore as an entry.                                    *)

PermittedOf(r) == [i \in 1 .. MaxSteps |-> IF AboutToCall(r, i) THEN {"process"} ELSE {}]
AskedOf(r) == [i \in 1 .. MaxSteps |-> calls[<<r, i>>]]

(* The entry that a run of the runtime stands for, by its fields.           *)
LEMMA LedgerIs ==
  \A r : Ledger(r) = Entry(Stage(r), PlanLedger(r), Len(run[r].outputs), Approved(r),
                           PermittedOf(r), AskedOf(r))
BY DEF Ledger, Entry, PermittedOf, AskedOf

(* Only the last call on the stack can be about to call its handler.        *)
CallsFit ==
  /\ \A r \in Runs : Advancing(r) <=> \E k \in 1 .. Len(stack) : stack[k].run = r
  /\ \A r \in Runs : \A i \in 1 .. MaxSteps :
       AboutToCall(r, i) <=> stack # <<>> /\ ~Top.inside /\ Top.run = r /\ Top.cursor + 1 = i

(* A call that is yet to call its handler is the last on the stack.         *)
LEMMA StackIs == IInv => CallsFit
<1> SUFFICES ASSUME IInv PROVE CallsFit
  OBVIOUS
<1>1. ASSUME NEW r \in Runs, NEW i \in 1 .. MaxSteps, AboutToCall(r, i)
      PROVE  stack # <<>> /\ ~Top.inside /\ Top.run = r /\ Top.cursor + 1 = i
  <2>1. PICK k \in 1 .. Len(stack) : stack[k].run = r /\ ~stack[k].inside /\ stack[k].cursor + 1 = i
    BY <1>1 DEF AboutToCall, Frames
  <2>2. k = Len(stack)
    BY <2>1 DEF IInv, FramesFit
  <2>3. stack # <<>>
    BY EmptySeq
  <2>. QED BY <2>1, <2>2, <2>3 DEF Top
<1>2. ASSUME NEW r \in Runs, NEW i \in 1 .. MaxSteps,
             stack # <<>>, ~Top.inside, Top.run = r, Top.cursor + 1 = i
      PROVE  AboutToCall(r, i)
  <2>1. Len(stack) \in 1 .. Len(stack) /\ Top = stack[Len(stack)]
    BY <1>2, TopIs DEF IInv
  <2>. QED BY <1>2, <2>1 DEF AboutToCall, Frames
<1>3. \A r \in Runs : Advancing(r) <=> \E k \in 1 .. Len(stack) : stack[k].run = r
  BY DEF Advancing, Frames
<1>. QED BY <1>1, <1>2, <1>3 DEF CallsFit

(* A run whose row, history and calls stay has the same entry.              *)
LEMMA SameEntry ==
  ASSUME NEW q \in Runs, Stage(q)' = Stage(q), run'[q].plan = run[q].plan,
         run'[q].outputs = run[q].outputs,
         \A i \in 1 .. MaxSteps :
           /\ approvals'[<<q, i>>] = approvals[<<q, i>>] /\ calls'[<<q, i>>] = calls[<<q, i>>]
           /\ AboutToCall(q, i)' <=> AboutToCall(q, i)
  PROVE  Ledger(q)' = Ledger(q)
<1>1. PlanLedger(q)' = PlanLedger(q)
  BY DEF PlanLedger
<1>2. Approved(q)' = Approved(q)
  BY DEF Approved
<1>3. PermittedOf(q)' = PermittedOf(q) /\ AskedOf(q)' = AskedOf(q)
  BY DEF PermittedOf, AskedOf
<1>. QED BY <1>1, <1>2, <1>3 DEF Ledger, PermittedOf, AskedOf

(* A run that a step leaves alone keeps its entry.                          *)
LEMMA Untouched ==
  ASSUME NEW q \in Runs, run'[q] = run[q], Advancing(q)' <=> Advancing(q),
         \A i \in 1 .. MaxSteps :
           /\ approvals'[<<q, i>>] = approvals[<<q, i>>] /\ calls'[<<q, i>>] = calls[<<q, i>>]
           /\ AboutToCall(q, i)' <=> AboutToCall(q, i)
  PROVE  Ledger(q)' = Ledger(q)
<1>1. Stage(q)' = Stage(q)
  BY DEF Stage
<1>. QED BY <1>1, SameEntry

(* With the same stack the same runs are being advanced.                    *)
LEMMA SameStack ==
  ASSUME stack' = stack
  PROVE  /\ \A q : Advancing(q)' <=> Advancing(q)
         /\ \A q, i : AboutToCall(q, i)' <=> AboutToCall(q, i)
BY DEF Advancing, AboutToCall, Frames

Follows(q) == Ledger(q)' = Ledger(q) \/ Promise!Moves(Ledger(q), Ledger(q)')

(* Where the entry of a run that has not ended stands.                      *)
LEMMA EntryAt ==
  ASSUME IInv, NEW r \in Runs, run[r].status \in {"queued", "waiting_approval", "running"},
         NEW d, d = Len(run[r].outputs)
  PROVE  /\ d = run[r].cursor /\ d \in Nat /\ d + 1 = At(r) /\ d + 1 \in 1 .. MaxSteps
         /\ Len(PlanLedger(r)) = Len(run[r].plan) /\ d + 1 <= Len(PlanLedger(r))
         /\ PlanLedger(r)[d + 1].approval = run[r].plan[d + 1].approval
         /\ ~PlanLedger(r)[d + 1].repeatable
<1> DEFINE n == Len(run[r].plan)
           X == [approval: BOOLEAN, repeatable: BOOLEAN, optional: BOOLEAN]
<1>1. run[r] \in Row
  BY DEF IInv, LegacyTypeOK
<1>2. run[r].plan \in Seq(PlanStep) /\ n \in Nat /\ run[r].cursor \in Nat
  BY <1>1 DEF Row
<1>3. d = run[r].cursor /\ d + 1 \in 1 .. n /\ d + 1 \in 1 .. MaxSteps
  BY <1>2, LegacyAssumption DEF IInv, RowFits
<1>4. ASSUME NEW i \in 1 .. n PROVE run[r].plan[i].approval \in BOOLEAN
  <2>1. run[r].plan[i] \in PlanStep
    BY <1>2, ElementOfSeq
  <2>. QED BY <2>1 DEF PlanStep
<1>5. PlanLedger(r) \in [1 .. n -> X]
  BY <1>4 DEF PlanLedger
<1> HIDE DEF n, X
<1>6. PlanLedger(r) \in Seq(X)
  BY <1>2, <1>5, SeqDef
<1>7. Len(PlanLedger(r)) = n
  BY <1>2, <1>5, <1>6, LenProperties
<1>8. /\ PlanLedger(r)[d + 1].approval = run[r].plan[d + 1].approval
      /\ ~PlanLedger(r)[d + 1].repeatable
  BY <1>3 DEF PlanLedger, n
<1>. QED BY <1>2, <1>3, <1>7, <1>8 DEF At, n

(* submit() opens a mission and touches no other.                           *)
LEMMA SubmitFollows ==
  ASSUME IInv, NEW r \in Runs, Submit(r) PROVE \A q \in Runs : Follows(q)
<1>1. ASSUME NEW q \in Runs, q # r PROVE Follows(q)
  <2>1. run'[q] = run[q] /\ UNCHANGED <<approvals, registry, stack, calls>>
    BY <1>1 DEF Submit, IInv, LegacyTypeOK
  <2>. QED BY <2>1, SameStack, Untouched DEF Follows
<1>2. Follows(r)
  <2>1. run[r] = NoRow /\ run'[r].status = "queued" /\ run'[r].outputs = <<>>
    <3>1. run[r] = NoRow
      BY DEF Submit, IInv, RowFits
    <3>2. NoRow.status = "none" /\ NoRow.outputs = <<>>
      BY DEF NoRow
    <3>3. run'[r] = [NoRow EXCEPT !.status = "queued", !.plan = PlanOf(r)]
      BY DEF Submit, IInv, LegacyTypeOK
    <3>. QED BY <3>1, <3>3 DEF NoRow
  <2>2. Stage(r) = "absent" /\ Stage(r)' = "open"
    BY <2>1 DEF Stage, NoRow
  <2>3. UNCHANGED <<approvals, stack, calls>>
    BY DEF Submit
  <2>4. /\ Approved(r)' = Approved(r) /\ PermittedOf(r)' = PermittedOf(r) /\ AskedOf(r)' = AskedOf(r)
        /\ Len(run'[r].outputs) = Len(run[r].outputs)
    BY <2>1, <2>3, SameStack DEF Approved, PermittedOf, AskedOf, NoRow
  <2>5. Ledger(r) = Entry("absent", PlanLedger(r), Len(run[r].outputs), Approved(r),
                          PermittedOf(r), AskedOf(r))
    BY <2>2, LedgerIs
  <2>6. Ledger(r)' = Entry("open", PlanLedger(r)', Len(run[r].outputs), Approved(r),
                           PermittedOf(r), AskedOf(r))
    BY <2>2, <2>4 DEF Ledger, Entry, PermittedOf, AskedOf
  <2>. QED BY <2>5, <2>6, OpensEntry DEF Follows
<1>. QED BY <1>1, <1>2

(* A step that writes a status, and at most a decision, of one run.         *)
LEMMA StatusLeaves ==
  ASSUME IInv, NEW r \in Runs, NEW status \in Status,
         run' = [run EXCEPT ![r] = [run[r] EXCEPT !.status = status]]
  PROVE  /\ run'[r].status = status /\ run'[r].plan = run[r].plan
         /\ run'[r].outputs = run[r].outputs /\ run'[r].cursor = run[r].cursor
         /\ PlanLedger(r)' = PlanLedger(r)
         /\ \A q \in Runs : q # r => run'[q] = run[q]
<1> DEFINE row == [run[r] EXCEPT !.status = status]
<1>1. /\ row.status = status /\ row.plan = run[r].plan
      /\ row.outputs = run[r].outputs /\ row.cursor = run[r].cursor
  BY StatusIs
<1>2. run'[r] = row /\ \A q \in Runs : q # r => run'[q] = run[q]
  BY DEF IInv, LegacyTypeOK
<1> HIDE DEF row
<1>. QED BY <1>1, <1>2 DEF PlanLedger

(* Asking for an approval changes no entry.                                 *)
LEMMA AdvanceWaitFollows ==
  ASSUME IInv, NEW r \in Runs, AdvanceWait(r) PROVE \A q \in Runs : Follows(q)
<1>1. /\ run[r].status \in {"queued", "waiting_approval"} /\ "waiting_approval" \in Status
      /\ run' = [run EXCEPT ![r] = [run[r] EXCEPT !.status = "waiting_approval"]]
      /\ UNCHANGED <<approvals, registry, stack, calls>>
  BY DEF AdvanceWait, Proceeds, Status
<1>2. ASSUME NEW q \in Runs, q # r PROVE Follows(q)
  BY <1>1, <1>2, StatusLeaves, SameStack, Untouched DEF Follows
<1>3. Follows(r)
  <2>1. run'[r].status = "waiting_approval"
    BY <1>1, StatusLeaves
  <2>2. Stage(r)' = Stage(r)
    BY <1>1, <2>1 DEF Stage
  <2>. QED BY <1>1, <2>2, StatusLeaves, SameStack, SameEntry DEF Follows
<1>. QED BY <1>2, <1>3

(* A run that has not ended ends.                                           *)
LEMMA CancelFollows ==
  ASSUME IInv, NEW r \in Runs, Cancel(r) PROVE \A q \in Runs : Follows(q)
<1>1. /\ run[r].status \in {"queued", "waiting_approval"} /\ "cancelled" \in Status
      /\ run' = [run EXCEPT ![r] = [run[r] EXCEPT !.status = "cancelled"]]
      /\ UNCHANGED <<approvals, registry, stack, calls>>
  BY DEF Cancel, Status
<1>2. ASSUME NEW q \in Runs, q # r PROVE Follows(q)
  BY <1>1, <1>2, StatusLeaves, SameStack, Untouched DEF Follows
<1>3. Follows(r)
  <2> DEFINE p == PlanLedger(r)
             d == Len(run[r].outputs)
             m == PermittedOf(r)
  <2>1. Stage(r) = "open" /\ Stage(r)' = "cancelled"
    BY <1>1, StatusLeaves DEF Stage
  <2>2. Approved(r)' = Approved(r) /\ PermittedOf(r)' = m /\ AskedOf(r)' = AskedOf(r)
    BY <1>1, SameStack DEF Approved, PermittedOf, AskedOf
  <2>3. Ledger(r) = Entry("open", p, d, Approved(r), m, AskedOf(r))
    BY <2>1, LedgerIs
  <2>4. run'[r].outputs = run[r].outputs /\ PlanLedger(r)' = p
    BY <1>1, StatusLeaves
  <2>5. Ledger(r)' = Entry("cancelled", p, d, Approved(r), m, AskedOf(r))
    BY <2>1, <2>2, <2>4 DEF Ledger, Entry, PermittedOf, AskedOf
  <2>6. d + 1 <= Len(p) /\ d + 1 \in 1 .. MaxSteps
    BY <1>1, EntryAt
  <2>7. m = [m EXCEPT ![d + 1] = m[d + 1]] /\ "cancelled" \in Promise!Ends
    BY <2>6 DEF PermittedOf, Promise!Ends
  <2> HIDE DEF p, d, m
  <2>8. Promise!Moves(Entry("open", p, d, Approved(r), m, AskedOf(r)),
                      Entry("cancelled", p, d, Approved(r), m, AskedOf(r)))
    BY <2>6, <2>7, SettlesEntry
  <2>. QED BY <2>3, <2>5, <2>8 DEF Follows
<1>. QED BY <1>2, <1>3

(* Somebody else than the owner allows the step, or the run ends.           *)
LEMMA ReviewFollows ==
  ASSUME IInv, NEW x \in People, NEW r \in Runs, NEW allow \in BOOLEAN, Review(x, r, allow)
  PROVE  \A q \in Runs : Follows(q)
<1> DEFINE status == IF allow THEN "queued" ELSE "rejected"
<1>1. /\ run[r].status = "waiting_approval" /\ status \in Status
      /\ run' = [run EXCEPT ![r] = [run[r] EXCEPT !.status = status]]
      /\ UNCHANGED <<registry, stack, calls>>
      /\ x # Submission[r].owner /\ approvals[<<r, At(r)>>].decision = "none"
  BY DEF Review, Status, Decided
<1> DEFINE p == PlanLedger(r)
           d == Len(run[r].outputs)
           m == PermittedOf(r)
<1>2. d + 1 = At(r) /\ d + 1 \in 1 .. MaxSteps /\ d + 1 <= Len(p)
  BY <1>1, EntryAt
<1>3. /\ approvals'[<<r, At(r)>>] = [decision |-> IF allow THEN "allowed" ELSE "denied", reviewer |-> x]
      /\ \A q \in Runs : \A i \in 1 .. MaxSteps :
           <<q, i>> # <<r, At(r)>> => approvals'[<<q, i>>] = approvals[<<q, i>>]
  BY <1>2 DEF Review, IInv, LegacyTypeOK
<1>4. ASSUME NEW q \in Runs, q # r PROVE Follows(q)
  BY <1>1, <1>3, <1>4, StatusLeaves, SameStack, Untouched DEF Follows
<1>5. Follows(r)
  <2>0. run'[r].status = IF allow THEN "queued" ELSE "rejected"
    BY <1>1, StatusLeaves
  <2>1. Stage(r) = "open" /\ Stage(r)' = IF allow THEN "open" ELSE "rejected"
    BY <1>1, <2>0 DEF Stage
  <2>2. PermittedOf(r)' = m /\ AskedOf(r)' = AskedOf(r)
    BY <1>1, SameStack DEF PermittedOf, AskedOf
  <2>3. d + 1 \notin Approved(r)
    BY <1>1, <1>2 DEF Approved
  <2>4. Approved(r)' = IF allow THEN Approved(r) \cup {d + 1} ELSE Approved(r)
    <3>1. ASSUME NEW i \in 1 .. MaxSteps, i # d + 1 PROVE i \in Approved(r)' <=> i \in Approved(r)
      BY <1>2, <1>3, <3>1 DEF Approved
    <3>2. d + 1 \in Approved(r)' <=> allow
      BY <1>1, <1>2, <1>3 DEF Approved
    <3>3. Approved(r) \subseteq 1 .. MaxSteps /\ Approved(r)' \subseteq 1 .. MaxSteps
      BY DEF Approved
    <3> DEFINE A == Approved(r)
               B == Approved(r)'
    <3> HIDE DEF A, B, d, m, p, status
    <3>4. CASE allow
      <4>1. \A i : i \in B <=> i \in A \cup {d + 1}
        BY <1>2, <3>1, <3>2, <3>3, <3>4 DEF A, B
      <4>. QED BY <3>4, <4>1 DEF A, B
    <3>5. CASE ~allow
      <4>1. \A i : i \in B <=> i \in A
        BY <1>2, <2>3, <3>1, <3>2, <3>3, <3>5 DEF A, B
      <4>. QED BY <3>5, <4>1 DEF A, B
    <3>. QED BY <3>4, <3>5
  <2>5. run'[r].outputs = run[r].outputs /\ PlanLedger(r)' = p
    BY <1>1, StatusLeaves
  <2>6. Ledger(r) = Entry("open", p, d, Approved(r), m, AskedOf(r))
    BY <2>1, LedgerIs
  <2>7. Ledger(r)' = Entry(Stage(r)', p, d, Approved(r)', m, AskedOf(r))
    BY <2>2, <2>5 DEF Ledger, Entry, PermittedOf, AskedOf
  <2>8. m = [m EXCEPT ![d + 1] = m[d + 1]] /\ "rejected" \in Promise!Ends
    BY <1>2 DEF PermittedOf, Promise!Ends
  <2> HIDE DEF p, d, m
  <2>9. CASE allow
    <3>1. Promise!Moves(Entry("open", p, d, Approved(r), m, AskedOf(r)),
                        Entry("open", p, d, Approved(r) \cup {d + 1}, m, AskedOf(r)))
      BY <1>2, <2>3, ApprovesEntry
    <3>. QED BY <2>1, <2>4, <2>6, <2>7, <2>9, <3>1 DEF Follows
  <2>10. CASE ~allow
    <3>1. Promise!Moves(Entry("open", p, d, Approved(r), m, AskedOf(r)),
                        Entry("rejected", p, d, Approved(r), m, AskedOf(r)))
      BY <1>2, <2>8, SettlesEntry
    <3>. QED BY <2>1, <2>4, <2>6, <2>7, <2>10, <3>1 DEF Follows
  <2>. QED BY <2>9, <2>10
<1>. QED BY <1>4, <1>5

(* The call that is pushed has permission for the step it is at.            *)
LEMMA AdvanceStartFollows ==
  ASSUME IInv, IInv', NEW r \in Runs, AdvanceStart(r)
  PROVE  \A q \in Runs : Follows(q)
<1> DEFINE f == [run |-> r, cursor |-> run[r].cursor, outputs |-> run[r].outputs, inside |-> FALSE]
           p == PlanLedger(r)
           d == Len(run[r].outputs)
           m == PermittedOf(r)
           k == AskedOf(r)
<1>1. /\ run[r].status \in {"queued", "waiting_approval"} /\ "running" \in Status
      /\ run' = [run EXCEPT ![r] = [run[r] EXCEPT !.status = "running"]]
      /\ stack' = Append(stack, f) /\ UNCHANGED <<approvals, registry, calls>> /\ MayCall
      /\ StepAt(r).approval => approvals[<<r, At(r)>>].decision \notin {"none", "denied"}
  BY DEF AdvanceStart, Proceeds, Status
<1>2. CallsFit /\ CallsFit'
  BY StackIs, PTL
<1>3. f \in Frame /\ f.run = r /\ ~f.inside /\ f.cursor = run[r].cursor
  BY DEF IInv, LegacyTypeOK, Row, Frame
<1>4. /\ d = run[r].cursor /\ d \in Nat /\ d + 1 = At(r) /\ d + 1 \in 1 .. MaxSteps
      /\ d + 1 <= Len(p) /\ p[d + 1].approval = StepAt(r).approval
  BY <1>1, EntryAt DEF StepAt
<1> HIDE DEF f
<1>5. /\ Len(stack) \in Nat /\ Len(stack') = Len(stack) + 1
      /\ \A j \in 1 .. Len(stack) : stack'[j] = stack[j]
      /\ stack'[Len(stack) + 1] = f /\ stack' # <<>> /\ Top' = f
  <2>1. stack \in Seq(Frame) /\ Len(stack) \in Nat
    BY LenProperties DEF IInv, LegacyTypeOK
  <2>2. /\ Len(stack') = Len(stack) + 1 /\ stack' # <<>>
        /\ \A j \in 1 .. Len(stack) : stack'[j] = stack[j]
        /\ stack'[Len(stack) + 1] = f
    BY <1>1, <1>3, <2>1, AppendProperties
  <2>. QED BY <2>1, <2>2 DEF Top
<1>6. ASSUME NEW q \in Runs PROVE Advancing(q)' <=> Advancing(q) \/ q = r
  <2>1. Advancing(q)' <=> \E j \in 1 .. Len(stack') : stack'[j].run = q
    BY <1>2 DEF CallsFit
  <2>2. Advancing(q) <=> \E j \in 1 .. Len(stack) : stack[j].run = q
    BY <1>2 DEF CallsFit
  <2>3. ASSUME NEW j \in 1 .. Len(stack') PROVE j \in 1 .. Len(stack) \/ j = Len(stack) + 1
    BY <1>5
  <2>4. \A j \in 1 .. Len(stack) : j \in 1 .. Len(stack')
    BY <1>5
  <2>5. Len(stack) + 1 \in 1 .. Len(stack')
    BY <1>5
  <2>. QED BY <1>3, <1>5, <2>1, <2>2, <2>3, <2>4, <2>5
<1>7. ASSUME NEW q \in Runs, NEW i \in 1 .. MaxSteps
      PROVE  ~AboutToCall(q, i) /\ (AboutToCall(q, i)' <=> q = r /\ i = d + 1)
  BY <1>1, <1>2, <1>3, <1>4, <1>5 DEF CallsFit, MayCall
<1>8. ASSUME NEW q \in Runs, q # r PROVE Follows(q)
  BY <1>1, <1>6, <1>7, <1>8, StatusLeaves, Untouched DEF Follows
<1>9. Follows(r)
  <2>1. Stage(r) = "open" /\ Stage(r)' = "open"
    BY <1>1, <1>6, StatusLeaves DEF Stage
  <2>2. Approved(r)' = Approved(r) /\ AskedOf(r)' = k
    BY <1>1 DEF Approved, AskedOf
  <2>3. run'[r].outputs = run[r].outputs /\ PlanLedger(r)' = p
    BY <1>1, StatusLeaves
  <2>4. Ledger(r) = Entry("open", p, d, Approved(r), m, k)
    BY <2>1, LedgerIs
  <2>5. Ledger(r)' = Entry("open", p, d, Approved(r), PermittedOf(r)', k)
    BY <2>1, <2>2, <2>3 DEF Ledger, Entry, PermittedOf, AskedOf
  <2>6. m[d + 1] = {} /\ PermittedOf(r)' = [m EXCEPT ![d + 1] = {"process"}]
    BY <1>4, <1>7 DEF PermittedOf
  <2>7. k[d + 1] = 0
    BY <1>1, <1>4, ProceedsAtFresh DEF AskedOf
  <2>8. p[d + 1].approval => d + 1 \in Approved(r)
    <3>1. SUFFICES ASSUME p[d + 1].approval PROVE d + 1 \in Approved(r)
      OBVIOUS
    <3>2. approvals[<<r, d + 1>>].decision \in {"none", "allowed", "denied"}
      BY <1>4 DEF IInv, LegacyTypeOK
    <3>3. approvals[<<r, d + 1>>].decision = "allowed"
      BY <1>1, <1>4, <3>1, <3>2
    <3>. QED BY <1>4, <3>3 DEF IInv, HistoryFits, Approved
  <2> HIDE DEF p, d, m, k
  <2>9. Promise!Moves(Entry("open", p, d, Approved(r), m, k),
                      Entry("open", p, d, Approved(r), PermittedOf(r)', k))
    BY <1>4, <2>6, <2>7, <2>8, PermitsEntry
  <2>. QED BY <2>4, <2>5, <2>9 DEF Follows
<1>. QED BY <1>8, <1>9

(* The handler that is called is the permitted one.                         *)
LEMMA CallHandlerFollows ==
  ASSUME IInv, IInv', CallHandler PROVE \A q \in Runs : Follows(q)
<1>0. Top.run \in Runs /\ Top.cursor + 1 \in 1 .. MaxSteps /\ stack # <<>> /\ ~Top.inside
  BY TopFits DEF CallHandler
<1> PICK r \in Runs, i \in 1 .. MaxSteps : r = Top.run /\ i = Top.cursor + 1
  BY <1>0
<1> DEFINE m == PermittedOf(r)
           k == AskedOf(r)
<1>1. r = Top.run /\ i = Top.cursor + 1 /\ stack # <<>> /\ ~Top.inside
  BY <1>0
<1>2. CallsFit /\ CallsFit'
  BY StackIs, PTL
<1>3. /\ Len(stack') = Len(stack) /\ Top'.inside /\ Len(stack) \in Nat
      /\ \A j \in 1 .. Len(stack) : stack'[j].run = stack[j].run
  <2>1. /\ Len(stack) \in 1 .. Len(stack) /\ Top = stack[Len(stack)] /\ stack \in Seq(Frame)
        /\ Top \in Frame /\ Len(stack) \in Nat
    BY <1>1, TopIs DEF IInv, LegacyTypeOK
  <2> DEFINE f == [Top EXCEPT !.inside = TRUE]
  <2>2. f \in Frame /\ f.inside /\ f.run = Top.run
    BY <2>1 DEF Frame
  <2>3. stack' = [stack EXCEPT ![Len(stack)] = f]
    BY <2>1 DEF CallHandler
  <2> HIDE DEF f
  <2>4. /\ Len(stack') = Len(stack)
        /\ \A j \in 1 .. Len(stack) : stack'[j] = IF j = Len(stack) THEN f ELSE stack[j]
    BY <2>1, <2>2, <2>3, ExceptSeq
  <2>. QED BY <2>1, <2>2, <2>4 DEF Top
<1>4. /\ UNCHANGED <<run, approvals>>
      /\ calls'[<<r, i>>] = calls[<<r, i>>] + 1
      /\ \A q \in Runs : \A j \in 1 .. MaxSteps :
           <<q, j>> # <<r, i>> => calls'[<<q, j>>] = calls[<<q, j>>]
  BY <1>1 DEF CallHandler, IInv, LegacyTypeOK
<1>5. \A q \in Runs : Advancing(q)' <=> Advancing(q)
  BY <1>2, <1>3 DEF CallsFit
<1>6. \A q \in Runs : \A j \in 1 .. MaxSteps :
        ~AboutToCall(q, j)' /\ (AboutToCall(q, j) <=> q = r /\ j = i)
  BY <1>1, <1>2, <1>3 DEF CallsFit
<1>7. ASSUME NEW q \in Runs, q # r PROVE Follows(q)
  BY <1>4, <1>5, <1>6, <1>7, Untouched DEF Follows
<1>8. Follows(r)
  <2>1. Stage(r)' = Stage(r)
    BY <1>1, <1>4, <1>5 DEF Stage
  <2>2. /\ Approved(r)' = Approved(r) /\ PlanLedger(r)' = PlanLedger(r)
        /\ Len(run'[r].outputs) = Len(run[r].outputs)
    BY <1>4 DEF Approved, PlanLedger
  <2>3. m[i] = {"process"} /\ PermittedOf(r)' = [m EXCEPT ![i] = {}]
    BY <1>1, <1>6 DEF PermittedOf
  <2>4. AskedOf(r)' = [k EXCEPT ![i] = k[i] + 1]
    BY <1>1, <1>4 DEF AskedOf
  <2>5. Ledger(r) = Entry(Stage(r), PlanLedger(r), Len(run[r].outputs), Approved(r), m, k)
    BY LedgerIs
  <2>6. Ledger(r)' = Entry(Stage(r), PlanLedger(r), Len(run[r].outputs), Approved(r),
                           PermittedOf(r)', AskedOf(r)')
    BY <2>1, <2>2 DEF Ledger, Entry, PermittedOf, AskedOf
  <2> HIDE DEF m, k
  <2>7. \A s, q, d, a, n, l :
          n = [m EXCEPT ![i] = {}] /\ l = [k EXCEPT ![i] = k[i] + 1] =>
            Promise!Moves(Entry(s, q, d, a, m, k), Entry(s, q, d, a, n, l))
    BY <2>3, AsksEntry, Zenon
  <2>8. Promise!Moves(Entry(Stage(r), PlanLedger(r), Len(run[r].outputs), Approved(r), m, k),
                      Entry(Stage(r), PlanLedger(r), Len(run[r].outputs), Approved(r),
                            PermittedOf(r)', AskedOf(r)'))
    BY <2>3, <2>4, <2>7, Zenon
  <2>. QED BY <2>5, <2>6, <2>8, Zenon DEF Follows
<1>. QED BY <1>7, <1>8

(* Ending the last call takes only its own run off the stack.               *)
LEMMA PopLeaves ==
  ASSUME IInv, IInv', stack # <<>>, stack' = Below
  PROVE  /\ \A q \in Runs : Advancing(q)' <=> Advancing(q) /\ q # Top.run
         /\ \A q \in Runs : \A i \in 1 .. MaxSteps :
              ~AboutToCall(q, i)' /\ (q # Top.run => ~AboutToCall(q, i))
<1>1. CallsFit /\ CallsFit'
  BY StackIs, PTL
<1>2. /\ Len(stack) \in Nat \ {0} /\ Top = stack[Len(stack)] /\ Len(Below) = Len(stack) - 1
      /\ \A k \in 1 .. Len(Below) : Below[k] = stack[k]
  BY TopIs DEF IInv
<1>3. ASSUME NEW k \in 1 .. Len(Below)
      PROVE  k \in 1 .. Len(stack) /\ Below[k] = stack[k] /\ k # Len(stack)
  BY <1>2
<1>4. Len(stack) \in 1 .. Len(stack)
  BY <1>2
<1>5. ASSUME NEW k \in 1 .. Len(Below) PROVE Below[k].run # Top.run /\ Below[k].inside
  <2>1. Below[k].run # Top.run
    BY <1>2, <1>3, <1>4 DEF IInv, FramesFit
  <2>2. stack[k].inside
    BY <1>3 DEF IInv, FramesFit
  <2>. QED BY <1>3, <2>1, <2>2
<1>6. ASSUME NEW q \in Runs PROVE Advancing(q)' <=> Advancing(q) /\ q # Top.run
  <2>1. Advancing(q)' <=> \E k \in 1 .. Len(Below) : Below[k].run = q
    BY <1>1 DEF CallsFit
  <2>2. Advancing(q) <=> \E k \in 1 .. Len(stack) : stack[k].run = q
    BY <1>1 DEF CallsFit
  <2>3. ASSUME NEW k \in 1 .. Len(stack), stack[k].run = q, q # Top.run
        PROVE  k \in 1 .. Len(Below)
    BY <1>2, <2>3
  <2>. QED BY <1>3, <1>5, <2>1, <2>2, <2>3
<1>7. ASSUME NEW q \in Runs, NEW i \in 1 .. MaxSteps
      PROVE  ~AboutToCall(q, i)' /\ (q # Top.run => ~AboutToCall(q, i))
  <2>1. ~AboutToCall(q, i)'
    BY <1>5 DEF AboutToCall, Frames
  <2>2. q # Top.run => ~AboutToCall(q, i)
    BY <1>1 DEF CallsFit
  <2>. QED BY <2>1, <2>2
<1>. QED BY <1>6, <1>7

(* The output is that of a step whose handler was called.                   *)
LEMMA HandlerReturnsFollows ==
  ASSUME IInv, IInv', NEW output \in Values, HandlerReturns(output)
  PROVE  \A q \in Runs : Follows(q)
<1>0. Top.run \in Runs
  BY TopFits DEF HandlerReturns
<1> PICK r \in Runs : r = Top.run
  BY <1>0
<1> DEFINE p == PlanLedger(r)
           d == Len(run[r].outputs)
           m == PermittedOf(r)
           k == AskedOf(r)
<1>1. /\ stack # <<>> /\ stack' = Below /\ Top.inside /\ UNCHANGED <<approvals, registry, calls>>
      /\ r = Top.run /\ run[r] \in Row /\ run[r].status = "running"
      /\ Top.cursor = run[r].cursor /\ Top.outputs = run[r].outputs
      /\ calls[<<r, Top.cursor + 1>>] > 0
  BY TopFits DEF HandlerReturns
<1>2. /\ d = run[r].cursor /\ d \in Nat /\ d + 1 \in 1 .. MaxSteps /\ d + 1 <= Len(p)
      /\ Len(p) = Len(run[r].plan)
  BY <1>1, EntryAt
<1>3. /\ run'[r].cursor = d + 1 /\ run'[r].outputs = Append(run[r].outputs, output)
      /\ run'[r].status = IF d + 1 = Len(run[r].plan) THEN "completed" ELSE "queued"
      /\ run'[r].plan = run[r].plan
      /\ \A q \in Runs : q # r => run'[q] = run[q]
  BY <1>1, <1>2 DEF HandlerReturns, IInv, LegacyTypeOK, Row
<1>4. Len(run'[r].outputs) = d + 1
  BY <1>1, <1>3, AppendProperties DEF Row
<1>5. /\ \A q \in Runs : Advancing(q)' <=> Advancing(q) /\ q # r
      /\ \A q \in Runs : \A i \in 1 .. MaxSteps : ~AboutToCall(q, i)' /\ ~AboutToCall(q, i)
  <2>1. CallsFit
    BY StackIs
  <2>. QED BY <1>1, <2>1, PopLeaves DEF CallsFit
<1>6. ASSUME NEW q \in Runs, q # r PROVE Follows(q)
  BY <1>1, <1>3, <1>5, <1>6, Untouched DEF Follows
<1>7. Follows(r)
  <2>1. Stage(r) = "open"
    <3>1. CallsFit /\ Len(stack) \in 1 .. Len(stack) /\ Top = stack[Len(stack)]
      BY <1>1, StackIs, TopIs DEF IInv
    <3>2. Advancing(r)
      BY <1>1, <3>1 DEF CallsFit
    <3>. QED BY <1>1, <3>2 DEF Stage
  <2>2. Stage(r)' = IF d + 1 = Len(p) THEN "completed" ELSE "open"
    BY <1>2, <1>3 DEF Stage
  <2>3. /\ Approved(r)' = Approved(r) /\ PlanLedger(r)' = p
        /\ PermittedOf(r)' = m /\ AskedOf(r)' = k
    BY <1>1, <1>3, <1>5 DEF Approved, PlanLedger, PermittedOf, AskedOf
  <2>4. k[d + 1] > 0
    BY <1>1, <1>2 DEF AskedOf
  <2>5. Ledger(r) = Entry("open", p, d, Approved(r), m, k)
    BY <2>1, LedgerIs
  <2>6. Ledger(r)' = Entry(IF d + 1 = Len(p) THEN "completed" ELSE "open", p, d + 1,
                           Approved(r), m, k)
    BY <1>4, <2>2, <2>3 DEF Ledger, Entry, PermittedOf, AskedOf
  <2> HIDE DEF p, d, m, k
  <2>. QED BY <1>2, <2>4, <2>5, <2>6, RecordsEntry DEF Follows
<1>. QED BY <1>6, <1>7

(* A run that is being advanced is given up: it fails, or it is held.       *)
LEMMA GivenUp ==
  ASSUME IInv, NEW r \in Runs, run[r].status = "running", Advancing(r),
         NEW t, t \in {"held", "failed"}, Stage(r)' = t,
         run'[r].plan = run[r].plan, run'[r].outputs = run[r].outputs,
         UNCHANGED <<approvals, calls>>, \A i \in 1 .. MaxSteps : ~AboutToCall(r, i)'
  PROVE  Follows(r)
<1> DEFINE p == PlanLedger(r)
           d == Len(run[r].outputs)
           m == PermittedOf(r)
           k == AskedOf(r)
           n == [i \in 1 .. MaxSteps |-> {}]
<1>1. /\ d = run[r].cursor /\ d + 1 \in 1 .. MaxSteps /\ d + 1 <= Len(p)
      /\ ~p[d + 1].repeatable
  BY EntryAt
<1>2. ASSUME NEW i \in 1 .. MaxSteps, AboutToCall(r, i) PROVE i = d + 1
  <2>1. CallsFit
    BY StackIs
  <2>2. stack # <<>> /\ Top.run = r /\ Top.cursor + 1 = i
    BY <1>2, <2>1 DEF CallsFit
  <2>. QED BY <1>1, <2>2, TopFits
<1>3. /\ Approved(r)' = Approved(r) /\ PlanLedger(r)' = p /\ AskedOf(r)' = k
      /\ PermittedOf(r)' = n
  BY DEF Approved, PlanLedger, AskedOf, PermittedOf
<1>4. n[d + 1] \subseteq m[d + 1] /\ n = [m EXCEPT ![d + 1] = n[d + 1]]
  BY <1>1, <1>2 DEF PermittedOf
<1>5. Stage(r) = "open"
  BY DEF Stage
<1>6. Ledger(r) = Entry("open", p, d, Approved(r), m, k)
  BY <1>5, LedgerIs
<1>7. Ledger(r)' = Entry(t, p, d, Approved(r), n, k)
  <2>1. Ledger(r)' = Entry(Stage(r)', PlanLedger(r)', Len(run'[r].outputs), Approved(r)',
                           PermittedOf(r)', AskedOf(r)')
    BY DEF Ledger, Entry, PermittedOf, AskedOf
  <2>. QED BY <1>3, <2>1
<1>8. (t = "held" /\ ~p[d + 1].repeatable) \/ t \in Promise!Ends
  BY <1>1 DEF Promise!Ends
<1> HIDE DEF p, d, m, k, n
<1>9. Promise!Moves(Entry("open", p, d, Approved(r), m, k), Entry(t, p, d, Approved(r), n, k))
  BY <1>1, <1>4, <1>8, SettlesEntry
<1>. QED BY <1>6, <1>7, <1>9 DEF Follows

(* A failure ends the mission that it happened to.                          *)
LEMMA HandlerFailsFollows ==
  ASSUME IInv, IInv', HandlerFails PROVE \A q \in Runs : Follows(q)
<1>0. Top.run \in Runs /\ run[Top.run].status = "running" /\ stack # <<>>
  BY TopFits DEF HandlerFails
<1> PICK r \in Runs : r = Top.run
  BY <1>0
<1>1. /\ run[r].status = "running" /\ "failed" \in Status
      /\ run' = [run EXCEPT ![r] = [run[r] EXCEPT !.status = "failed"]]
      /\ stack' = Below /\ UNCHANGED <<approvals, registry, calls>>
  BY <1>0 DEF HandlerFails, Status
<1>2. /\ \A q \in Runs : Advancing(q)' <=> Advancing(q) /\ q # r
      /\ \A q \in Runs : \A i \in 1 .. MaxSteps : ~AboutToCall(q, i)' /\ (q # r => ~AboutToCall(q, i))
  BY <1>0, <1>1, PopLeaves
<1>3. Advancing(r)
  <2>1. CallsFit /\ Len(stack) \in 1 .. Len(stack) /\ Top = stack[Len(stack)]
    BY <1>0, StackIs, TopIs DEF IInv
  <2>. QED BY <2>1 DEF CallsFit
<1>4. ASSUME NEW q \in Runs, q # r PROVE Follows(q)
  BY <1>1, <1>2, <1>4, StatusLeaves, Untouched DEF Follows
<1>5. /\ run'[r].status = "failed" /\ run'[r].plan = run[r].plan
      /\ run'[r].outputs = run[r].outputs
  BY <1>1, StatusLeaves
<1>6. Stage(r)' = "failed"
  BY <1>5 DEF Stage
<1>7. Follows(r)
  BY <1>1, <1>2, <1>3, <1>5, <1>6, GivenUp
<1>. QED BY <1>4, <1>7

(* A call that is given up leaves its mission held.                         *)
LEMMA AbandonFollows ==
  ASSUME IInv, IInv', Abandon PROVE \A q \in Runs : Follows(q)
<1>0. Top.run \in Runs /\ run[Top.run].status = "running" /\ stack # <<>>
  BY TopFits DEF Abandon
<1> PICK r \in Runs : r = Top.run
  BY <1>0
<1>1. /\ run[r].status = "running" /\ stack' = Below
      /\ UNCHANGED <<run, approvals, registry, calls>>
  BY <1>0 DEF Abandon
<1>2. /\ \A q \in Runs : Advancing(q)' <=> Advancing(q) /\ q # r
      /\ \A q \in Runs : \A i \in 1 .. MaxSteps : ~AboutToCall(q, i)' /\ (q # r => ~AboutToCall(q, i))
  BY <1>0, <1>1, PopLeaves
<1>3. Advancing(r)
  <2>1. CallsFit /\ Len(stack) \in 1 .. Len(stack) /\ Top = stack[Len(stack)]
    BY <1>0, StackIs, TopIs DEF IInv
  <2>. QED BY <2>1 DEF CallsFit
<1>4. ASSUME NEW q \in Runs, q # r PROVE Follows(q)
  BY <1>1, <1>2, <1>4, Untouched DEF Follows
<1>5. Stage(r)' = "held"
  BY <1>1, <1>2 DEF Stage
<1>6. Follows(r)
  BY <1>1, <1>2, <1>3, <1>5, GivenUp
<1>. QED BY <1>4, <1>6

(* A process that ends gives up every call it is in.                        *)
LEMMA RestartFollows ==
  ASSUME IInv, IInv', ProcessRestart PROVE \A q \in Runs : Follows(q)
<1>1. CallsFit /\ CallsFit'
  BY StackIs, PTL
<1>2. /\ \A q \in Runs : ~Advancing(q)'
      /\ \A q \in Runs : \A i \in 1 .. MaxSteps : ~AboutToCall(q, i)'
  <2>1. stack' = <<>> /\ Len(stack') = 0
    BY EmptySeq DEF ProcessRestart
  <2>. QED BY <1>1, <2>1 DEF CallsFit
<1>3. UNCHANGED <<run, approvals, calls>>
  BY DEF ProcessRestart
<1>4. ASSUME NEW q \in Runs PROVE Follows(q)
  <2>1. CASE Advancing(q)
    <3>1. run[q].status = "running"
      <4>1. PICK k \in 1 .. Len(stack) : stack[k].run = q
        BY <1>1, <2>1 DEF CallsFit
      <4>. QED BY <4>1 DEF IInv, FramesFit
    <3>2. Stage(q)' = "held"
      BY <1>2, <1>3, <3>1 DEF Stage
    <3>. QED BY <1>2, <1>3, <2>1, <3>1, <3>2, GivenUp
  <2>2. CASE ~Advancing(q)
    <3>1. \A i \in 1 .. MaxSteps : ~AboutToCall(q, i)
      BY <2>2 DEF Advancing, AboutToCall
    <3>. QED BY <1>2, <1>3, <2>2, <3>1, Untouched DEF Follows
  <2>. QED BY <2>1, <2>2
<1>. QED BY <1>4

(* What is registered changes no entry.                                     *)
LEMMA RegistryFollows ==
  ASSUME UNCHANGED <<run, approvals, stack, calls>> PROVE \A q \in Runs : Follows(q)
BY SameStack, Untouched DEF Follows

(* Every step of the runtime is a move of each mission, or leaves it alone. *)
LEMMA NextFollows ==
  ASSUME IInv, IInv', [LegacyNext]_legacyVars PROVE \A q \in Runs : Follows(q)
<1>1. CASE UNCHANGED legacyVars
  BY <1>1, RegistryFollows DEF legacyVars
<1>2. ASSUME NEW c \in Capabilities, Register(c) PROVE \A q \in Runs : Follows(q)
  BY <1>2, RegistryFollows DEF Register
<1>3. CASE LegacyNext
  BY <1>2, <1>3, SubmitFollows, AdvanceWaitFollows, AdvanceStartFollows, CancelFollows,
     CallHandlerFollows, HandlerReturnsFollows, HandlerFailsFollows, AbandonFollows,
     RestartFollows, ReviewFollows
  DEF LegacyNext
<1>. QED BY <1>1, <1>3

-----------------------------------------------------------------------------
(* The runtime implements MissionPromise: in whatever way handlers call it, *)
(* and wherever its process ends, a step is called in order, once, with the *)
(* approval its plan asks for, and its output is recorded once.             *)
THEOREM Implements == LegacySpec => KeepsPromise
<1> DEFINE ledger == [r \in Runs |-> Ledger(r)]
<1>1. LegacyInit => Promise!PromiseInit
  <2>1. SUFFICES ASSUME LegacyInit, NEW r \in Runs PROVE Ledger(r) = Promise!Empty
    BY DEF Promise!PromiseInit
  <2>2. /\ Stage(r) = "absent" /\ PlanLedger(r) = <<>> /\ Len(run[r].outputs) = 0
        /\ Approved(r) = {} /\ \A i \in 1 .. MaxSteps : ~AboutToCall(r, i) /\ calls[<<r, i>>] = 0
    <3>1. run[r] = NoRow /\ stack = <<>>
      BY <2>1 DEF LegacyInit
    <3>2. Len(stack) = 0 /\ Stage(r) = "absent" /\ Len(run[r].outputs) = 0
      BY <3>1 DEF Stage, NoRow
    <3>3. PlanLedger(r) = <<>>
      <4> DEFINE X == [approval: BOOLEAN, repeatable: BOOLEAN, optional: BOOLEAN]
      <4>1. Len(run[r].plan) = 0 /\ 1 .. 0 = {}
        BY <3>1 DEF NoRow
      <4>2. PlanLedger(r) \in [1 .. 0 -> X]
        BY <4>1 DEF PlanLedger
      <4> HIDE DEF X
      <4>3. PlanLedger(r) \in Seq(X)
        BY <4>2, SeqDef
      <4>4. Len(PlanLedger(r)) \in Nat /\ 1 .. Len(PlanLedger(r)) = 1 .. 0
        BY <4>2, <4>3, LenProperties
      <4>5. Len(PlanLedger(r)) \notin Nat \ {0}
        BY <4>4
      <4>. QED BY <4>3, <4>5, EmptySeq
    <3>4. Approved(r) = {}
      <4>1. ASSUME NEW i \in 1 .. MaxSteps PROVE approvals[<<r, i>>].decision = "none"
        BY <2>1 DEF LegacyInit, NoDecision
      <4>. QED BY <4>1 DEF Approved
    <3>5. \A i \in 1 .. MaxSteps : ~AboutToCall(r, i) /\ calls[<<r, i>>] = 0
      BY <2>1, <3>2 DEF LegacyInit, AboutToCall, Frames
    <3>. QED BY <3>2, <3>3, <3>4, <3>5
  <2>. QED BY <2>2 DEF Ledger, Promise!Empty
<1>2. IInv /\ IInv' /\ [LegacyNext]_legacyVars => [Promise!PromiseNext]_ledger
  <2>1. SUFFICES ASSUME IInv, IInv', [LegacyNext]_legacyVars PROVE Promise!PromiseNext
    OBVIOUS
  <2>2. \A r \in Runs : Ledger(r)' = Ledger(r) \/ Promise!Moves(Ledger(r), Ledger(r)')
    BY <2>1, NextFollows DEF Follows
  <2>. QED BY <2>2 DEF Promise!PromiseNext
<1>. QED BY Invariance, <1>1, <1>2, PTL DEF LegacySpec, KeepsPromise, Promise!PromiseSpec

-----------------------------------------------------------------------------
(* What the promise leaves open.  It would let a person vouch for an output *)
(* of a step that was held; nobody does so here.                            *)

(* A step before the cursor was called once, no step was called twice, and  *)
(* a call is of the step that a run is at, or of an earlier one, and was    *)
(* approved by somebody else than the owner where its plan asks for it.     *)
HandlersCalledOnce ==
  \A r \in Runs : \A i \in 1 .. MaxSteps :
    /\ calls[<<r, i>>] <= 1
    /\ i <= run[r].cursor => calls[<<r, i>>] = 1
    /\ calls[<<r, i>>] > 0 =>
         /\ i <= run[r].cursor \/ (i = At(r) /\ run[r].status \in {"running", "failed"})
         /\ run[r].plan[i].approval => i \in Approved(r)

(* The same of a call that is about to be made.                             *)
CallFits(r, i) ==
  /\ calls[<<r, i>>] <= 1
  /\ i <= run[r].cursor => calls[<<r, i>>] = 1
  /\ calls[<<r, i>>] > 0 \/ AboutToCall(r, i) =>
       (run[r].plan[i].approval => i \in Approved(r))

CallsFitRuns == \A r \in Runs : \A i \in 1 .. MaxSteps : CallFits(r, i)

(* A step that neither calls nor records anything of a run.                 *)
LEMMA KeptFits ==
  ASSUME NEW q \in Runs, NEW i \in 1 .. MaxSteps, CallFits(q, i),
         run'[q].cursor = run[q].cursor, run'[q].plan = run[q].plan,
         calls'[<<q, i>>] = calls[<<q, i>>], AboutToCall(q, i)' => AboutToCall(q, i),
         \/ approvals'[<<q, i>>] = approvals[<<q, i>>]
         \/ approvals[<<q, i>>].decision = "none"
  PROVE  CallFits(q, i)'
<1>1. i \in Approved(q) => i \in Approved(q)'
  BY DEF Approved
<1>. QED BY <1>1 DEF CallFits

(* submit() starts a run that was never called.                             *)
LEMMA SubmitCalls ==
  ASSUME IInv, CallsFitRuns, NEW r \in Runs, Submit(r) PROVE CallsFitRuns'
<1>1. UNCHANGED <<approvals, stack, calls>> /\ \A q \in Runs : q # r => run'[q] = run[q]
  BY DEF Submit, IInv, LegacyTypeOK
<1>2. run[r].status = "none" /\ run[r] = NoRow /\ run'[r].cursor = 0
  BY DEF Submit, IInv, LegacyTypeOK, RowFits, NoRow
<1>3. ASSUME NEW i \in 1 .. MaxSteps PROVE CallFits(r, i)'
  <2>1. calls[<<r, i>>] = 0
    <3>1. calls[<<r, i>>] \in Nat /\ run[r].cursor = 0 /\ HistoryFits(r, i)
      BY <1>2 DEF IInv, LegacyTypeOK, NoRow
    <3>. QED BY <1>2, <3>1 DEF HistoryFits
  <2>2. ASSUME AboutToCall(r, i) PROVE FALSE
    <3>1. PICK k \in 1 .. Len(stack) : stack[k].run = r
      BY <2>2 DEF AboutToCall, Frames
    <3>. QED BY <1>2, <3>1 DEF IInv, FramesFit
  <2>3. calls'[<<r, i>>] = 0 /\ ~AboutToCall(r, i)'
    BY <1>1, <2>1, <2>2, SameStack
  <2>. QED BY <1>2, <2>3 DEF CallFits
<1>4. ASSUME NEW q \in Runs, q # r, NEW i \in 1 .. MaxSteps PROVE CallFits(q, i)'
  BY <1>1, <1>4, SameStack, KeptFits DEF CallsFitRuns
<1>. QED BY <1>3, <1>4 DEF CallsFitRuns

(* What writes a status, or a decision that was not taken, calls nothing.   *)
LEMMA StatusCalls ==
  ASSUME IInv, CallsFitRuns, NEW r \in Runs, NEW status \in Status,
         run' = [run EXCEPT ![r] = [run[r] EXCEPT !.status = status]], calls' = calls,
         \A q \in Runs : \A i \in 1 .. MaxSteps :
           /\ AboutToCall(q, i)' => AboutToCall(q, i)
           /\ approvals'[<<q, i>>] = approvals[<<q, i>>] \/ approvals[<<q, i>>].decision = "none"
  PROVE  CallsFitRuns'
<1>1. \A q \in Runs : run'[q].cursor = run[q].cursor /\ run'[q].plan = run[q].plan
  BY StatusLeaves
<1>. QED BY <1>1, KeptFits DEF CallsFitRuns

(* Who decides, decides what nobody has decided.                            *)
LEMMA ReviewCalls ==
  ASSUME IInv, CallsFitRuns, NEW x \in People, NEW r \in Runs, NEW allow \in BOOLEAN,
         Review(x, r, allow)
  PROVE  CallsFitRuns'
<1> DEFINE status == IF allow THEN "queued" ELSE "rejected"
<1>1. /\ status \in Status /\ run' = [run EXCEPT ![r] = [run[r] EXCEPT !.status = status]]
      /\ UNCHANGED <<registry, stack, calls>> /\ approvals[<<r, At(r)>>].decision = "none"
  BY DEF Review, Status, Decided
<1>2. \A q \in Runs : \A i \in 1 .. MaxSteps :
        <<q, i>> # <<r, At(r)>> => approvals'[<<q, i>>] = approvals[<<q, i>>]
  BY DEF Review, IInv, LegacyTypeOK
<1>. QED BY <1>1, <1>2, SameStack, StatusCalls

(* Who is about to call passed the check of the approval.                   *)
LEMMA AdvanceStartCalls ==
  ASSUME IInv, IInv', CallsFitRuns, NEW r \in Runs, AdvanceStart(r)
  PROVE  CallsFitRuns'
<1> DEFINE f == [run |-> r, cursor |-> run[r].cursor, outputs |-> run[r].outputs, inside |-> FALSE]
<1>1. /\ run[r].status \in {"queued", "waiting_approval"} /\ "running" \in Status
      /\ run' = [run EXCEPT ![r] = [run[r] EXCEPT !.status = "running"]]
      /\ stack' = Append(stack, f) /\ UNCHANGED <<approvals, registry, calls>>
      /\ StepAt(r).approval => approvals[<<r, At(r)>>].decision \notin {"none", "denied"}
  BY DEF AdvanceStart, Proceeds, Status
<1>2. CallsFit'
  BY StackIs, PTL
<1>3. f \in Frame /\ f.run = r /\ f.cursor = run[r].cursor
  BY DEF IInv, LegacyTypeOK, Row, Frame
<1>4. At(r) \in 1 .. MaxSteps /\ At(r) = run[r].cursor + 1
  BY <1>1, EntryAt DEF At
<1> HIDE DEF f
<1>5. Top' = f
  <2>1. stack \in Seq(Frame) /\ Len(stack) \in Nat
    BY LenProperties DEF IInv, LegacyTypeOK
  <2>2. Len(stack') = Len(stack) + 1 /\ stack'[Len(stack) + 1] = f
    BY <1>1, <1>3, <2>1, AppendProperties
  <2>. QED BY <2>2 DEF Top
<1>6. \A q \in Runs : \A i \in 1 .. MaxSteps : AboutToCall(q, i)' => q = r /\ i = At(r)
  BY <1>2, <1>3, <1>4, <1>5 DEF CallsFit
<1>7. \A q \in Runs : run'[q].cursor = run[q].cursor /\ run'[q].plan = run[q].plan
  BY <1>1, StatusLeaves
<1>8. ASSUME NEW i \in 1 .. MaxSteps, i = At(r) PROVE CallFits(r, i)'
  <2>1. approvals[<<r, i>>].decision \in {"none", "allowed", "denied"}
    BY DEF IInv, LegacyTypeOK
  <2>2. run[r].plan[i].approval => i \in Approved(r)
    BY <1>1, <1>8, <2>1 DEF IInv, HistoryFits, Approved, StepAt
  <2>3. CallFits(r, i) /\ Approved(r)' = Approved(r) /\ calls' = calls
    BY <1>1 DEF CallsFitRuns, Approved
  <2>. QED BY <1>7, <2>2, <2>3 DEF CallFits
<1>9. ASSUME NEW q \in Runs, NEW i \in 1 .. MaxSteps, ~(q = r /\ i = At(r)) PROVE CallFits(q, i)'
  BY <1>1, <1>6, <1>7, <1>9, KeptFits DEF CallsFitRuns
<1>. QED BY <1>8, <1>9 DEF CallsFitRuns

(* The handler that is called was not called before.                        *)
LEMMA CallHandlerCalls ==
  ASSUME IInv, IInv', CallsFitRuns, CallHandler PROVE CallsFitRuns'
<1>0. Top.run \in Runs /\ Top.cursor + 1 \in 1 .. MaxSteps /\ stack # <<>> /\ ~Top.inside
  BY TopFits DEF CallHandler
<1> PICK r \in Runs, i \in 1 .. MaxSteps : r = Top.run /\ i = Top.cursor + 1
  BY <1>0
<1>1. CallsFit /\ CallsFit' /\ calls[<<r, i>>] = 0
  <2>1. CallsFit /\ CallsFit'
    BY StackIs, PTL
  <2>2. calls[<<r, i>>] \in Nat
    BY DEF IInv, LegacyTypeOK
  <2>. QED BY <1>0, <2>1, <2>2, TopFits
<1>2. AboutToCall(r, i)
  BY <1>0, <1>1 DEF CallsFit
<1>3. /\ UNCHANGED <<run, approvals>> /\ calls'[<<r, i>>] = 1
      /\ \A q \in Runs : \A j \in 1 .. MaxSteps :
           <<q, j>> # <<r, i>> => calls'[<<q, j>>] = calls[<<q, j>>]
  BY <1>0, <1>1 DEF CallHandler, IInv, LegacyTypeOK
<1>4. Top'.inside
  <2> DEFINE f == [Top EXCEPT !.inside = TRUE]
  <2>1. /\ Len(stack) \in 1 .. Len(stack) /\ stack \in Seq(Frame) /\ Top \in Frame
        /\ Top = stack[Len(stack)]
    BY <1>0, TopIs DEF IInv, LegacyTypeOK
  <2>2. f \in Frame /\ f.inside
    BY <2>1 DEF Frame
  <2>3. stack' = [stack EXCEPT ![Len(stack)] = f]
    BY <2>1 DEF CallHandler
  <2> HIDE DEF f
  <2>4. Len(stack') = Len(stack) /\ stack'[Len(stack)] = f
    BY <2>1, <2>2, <2>3, ExceptSeq
  <2>. QED BY <2>2, <2>4 DEF Top
<1>5. \A q \in Runs : \A j \in 1 .. MaxSteps : ~AboutToCall(q, j)'
  BY <1>1, <1>4 DEF CallsFit
<1>6. CallFits(r, i)'
  <2>1. CallFits(r, i) /\ Approved(r)' = Approved(r)
    BY <1>3 DEF CallsFitRuns, Approved
  <2>. QED BY <1>2, <1>3, <2>1 DEF CallFits
<1>7. ASSUME NEW q \in Runs, NEW j \in 1 .. MaxSteps, <<q, j>> # <<r, i>> PROVE CallFits(q, j)'
  BY <1>3, <1>5, <1>7, KeptFits DEF CallsFitRuns
<1>. QED BY <1>6, <1>7 DEF CallsFitRuns

(* What returns has been called.                                            *)
LEMMA HandlerReturnsCalls ==
  ASSUME IInv, IInv', CallsFitRuns, NEW output \in Values, HandlerReturns(output)
  PROVE  CallsFitRuns'
<1>0. Top.run \in Runs /\ stack # <<>> /\ Top.inside
  BY TopFits DEF HandlerReturns
<1> PICK r \in Runs : r = Top.run
  BY <1>0
<1>1. /\ run[r] \in Row /\ Top.cursor = run[r].cursor /\ run[r].cursor \in Nat
      /\ run[r].cursor + 1 \in 1 .. MaxSteps /\ calls[<<r, run[r].cursor + 1>>] > 0
  BY <1>0, TopFits DEF Row
<1>2. /\ run'[r].cursor = run[r].cursor + 1 /\ run'[r].plan = run[r].plan
      /\ \A q \in Runs : q # r => run'[q] = run[q]
      /\ UNCHANGED <<approvals, calls>> /\ stack' = Below
  BY <1>0, <1>1 DEF HandlerReturns, IInv, LegacyTypeOK, Row
<1>3. \A q \in Runs : \A i \in 1 .. MaxSteps : ~AboutToCall(q, i)'
  BY <1>0, <1>2, PopLeaves
<1>4. ASSUME NEW i \in 1 .. MaxSteps PROVE CallFits(r, i)'
  <2>1. CallFits(r, i) /\ Approved(r)' = Approved(r) /\ calls[<<r, i>>] \in Nat
    BY <1>2 DEF CallsFitRuns, Approved, IInv, LegacyTypeOK
  <2>2. i <= run[r].cursor + 1 => calls[<<r, i>>] = 1
    BY <1>1, <2>1 DEF CallFits
  <2>. QED BY <1>2, <1>3, <2>1, <2>2 DEF CallFits
<1>5. ASSUME NEW q \in Runs, q # r, NEW i \in 1 .. MaxSteps PROVE CallFits(q, i)'
  BY <1>2, <1>3, <1>5, KeptFits DEF CallsFitRuns
<1>. QED BY <1>4, <1>5 DEF CallsFitRuns

(* Every step keeps what was called as it must be.                          *)
LEMMA NextCalls ==
  ASSUME IInv, IInv', CallsFitRuns, [LegacyNext]_legacyVars PROVE CallsFitRuns'
<1>1. ASSUME UNCHANGED <<run, approvals, stack, calls>> PROVE CallsFitRuns'
  BY <1>1, SameStack, KeptFits DEF CallsFitRuns
<1>2. ASSUME NEW r \in Runs, AdvanceWait(r) PROVE CallsFitRuns'
  BY <1>2, SameStack, StatusCalls DEF AdvanceWait, Status
<1>3. ASSUME NEW r \in Runs, Cancel(r) PROVE CallsFitRuns'
  BY <1>3, SameStack, StatusCalls DEF Cancel, Status
<1>4. CASE HandlerFails
  <2>1. Top.run \in Runs /\ "failed" \in Status /\ stack # <<>>
    BY <1>4, TopFits DEF HandlerFails, Status
  <2>2. \A q \in Runs : \A i \in 1 .. MaxSteps : ~AboutToCall(q, i)'
    BY <1>4, <2>1, PopLeaves DEF HandlerFails
  <2>. QED BY <1>4, <2>1, <2>2, StatusCalls DEF HandlerFails
<1>5. ASSUME UNCHANGED <<run, approvals, calls>>,
             \A q \in Runs : \A i \in 1 .. MaxSteps : ~AboutToCall(q, i)'
      PROVE  CallsFitRuns'
  BY <1>5, KeptFits DEF CallsFitRuns
<1>6. CASE Abandon
  BY <1>5, <1>6, PopLeaves DEF Abandon
<1>7. CASE ProcessRestart
  <2>1. CallsFit' /\ stack' = <<>>
    BY <1>7, StackIs, PTL DEF ProcessRestart
  <2>. QED BY <1>5, <1>7, <2>1 DEF ProcessRestart, CallsFit
<1>8. ASSUME NEW c \in Capabilities, Register(c) PROVE CallsFitRuns'
  BY <1>1, <1>8 DEF Register
<1>9. CASE UNCHANGED legacyVars
  BY <1>1, <1>9 DEF legacyVars
<1>. QED
  BY <1>2, <1>3, <1>4, <1>6, <1>7, <1>8, <1>9, SubmitCalls, AdvanceStartCalls, ReviewCalls,
     CallHandlerCalls, HandlerReturnsCalls
  DEF LegacyNext

(* However calls nest and wherever the process ends, every recorded output  *)
(* is that of the one call of its handler, and nothing is called ahead of   *)
(* the cursor, again, or without the approval that its plan asks for.       *)
THEOREM CalledOnce == LegacySpec => []HandlersCalledOnce
<1>1. LegacyInit => CallsFitRuns
  BY LegacyAssumption DEF LegacyInit, CallsFitRuns, CallFits, NoRow, AboutToCall, Frames
<1>2. IInv /\ CallsFitRuns => HandlersCalledOnce
  <2> SUFFICES ASSUME IInv, CallsFitRuns, NEW r \in Runs, NEW i \in 1 .. MaxSteps
               PROVE  /\ calls[<<r, i>>] <= 1
                      /\ i <= run[r].cursor => calls[<<r, i>>] = 1
                      /\ calls[<<r, i>>] > 0 =>
                           /\ \/ i <= run[r].cursor
                              \/ i = At(r) /\ run[r].status \in {"running", "failed"}
                           /\ run[r].plan[i].approval => i \in Approved(r)
    BY DEF HandlersCalledOnce
  <2>1. CallFits(r, i) /\ HistoryFits(r, i)
    BY DEF IInv, CallsFitRuns
  <2>. QED BY <2>1 DEF CallFits, HistoryFits, At
<1>3. IInv /\ IInv' /\ CallsFitRuns /\ [LegacyNext]_legacyVars => CallsFitRuns'
  BY NextCalls
<1>. QED BY Invariance, <1>1, <1>2, <1>3, PTL DEF LegacySpec

-----------------------------------------------------------------------------
(* What has ended stays as it is; plans, outputs and decisions are never    *)
(* rewritten, although an outcome is written over the row as it was read    *)
(* before the handler, which may have used the runtime since.               *)
KeepsPast(r) ==
  /\ run[r].status \in {"completed", "failed", "rejected", "cancelled"} => run'[r] = run[r]
  /\ run[r].status # "none" => run'[r].plan = run[r].plan
  /\ \A i \in 1 .. run[r].cursor : run'[r].outputs[i] = run[r].outputs[i]
  /\ \A i \in 1 .. MaxSteps :
       approvals[<<r, i>>].decision # "none" => approvals'[<<r, i>>] = approvals[<<r, i>>]

PastIsKept == [][\A r \in Runs : KeepsPast(r)]_legacyVars

(* A status is written over one that was not an end.                        *)
LEMMA StatusPast ==
  ASSUME IInv, NEW r \in Runs, NEW status \in Status,
         run' = [run EXCEPT ![r] = [run[r] EXCEPT !.status = status]],
         run[r].status \in {"queued", "waiting_approval", "running"},
         \A q \in Runs : \A i \in 1 .. MaxSteps :
           approvals'[<<q, i>>] = approvals[<<q, i>>] \/ approvals[<<q, i>>].decision = "none"
  PROVE  \A q \in Runs : KeepsPast(q)
<1>1. /\ run'[r].plan = run[r].plan /\ run'[r].outputs = run[r].outputs
      /\ \A q \in Runs : q # r => run'[q] = run[q]
  BY StatusLeaves
<1>. QED BY <1>1 DEF KeepsPast

(* An output is appended to those that the run has.                         *)
LEMMA HandlerReturnsPast ==
  ASSUME IInv, NEW output \in Values, HandlerReturns(output)
  PROVE  \A q \in Runs : KeepsPast(q)
<1>0. Top.run \in Runs /\ stack # <<>>
  BY TopFits DEF HandlerReturns
<1> PICK r \in Runs : r = Top.run
  BY <1>0
<1>1. /\ run[r] \in Row /\ run[r].status = "running"
      /\ Top.outputs = run[r].outputs /\ run[r].outputs \in Seq(Values)
      /\ Len(run[r].outputs) = run[r].cursor
  BY <1>0, TopFits DEF Row, IInv, RowFits
<1>2. /\ run'[r].plan = run[r].plan /\ run'[r].outputs = Append(run[r].outputs, output)
      /\ \A q \in Runs : q # r => run'[q] = run[q]
      /\ UNCHANGED approvals
  BY <1>0, <1>1 DEF HandlerReturns, IInv, LegacyTypeOK, Row
<1>3. \A i \in 1 .. run[r].cursor : run'[r].outputs[i] = run[r].outputs[i]
  BY <1>1, <1>2, AppendProperties
<1>. QED BY <1>1, <1>2, <1>3 DEF KeepsPast

(* submit() writes a row where there was none.                              *)
LEMMA SubmitPast ==
  ASSUME IInv, NEW r \in Runs, Submit(r) PROVE \A q \in Runs : KeepsPast(q)
<1>1. UNCHANGED approvals /\ \A q \in Runs : q # r => run'[q] = run[q]
  BY DEF Submit, IInv, LegacyTypeOK
<1>2. run[r].status = "none" /\ run[r].cursor = 0
  BY DEF Submit, IInv, RowFits, NoRow
<1>. QED BY <1>1, <1>2 DEF KeepsPast

(* Reviews, nested calls and restarts leave alone what has ended and what   *)
(* is recorded.                                                             *)
THEOREM PastKept == LegacySpec => PastIsKept
<1>1. ASSUME IInv, [LegacyNext]_legacyVars PROVE \A q \in Runs : KeepsPast(q)
  <2>1. ASSUME UNCHANGED <<run, approvals>> PROVE \A q \in Runs : KeepsPast(q)
    BY <2>1 DEF KeepsPast
  <2>2. ASSUME NEW r \in Runs, AdvanceWait(r) \/ AdvanceStart(r) \/ Cancel(r)
        PROVE  \A q \in Runs : KeepsPast(q)
    BY <1>1, <2>2, StatusPast DEF AdvanceWait, AdvanceStart, Cancel, Proceeds, Status
  <2>3. CASE HandlerFails
    BY <1>1, <2>3, TopFits, StatusPast DEF HandlerFails, Status
  <2>4. ASSUME NEW p \in People, NEW r \in Runs, NEW allow \in BOOLEAN, Review(p, r, allow)
        PROVE  \A q \in Runs : KeepsPast(q)
    <3>1. \A q \in Runs : \A i \in 1 .. MaxSteps :
            approvals'[<<q, i>>] = approvals[<<q, i>>] \/ approvals[<<q, i>>].decision = "none"
      BY <1>1, <2>4 DEF Review, IInv, LegacyTypeOK
    <3>. QED BY <1>1, <2>4, <3>1, StatusPast DEF Review, Decided, Status
  <2>. QED
    BY <1>1, <2>1, <2>2, <2>3, <2>4, SubmitPast, HandlerReturnsPast
    DEF LegacyNext, legacyVars, Register, CallHandler, Abandon, ProcessRestart
<1>2. IInv /\ [LegacyNext]_legacyVars => [\A r \in Runs : KeepsPast(r)]_legacyVars
  BY <1>1
<1>. QED BY Invariance, <1>2, PTL DEF LegacySpec, PastIsKept

=============================================================================
