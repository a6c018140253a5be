--------------------------- MODULE MissionPromise ---------------------------
(* What a runtime promises about every mission it was given, however it     *)
(* keeps it: steps are asked for in order and with permission, a step that  *)
(* may not be repeated at most once; outputs are recorded in order; what is *)
(* uncertain is held; and what has ended has ended.                         *)
EXTENDS Naturals, Sequences

CONSTANTS
  Missions,
  Agents,     \* who may ask for a step: workers, or the one process
  MaxSteps    \* steps of the longest plan

(* A mission's ledger: its plan, how far it is, the steps that somebody     *)
(* else than its owner approved, who is permitted to ask for a step and has *)
(* not done so yet, and how often each step was asked for.                  *)
VARIABLE ledger

Ends == {"failed", "cancelled", "rejected", "blocked", "expired"}
Empty == [stage |-> "absent", plan |-> <<>>, done |-> 0, approved |-> {},
          permitted |-> [i \in 1 .. MaxSteps |-> {}], asked |-> [i \in 1 .. MaxSteps |-> 0]]

PromiseInit == ledger = [m \in Missions |-> Empty]

-----------------------------------------------------------------------------
(* How an entry e may become an entry f.                                    *)

At(e)        == e.done + 1
StepAt(e)    == e.plan[At(e)]
Open(e)      == e.stage = "open" /\ At(e) <= Len(e.plan)
Unsettled(e) == e.stage \in {"open", "held"} /\ At(e) <= Len(e.plan)

Opens(e, f) ==
  /\ e.stage = "absent"
  /\ f = [e EXCEPT !.stage = "open", !.plan = f.plan]

Approves(e, f) ==
  /\ Open(e) /\ At(e) \notin e.approved
  /\ f = [e EXCEPT !.approved = @ \cup {At(e)}]

Permits(e, f, a) ==
  /\ Open(e)
  /\ StepAt(e).approval => At(e) \in e.approved
  /\ StepAt(e).repeatable \/ (e.asked[At(e)] = 0 /\ e.permitted[At(e)] = {})
  /\ f = [e EXCEPT !.permitted[At(e)] = @ \cup {a}]

(* Permission is used once, or lost.  It may be used late, when the mission *)
(* has already been closed.                                                 *)
Asks(e, f, i, a) ==
  /\ a \in e.permitted[i]
  /\ f = [e EXCEPT !.permitted[i] = @ \ {a}, !.asked[i] = @ + 1]

Drops(e, f, i, a) ==
  /\ a \in e.permitted[i]
  /\ f = [e EXCEPT !.permitted[i] = @ \ {a}]

(* An output is that of a step that was asked for, or was skipped, or that  *)
(* a person vouches for.                                                    *)
Records(e, f) ==
  /\ Unsettled(e)
  /\ e.asked[At(e)] > 0 \/ StepAt(e).optional \/ e.stage = "held"
  /\ f.stage \in {"cancelled", IF At(e) = Len(e.plan) THEN "completed" ELSE "open"}
  /\ f = [e EXCEPT !.done = @ + 1, !.stage = f.stage]

(* Only what may not be repeated is held.  Who is told that a step is over  *)
(* loses permission for it.                                                 *)
Settles(e, f) ==
  /\ f.permitted[At(e)] \subseteq e.permitted[At(e)]
  /\ f = [e EXCEPT !.stage = f.stage, !.permitted[At(e)] = f.permitted[At(e)]]

Holds(e, f) == Open(e) /\ ~StepAt(e).repeatable /\ f.stage = "held" /\ Settles(e, f)

Closes(e, f) == Unsettled(e) /\ f.stage \in Ends /\ Settles(e, f)

Moves(e, f) ==
  \/ Opens(e, f) \/ Approves(e, f) \/ Records(e, f) \/ Holds(e, f) \/ Closes(e, f)
  \/ \E a \in Agents : Permits(e, f, a)
  \/ \E i \in 1 .. MaxSteps, a \in Agents : Asks(e, f, i, a) \/ Drops(e, f, i, a)

(* One transaction or one crash may move several missions.                  *)
PromiseNext ==
  \E old \in {ledger}, new \in {ledger'} :
    \A m \in Missions : old[m] = new[m] \/ Moves(old[m], new[m])

PromiseSpec == PromiseInit /\ [][PromiseNext]_ledger
=============================================================================
