----------------------------- MODULE MCJournals -----------------------------
(* The three records by which repeated work is recognised, for TLC: the      *)
(* receipts of the outbox, the receipts of an adapter and the rows of the    *)
(* single-process runtime.  They share no state, so their steps commute, and *)
(* a behaviour that moves one of them, chosen at the start, shows all that   *)
(* they do.                                                                  *)
EXTENDS Outbox, AdapterReceipts, LegacyCore

CONSTANTS read, copy, other, k1, content1, content2, alice, bob

(* A read, a second dispatch of the same step by a worker that took it over, *)
(* and a stranger's effect under the same key.                               *)
OneKey == [c \in {read, copy, other} |-> k1]
TwoContents == [c \in {read, copy, other} |-> IF c = other THEN content2 ELSE content1]

(* Two runs of two people.  Each deployment brings "read" in one of two      *)
(* versions, and "write" with or without approval.                           *)
MCPeople == {alice, bob}
MCOffers ==
  [c \in {"read", "write"} |->
    IF c = "read" THEN [version: {1, 2}, approval: {FALSE}]
    ELSE [version: {1}, approval: BOOLEAN]]
MCSubmission ==
  [r \in {1, 2} |-> IF r = 1 THEN [owner |-> alice, steps |-> <<"read", "write">>]
                    ELSE [owner |-> bob, steps |-> <<"write">>]]
-----------------------------------------------------------------------------
VARIABLE acting   \* the component that moves

JournalsInit ==
  /\ acting \in {"outbox", "adapter", "legacy"}
  /\ OutboxInit /\ ReceiptsInit /\ LegacyInit

Delivering(A) == acting = "outbox" /\ A /\ UNCHANGED <<acting, receiptVars, legacyVars>>
Adapting == acting = "adapter" /\ ReceiptsNext /\ UNCHANGED <<acting, outboxVars, legacyVars>>
Running == acting = "legacy" /\ LegacyNext /\ UNCHANGED <<acting, outboxVars, receiptVars>>

JournalsNext == Delivering(OutboxNext) \/ Adapting \/ Running

journalsVars == <<acting, outboxVars, receiptVars, legacyVars>>

(* The fairness of FairOutboxSpec, while the outbox moves.                   *)
JournalsSpec ==
  /\ JournalsInit /\ [][JournalsNext]_journalsVars
  /\ \A w \in Workers : WF_journalsVars(Delivering(WorkerStep(w)))
  /\ \A i \in 1..(NEvents * (Cardinality(Workers) + MaxFaults) + MaxForeign) :
       WF_journalsVars(Delivering(BecomeIdle(i)))
=============================================================================
