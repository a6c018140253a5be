------------------------------- MODULE Outbox -------------------------------
(* platform/events.py and the worker loop of platform/cli.py: events go from *)
(* the outbox table to a Redis stream, and from the stream to receipts.      *)
(* Each worker process runs publish() and then consume(), over and over,     *)
(* against one database and one consumer group; nothing is locked between    *)
(* two of its calls, so every call is an action of its own.  An exception    *)
(* of either store and a crash of the process both end the round.            *)
(*                                                                           *)
(* The stream is Redis's: it keeps what is added, a group delivers an entry  *)
(* once, and an entry that is not acknowledged within 30 seconds may be      *)
(* claimed again.  All workers consume under one consumer name, so whose     *)
(* entry it was plays no part.                                               *)
EXTENDS Naturals, Sequences, FiniteSets

CONSTANTS
  NEvents,        \* bound on the events emitted; numbered in the order of created
  Workers,        \* worker processes
  Batch,          \* the limit of one round (100 in the code)
  MaxForeign,     \* bound on the entries of somebody else that are no envelopes
  MaxFaults       \* bound on interrupted rounds

ASSUME OutboxAssumption ==
  /\ NEvents \in Nat /\ MaxForeign \in Nat /\ MaxFaults \in Nat
  /\ Batch \in Nat \ {0} /\ IsFiniteSet(Workers)

VARIABLES
  emitted,      \* events in the outbox table
  published,    \* those whose row says so
  stream,       \* the entries of the stream, in order
  delivered,    \* how many of them the group has handed out
  pending,      \* entries handed out and not acknowledged
  idle,         \* pending entries that have been so for 30 seconds
  receipts,     \* events with a BusReceipt
  deadletters,  \* entries copied to the dead-letter stream
  step,         \* where each worker is in its round
  todo,         \* outbox rows it still has to publish
  batch,        \* stream entries it still has to consume
  faults        \* interrupted rounds so far

outboxVars == <<emitted, published, stream, delivered, pending, idle, receipts,
          deadletters, step, todo, batch, faults>>

tables == <<emitted, published, receipts>>
broker == <<stream, delivered, pending, idle, deadletters>>

Events == 1..NEvents
EventEntry(e) == [kind |-> "event", id |-> e]
Malformed == [kind |-> "malformed", id |-> 0]
Entry == {EventEntry(e) : e \in Events} \union {Malformed}
Positions == 1..Len(stream)
Steps == {"idle", "publish", "add", "mark", "read", "consume",
          "dead", "insert", "ack"}

OutboxTypeOK ==
  /\ emitted \subseteq Events /\ published \subseteq emitted /\ receipts \subseteq Events
  /\ stream \in Seq(Entry)
  /\ delivered \in 0..Len(stream)
  /\ pending \subseteq 1..delivered /\ idle \subseteq pending
  /\ deadletters \subseteq 1..delivered
  /\ step \in [Workers -> Steps]
  /\ todo \in [Workers -> SUBSET emitted]
  /\ batch \in [Workers -> SUBSET (1..delivered)]
  /\ faults \in 0..MaxFaults

OutboxInit ==
  /\ emitted = {} /\ published = {} /\ receipts = {}
  /\ stream = <<>> /\ delivered = 0 /\ pending = {} /\ idle = {} /\ deadletters = {}
  /\ step = [w \in Workers |-> "idle"]
  /\ todo = [w \in Workers |-> {}]
  /\ batch = [w \in Workers |-> {}]
  /\ faults = 0

Goto(w, from, to) == step[w] = from /\ step' = [step EXCEPT ![w] = to]
IsFirst(x, S) == x \in S /\ \A y \in S : x <= y
FirstFew(S) == {x \in S : Cardinality({y \in S : y < x}) < Batch}

(* emit() inside the transaction of the transition it reports.              *)
Emit ==
  \E e \in Events \ emitted :
    /\ \A d \in Events \ emitted : e <= d
    /\ emitted' = emitted \union {e}
    /\ UNCHANGED <<published, receipts, broker, step, todo, batch, faults>>

(* Another program writes to the stream.                                    *)
AddForeign ==
  /\ Cardinality({i \in Positions : stream[i] = Malformed}) < MaxForeign
  /\ stream' = Append(stream, Malformed)
  /\ UNCHANGED <<tables, delivered, pending, idle, deadletters, step, todo, batch, faults>>

(* publish(): the ids of the oldest unpublished rows.                       *)
SelectRows(w) ==
  /\ Goto(w, "idle", "publish")
  /\ todo' = [todo EXCEPT ![w] = FirstFew(emitted \ published)]
  /\ UNCHANGED <<tables, broker, batch, faults>>

ReadRowMarksFirst(w) ==
  \E e \in todo[w] :
    /\ IsFirst(e, todo[w])
    /\ e \notin published
    /\ Goto(w, "publish", "add")
    /\ published' = published \union {e}
    /\ UNCHANGED <<emitted, receipts, broker, todo, batch, faults>>

(* The next row is read again in a transaction of its own.                  *)
ReadRow(w) ==
  \E e \in todo[w] :
    /\ IsFirst(e, todo[w])
    /\ \/ /\ e \notin published
          /\ Goto(w, "publish", "add")
          /\ UNCHANGED todo
       \/ /\ e \in published
          /\ step[w] = "publish"
          /\ todo' = [todo EXCEPT ![w] = @ \ {e}]
          /\ UNCHANGED step
    /\ UNCHANGED <<tables, broker, batch, faults>>

(* xadd: the broker has the event, the database does not know yet.          *)
AddToStream(w) ==
  \E e \in todo[w] :
    /\ IsFirst(e, todo[w])
    /\ Goto(w, "add", "mark")
    /\ stream' = Append(stream, EventEntry(e))
    /\ UNCHANGED <<tables, delivered, pending, idle, deadletters, todo, batch, faults>>

(* The transaction commits with published set.                              *)
MarkPublished(w) ==
  \E e \in todo[w] :
    /\ IsFirst(e, todo[w])
    /\ Goto(w, "mark", "publish")
    /\ published' = published \union {e}
    /\ todo' = [todo EXCEPT ![w] = @ \ {e}]
    /\ UNCHANGED <<emitted, receipts, broker, batch, faults>>

AutoClaimMissing(w) ==
  /\ todo[w] = {}
  /\ Goto(w, "publish", "read")
  /\ UNCHANGED <<tables, broker, todo, batch, faults>>

(* consume(): xautoclaim takes over entries nobody acknowledged in time.    *)
AutoClaim(w) ==
  /\ todo[w] = {}
  /\ Goto(w, "publish", "read")
  /\ batch' = [batch EXCEPT ![w] = FirstFew(idle)]
  /\ idle' = idle \ FirstFew(idle)
  /\ UNCHANGED <<tables, stream, delivered, pending, deadletters, todo, faults>>

ReadGroupPastEnd(w) ==
  LET upto == delivered + Batch IN
  /\ Goto(w, "read", "consume")
  /\ batch' = [batch EXCEPT ![w] = @ \union (delivered + 1)..upto]
  /\ pending' = pending \union (delivered + 1)..upto
  /\ delivered' = upto
  /\ UNCHANGED <<tables, stream, idle, deadletters, todo, faults>>

ReadGroupNoAck(w) ==
  LET upto == IF delivered + Batch < Len(stream) THEN delivered + Batch ELSE Len(stream) IN
  /\ Goto(w, "read", "consume")
  /\ batch' = [batch EXCEPT ![w] = @ \union (delivered + 1)..upto]
  /\ delivered' = upto
  /\ UNCHANGED <<tables, stream, pending, idle, deadletters, todo, faults>>

(* xreadgroup appends new entries to the claimed ones.                      *)
ReadGroup(w) ==
  LET upto == IF delivered + Batch < Len(stream) THEN delivered + Batch ELSE Len(stream) IN
  /\ Goto(w, "read", "consume")
  /\ batch' = [batch EXCEPT ![w] = @ \union (delivered + 1)..upto]
  /\ pending' = pending \union (delivered + 1)..upto
  /\ delivered' = upto
  /\ UNCHANGED <<tables, stream, idle, deadletters, todo, faults>>

(* The next entry: not an envelope, already receipted, or new.              *)
ReadEntry(w) ==
  \E i \in batch[w] :
    /\ IsFirst(i, batch[w])
    /\ \/ stream[i].kind = "malformed" /\ Goto(w, "consume", "dead")
       \/ /\ stream[i].kind = "event"
          /\ stream[i].id \in receipts
          /\ Goto(w, "consume", "ack")
       \/ /\ stream[i].kind = "event"
          /\ stream[i].id \notin receipts
          /\ Goto(w, "consume", "insert")
    /\ UNCHANGED <<tables, broker, todo, batch, faults>>

AddDeadLetter(w) ==
  \E i \in batch[w] :
    /\ IsFirst(i, batch[w])
    /\ Goto(w, "dead", "ack")
    /\ deadletters' = deadletters \union {i}
    /\ UNCHANGED <<tables, stream, delivered, pending, idle, todo, batch, faults>>

(* The receipt commits, or its key is taken by now and the insert raises,   *)
(* which ends the round with the rest of the batch pending.                 *)
InsertReceipt(w) ==
  \E i \in batch[w] :
    /\ IsFirst(i, batch[w])
    /\ \/ /\ stream[i].id \notin receipts
          /\ Goto(w, "insert", "ack")
          /\ receipts' = receipts \union {stream[i].id}
          /\ UNCHANGED batch
       \/ /\ stream[i].id \in receipts
          /\ Goto(w, "insert", "idle")
          /\ batch' = [batch EXCEPT ![w] = {}]
          /\ UNCHANGED receipts
    /\ UNCHANGED <<emitted, published, broker, todo, faults>>

Acknowledge(w) ==
  \E i \in batch[w] :
    /\ IsFirst(i, batch[w])
    /\ Goto(w, "ack", "consume")
    /\ pending' = pending \ {i}
    /\ idle' = idle \ {i}
    /\ batch' = [batch EXCEPT ![w] = @ \ {i}]
    /\ UNCHANGED <<tables, stream, delivered, deadletters, todo, faults>>

EndRound(w) ==
  /\ batch[w] = {}
  /\ Goto(w, "consume", "idle")
  /\ UNCHANGED <<tables, broker, todo, batch, faults>>

(* A store raises, or the process dies: the round is lost at any point, and *)
(* the loop (or a new process) starts another.                              *)
Interrupt(w) ==
  /\ step[w] # "idle"
  /\ faults < MaxFaults
  /\ faults' = faults + 1
  /\ step' = [step EXCEPT ![w] = "idle"]
  /\ todo' = [todo EXCEPT ![w] = {}]
  /\ batch' = [batch EXCEPT ![w] = {}]
  /\ UNCHANGED <<tables, broker>>

(* Thirty seconds pass for a pending entry, whoever may still hold it.      *)
BecomeIdle(i) ==
  /\ i \in pending \ idle
  /\ idle' = idle \union {i}
  /\ UNCHANGED <<tables, stream, delivered, pending, deadletters, step, todo, batch, faults>>

WorkerStep(w) ==
  \/ SelectRows(w) \/ ReadRow(w) \/ AddToStream(w) \/ MarkPublished(w)
  \/ AutoClaim(w) \/ ReadGroup(w) \/ ReadEntry(w)
  \/ AddDeadLetter(w) \/ InsertReceipt(w) \/ Acknowledge(w) \/ EndRound(w)

OutboxNext ==
  \/ Emit \/ AddForeign
  \/ \E w \in Workers : WorkerStep(w) \/ Interrupt(w)
  \/ \E i \in Positions : BecomeIdle(i)

OutboxSpec == OutboxInit /\ [][OutboxNext]_outboxVars

(* A worker goes on with its round unless interrupted, and time passes.     *)
(* Nobody need emit anything.                                               *)
FairOutboxSpec ==
  /\ OutboxSpec
  /\ \A w \in Workers : WF_outboxVars(WorkerStep(w))
  /\ \A i \in 1..(NEvents * (Cardinality(Workers) + MaxFaults) + MaxForeign) :
       WF_outboxVars(BecomeIdle(i))
-----------------------------------------------------------------------------
Copies(e) == {i \in Positions : stream[i] = EventEntry(e)}

(* An event is never lost: until it has a receipt it is an unpublished row, *)
(* or one of its copies is undelivered or pending in the stream.            *)
KeptUntilReceipted ==
  \A e \in emitted \ receipts :
    e \notin published \/ \E i \in Copies(e) : i > delivered \/ i \in pending

(* What the group has acknowledged has its receipt or is a dead letter:     *)
(* acknowledgements follow the commit.                                      *)
AcknowledgedIsRecorded ==
  \A i \in (1..delivered) \ pending :
    \/ stream[i].kind = "event" /\ stream[i].id \in receipts
    \/ i \in deadletters

(* The outbox delivers: EventDelivery, its fairness included.               *)
Delivery == INSTANCE EventDelivery
DeliverySafety == Delivery!DeliverySpec
DeliveryLiveness == Delivery!FairDeliverySpec
=============================================================================
