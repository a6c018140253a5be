---------------------------- MODULE OutboxProofs ----------------------------
(* What holds of the outbox for every number of events, workers and faults: *)
(* no event is lost on its way to its receipt, acknowledgements follow what *)
(* they acknowledge, an event has boundedly many copies, and the outbox     *)
(* implements EventDelivery.                                                *)
EXTENDS Outbox, FiniteSetTheorems, TLAPS

Recorded(i) ==
  \/ stream[i].kind = "event" /\ stream[i].id \in receipts
  \/ i \in deadletters

(* What a worker relies on between two of its calls, about the row or the   *)
(* entry it is at.                                                          *)
Position(w) ==
  /\ step[w] = "mark" =>
       \A e \in todo[w] : IsFirst(e, todo[w]) => \E i \in Positions : stream[i] = EventEntry(e)
  /\ \A i \in batch[w] : IsFirst(i, batch[w]) =>
       /\ step[w] = "dead" => stream[i].kind = "malformed"
       /\ step[w] = "insert" => stream[i].kind = "event"
       /\ step[w] = "ack" => Recorded(i)

StreamFromOutbox ==
  \A i \in Positions : stream[i].kind = "event" =>
    stream[i].id \in emitted /\ stream[i] = EventEntry(stream[i].id)

OnlyForeignIsDead == \A i \in deadletters : stream[i].kind # "event"

(* The inductive invariant: the properties, what the stream and the dead      *)
(* letters consist of, and what each worker relies on at its position.       *)
IInv ==
  /\ OutboxTypeOK
  /\ KeptUntilReceipted
  /\ AcknowledgedIsRecorded
  /\ StreamFromOutbox
  /\ OnlyForeignIsDead
  /\ \A w \in Workers : Position(w)

(* Nothing is emitted, delivered or held at first.                           *)
LEMMA InitHolds == OutboxInit => IInv
  BY OutboxAssumption DEF OutboxInit, IInv, OutboxTypeOK, KeptUntilReceipted, AcknowledgedIsRecorded,
    StreamFromOutbox, OnlyForeignIsDead, Position, Positions, Copies, Events, Steps, Entry

(* Selecting the rows to publish touches no store.                           *)
LEMMA SelectRowsStep == ASSUME IInv, NEW w \in Workers, SelectRows(w) PROVE IInv'
  <1> USE OutboxAssumption DEF IInv, SelectRows, Goto, tables, broker
  <1>1. OutboxTypeOK'
    BY SMTT(20) DEF OutboxTypeOK, Events, Entry, EventEntry, Positions, Steps, FirstFew, IsFirst
  <1>2. KeptUntilReceipted'
    BY SMTT(20) DEF KeptUntilReceipted, OutboxTypeOK, Copies, Positions, EventEntry, AcknowledgedIsRecorded, OnlyForeignIsDead, Position, IsFirst
  <1>3. AcknowledgedIsRecorded'
    BY SMTT(20) DEF AcknowledgedIsRecorded, OutboxTypeOK, Position, Recorded, IsFirst, Positions
  <1>4. StreamFromOutbox' /\ OnlyForeignIsDead'
    BY SMTT(20) DEF StreamFromOutbox, OnlyForeignIsDead, OutboxTypeOK, Positions, Position, EventEntry, IsFirst
  <1>5. \A v \in Workers : Position(v)'
    BY SMTT(20) DEF Position, OutboxTypeOK, IsFirst, Recorded, Positions, EventEntry
  <1>6. QED
    BY <1>1, <1>2, <1>3, <1>4, <1>5

(* Passing over a row that somebody else published is a worker's own step.   *)
LEMMA ReadRowStep == ASSUME IInv, NEW w \in Workers, ReadRow(w) PROVE IInv'
  <1> USE OutboxAssumption DEF IInv, ReadRow, Goto, tables, broker
  <1>1. OutboxTypeOK'
    BY SMTT(20) DEF OutboxTypeOK, Events, Entry, EventEntry, Positions, Steps, FirstFew, IsFirst
  <1>2. KeptUntilReceipted'
    BY SMTT(20) DEF KeptUntilReceipted, OutboxTypeOK, Copies, Positions, EventEntry, AcknowledgedIsRecorded, OnlyForeignIsDead, Position, IsFirst
  <1>3. AcknowledgedIsRecorded'
    BY SMTT(20) DEF AcknowledgedIsRecorded, OutboxTypeOK, Position, Recorded, IsFirst, Positions
  <1>4. StreamFromOutbox' /\ OnlyForeignIsDead'
    BY DEF StreamFromOutbox, OnlyForeignIsDead, Positions
  <1>5. \A v \in Workers : Position(v)'
    BY SMTT(20) DEF Position, OutboxTypeOK, IsFirst, Recorded, Positions, EventEntry
  <1>6. QED
    BY <1>1, <1>2, <1>3, <1>4, <1>5

(* A new entry is undelivered: it keeps its event, and is what mark relies   *)
(* on.                                                                       *)
LEMMA AddToStreamStep == ASSUME IInv, NEW w \in Workers, AddToStream(w) PROVE IInv'
  <1> USE OutboxAssumption DEF IInv, AddToStream, Goto, tables, broker
  <1>0. PICK e \in todo[w] : /\ IsFirst(e, todo[w])
                             /\ step[w] = "add" /\ step' = [step EXCEPT ![w] = "mark"]
                             /\ stream' = Append(stream, EventEntry(e))
    OBVIOUS
  <1>a. e \in Events /\ EventEntry(e) \in Entry
    BY DEF OutboxTypeOK, Entry
  <1>b. /\ stream' \in Seq(Entry) /\ Len(stream') = Len(stream) + 1
        /\ stream'[Len(stream) + 1] = EventEntry(e)
        /\ \A i \in Positions : stream'[i] = stream[i]
        /\ Len(stream) \in Nat
    BY <1>0, <1>a DEF OutboxTypeOK, Positions
  <1>1. OutboxTypeOK'
    BY <1>0, <1>b DEF OutboxTypeOK, Steps
  <1>2. KeptUntilReceipted'
    BY SMTT(20) DEF KeptUntilReceipted, OutboxTypeOK, Copies, Positions, EventEntry, AcknowledgedIsRecorded, OnlyForeignIsDead, Position, IsFirst
  <1>3. AcknowledgedIsRecorded'
    BY SMTT(20) DEF AcknowledgedIsRecorded, OutboxTypeOK, Position, Recorded, IsFirst, Positions
  <1>4. StreamFromOutbox' /\ OnlyForeignIsDead'
    BY SMTT(20) DEF StreamFromOutbox, OnlyForeignIsDead, OutboxTypeOK, Positions, Position, EventEntry, IsFirst
  <1>5. ASSUME NEW v \in Workers PROVE Position(v)'
    <2>1. CASE v = w
      <3>1. step'[w] = "mark" /\ todo'[w] = todo[w] /\ batch'[w] = batch[w]
        BY <1>0 DEF OutboxTypeOK
      <3>2. \A d \in todo[w] : IsFirst(d, todo[w]) => d = e
        BY <1>0 DEF IsFirst, OutboxTypeOK, Events
      <3>3. Len(stream) + 1 \in Positions'
        BY <1>b DEF Positions
      <3>4. QED
        BY <2>1, <3>1, <3>2, <3>3, <1>b DEF Position, EventEntry
    <2>2. CASE v # w
      <3>1. /\ step'[v] = step[v] /\ todo'[v] = todo[v] /\ batch'[v] = batch[v]
            /\ receipts' = receipts /\ deadletters' = deadletters
        BY <2>2, <1>0 DEF OutboxTypeOK
      <3>2. Positions \subseteq Positions' /\ Position(v)
        BY <1>b DEF Positions
      <3>3. \A i \in batch[v] : i \in Positions
        BY <1>b DEF OutboxTypeOK, Positions
      <3> HIDE DEF IInv, AddToStream, Goto
      <3>4. QED
        BY <3>1, <3>2, <3>3, <1>b DEF Position, IsFirst, Recorded, EventEntry
    <2>3. QED
      BY <2>1, <2>2
  <1>6. QED
    BY <1>1, <1>2, <1>3, <1>4, <1>5

(* The row may say published: the entry that was added is still in the       *)
(* stream, and is undelivered or pending, or has its receipt.                *)
LEMMA MarkPublishedStep == ASSUME IInv, NEW w \in Workers, MarkPublished(w) PROVE IInv'
  <1> USE OutboxAssumption DEF IInv, MarkPublished, Goto, tables, broker
  <1>1. OutboxTypeOK'
    BY SMTT(20) DEF OutboxTypeOK, Events, Entry, EventEntry, Positions, Steps, FirstFew, IsFirst
  <1>2. KeptUntilReceipted'
    BY SMTT(20) DEF KeptUntilReceipted, OutboxTypeOK, Copies, Positions, EventEntry, AcknowledgedIsRecorded, OnlyForeignIsDead, Position, IsFirst
  <1>3. AcknowledgedIsRecorded'
    BY SMTT(20) DEF AcknowledgedIsRecorded, OutboxTypeOK, Position, Recorded, IsFirst, Positions
  <1>4. StreamFromOutbox' /\ OnlyForeignIsDead'
    BY SMTT(20) DEF StreamFromOutbox, OnlyForeignIsDead, OutboxTypeOK, Positions, Position, EventEntry, IsFirst
  <1>5. \A v \in Workers : Position(v)'
    BY SMTT(20) DEF Position, OutboxTypeOK, IsFirst, Recorded, Positions, EventEntry
  <1>6. QED
    BY <1>1, <1>2, <1>3, <1>4, <1>5

(* Claiming again hands out what is pending already.                         *)
LEMMA AutoClaimStep == ASSUME IInv, NEW w \in Workers, AutoClaim(w) PROVE IInv'
  <1> USE OutboxAssumption DEF IInv, AutoClaim, Goto, tables, broker
  <1>0. FirstFew(idle) \subseteq idle
    BY DEF FirstFew
  <1>a. FirstFew(idle) \in SUBSET (1..delivered) /\ idle \ FirstFew(idle) \subseteq pending
    BY <1>0 DEF OutboxTypeOK
  <1>b. batch' = [batch EXCEPT ![w] = FirstFew(idle)] /\ idle' = idle \ FirstFew(idle)
    OBVIOUS
  <1>1. OutboxTypeOK'
    BY <1>a, <1>b DEF OutboxTypeOK, Steps
  <1>2. KeptUntilReceipted'
    BY SMTT(20) DEF KeptUntilReceipted, OutboxTypeOK, Copies, Positions, EventEntry, AcknowledgedIsRecorded, OnlyForeignIsDead, Position, IsFirst
  <1>3. AcknowledgedIsRecorded'
    BY SMTT(20) DEF AcknowledgedIsRecorded, OutboxTypeOK, Position, Recorded, IsFirst, Positions
  <1>4. StreamFromOutbox' /\ OnlyForeignIsDead'
    BY SMTT(20) DEF StreamFromOutbox, OnlyForeignIsDead, OutboxTypeOK, Positions, Position, EventEntry, IsFirst
  <1>5. \A v \in Workers : Position(v)'
    BY SMTT(20) DEF Position, OutboxTypeOK, IsFirst, Recorded, Positions, EventEntry
  <1>6. QED
    BY <1>1, <1>2, <1>3, <1>4, <1>5

(* What the group hands out becomes pending: nothing leaves the stream.       *)
LEMMA ReadGroupStep == ASSUME IInv, NEW w \in Workers, ReadGroup(w) PROVE IInv'
  <1> USE OutboxAssumption DEF IInv, ReadGroup, Goto, tables, broker
  <1> DEFINE upto == IF delivered + Batch < Len(stream) THEN delivered + Batch ELSE Len(stream)
  <1>0. upto \in delivered..Len(stream) /\ delivered \in Nat /\ delivered' = upto
    BY DEF OutboxTypeOK
  <1>a. \A v \in Workers : batch[v] \subseteq 1..upto
    BY <1>0 DEF OutboxTypeOK
  <1>b. batch' \in [Workers -> SUBSET (1..upto)]
    <2> HIDE DEF upto
    <2>1. batch' = [batch EXCEPT ![w] = @ \union (delivered + 1)..upto]
      BY DEF upto
    <2>2. (delivered + 1)..upto \subseteq 1..upto
      BY <1>0
    <2>3. QED
      BY <2>1, <2>2, <1>a DEF OutboxTypeOK
  <1>c. pending \union (delivered + 1)..upto \subseteq 1..upto
    <2> HIDE DEF upto
    <2>1. pending \subseteq 1..delivered
      BY DEF OutboxTypeOK
    <2>2. QED
      BY <2>1, <1>0
  <1>d. deadletters \subseteq 1..upto /\ upto \in 0..Len(stream)
    BY <1>0 DEF OutboxTypeOK
  <1> HIDE DEF upto
  <1>e. pending' = pending \union (delivered + 1)..upto /\ step' = [step EXCEPT ![w] = "consume"]
    BY DEF upto
  <1>1. OutboxTypeOK'
    BY <1>0, <1>b, <1>c, <1>d, <1>e DEF OutboxTypeOK, Steps
  <1> USE DEF upto
  <1>2. KeptUntilReceipted'
    BY SMTT(20) DEF KeptUntilReceipted, OutboxTypeOK, Copies, Positions, EventEntry, AcknowledgedIsRecorded, OnlyForeignIsDead, Position, IsFirst
  <1>3. AcknowledgedIsRecorded'
    BY SMTT(20) DEF AcknowledgedIsRecorded, OutboxTypeOK, Position, Recorded, IsFirst, Positions
  <1>4. StreamFromOutbox' /\ OnlyForeignIsDead'
    BY SMTT(20) DEF StreamFromOutbox, OnlyForeignIsDead, OutboxTypeOK, Positions, Position, EventEntry, IsFirst
  <1>5. \A v \in Workers : Position(v)'
    BY SMTT(20) DEF Position, OutboxTypeOK, IsFirst, Recorded, Positions, EventEntry
  <1>6. QED
    BY <1>1, <1>2, <1>3, <1>4, <1>5

(* What an entry is decides where the worker goes with it.                   *)
LEMMA ReadEntryStep == ASSUME IInv, NEW w \in Workers, ReadEntry(w) PROVE IInv'
  <1> USE OutboxAssumption DEF IInv, ReadEntry, Goto, tables, broker
  <1>1. OutboxTypeOK'
    BY SMTT(20) DEF OutboxTypeOK, Events, Entry, EventEntry, Positions, Steps, FirstFew, IsFirst
  <1>2. KeptUntilReceipted'
    BY SMTT(20) DEF KeptUntilReceipted, OutboxTypeOK, Copies, Positions, EventEntry, AcknowledgedIsRecorded, OnlyForeignIsDead, Position, IsFirst
  <1>3. AcknowledgedIsRecorded'
    BY SMTT(20) DEF AcknowledgedIsRecorded, OutboxTypeOK, Position, Recorded, IsFirst, Positions
  <1>4. StreamFromOutbox' /\ OnlyForeignIsDead'
    BY DEF StreamFromOutbox, OnlyForeignIsDead, Positions
  <1>5. \A v \in Workers : Position(v)'
    <2>1. ASSUME NEW v \in Workers, v # w PROVE Position(v)'
      <3>1. /\ step'[v] = step[v] /\ todo'[v] = todo[v] /\ batch'[v] = batch[v]
            /\ stream' = stream /\ deadletters' = deadletters /\ receipts \subseteq receipts'
        BY <2>1, SMTT(20) DEF OutboxTypeOK
      <3>. QED BY <3>1, SMTT(20) DEF Position, Recorded, Positions, IsFirst
    <2>2. Position(w)'
      BY SMTT(20) DEF Position, OutboxTypeOK, IsFirst, Recorded, Positions, EventEntry
    <2>. QED BY <2>1, <2>2
  <1>6. QED
    BY <1>1, <1>2, <1>3, <1>4, <1>5

(* Only what is no envelope becomes a dead letter, before it is acknowledged. *)
LEMMA AddDeadLetterStep == ASSUME IInv, NEW w \in Workers, AddDeadLetter(w) PROVE IInv'
  <1> USE OutboxAssumption DEF IInv, AddDeadLetter, Goto, tables, broker
  <1>1. OutboxTypeOK'
    BY SMTT(20) DEF OutboxTypeOK, Events, Entry, EventEntry, Positions, Steps, FirstFew, IsFirst
  <1>2. KeptUntilReceipted'
    BY SMTT(20) DEF KeptUntilReceipted, OutboxTypeOK, Copies, Positions, EventEntry, AcknowledgedIsRecorded, OnlyForeignIsDead, Position, IsFirst
  <1>3. AcknowledgedIsRecorded'
    BY SMTT(20) DEF AcknowledgedIsRecorded, OutboxTypeOK, Position, Recorded, IsFirst, Positions
  <1>4. StreamFromOutbox' /\ OnlyForeignIsDead'
    BY SMTT(20) DEF StreamFromOutbox, OnlyForeignIsDead, OutboxTypeOK, Positions, Position, EventEntry, IsFirst
  <1>5. \A v \in Workers : Position(v)'
    BY SMTT(20) DEF Position, OutboxTypeOK, IsFirst, Recorded, Positions, EventEntry
  <1>6. QED
    BY <1>1, <1>2, <1>3, <1>4, <1>5

(* A receipt, this worker's or an earlier one, comes before the              *)
(* acknowledgement.                                                          *)
LEMMA InsertReceiptStep == ASSUME IInv, NEW w \in Workers, InsertReceipt(w) PROVE IInv'
  <1> USE OutboxAssumption DEF IInv, InsertReceipt, Goto, tables, broker
  <1>0. \A i \in batch[w] : IsFirst(i, batch[w]) /\ step[w] = "insert" => stream[i].id \in Events
    BY DEF OutboxTypeOK, Position, StreamFromOutbox, Positions
  <1>1. OutboxTypeOK'
    BY <1>0, SMTT(20) DEF OutboxTypeOK, Steps
  <1>2. KeptUntilReceipted'
    BY SMTT(20) DEF KeptUntilReceipted, OutboxTypeOK, Copies, Positions, EventEntry, AcknowledgedIsRecorded, OnlyForeignIsDead, Position, IsFirst
  <1>3. AcknowledgedIsRecorded'
    BY SMTT(20) DEF AcknowledgedIsRecorded, OutboxTypeOK, Position, Recorded, IsFirst, Positions
  <1>4. StreamFromOutbox' /\ OnlyForeignIsDead'
    BY DEF StreamFromOutbox, OnlyForeignIsDead, Positions
  <1>5. \A v \in Workers : Position(v)'
    <2>1. ASSUME NEW v \in Workers, v # w PROVE Position(v)'
      <3>1. /\ step'[v] = step[v] /\ todo'[v] = todo[v] /\ batch'[v] = batch[v]
            /\ stream' = stream /\ deadletters' = deadletters /\ receipts \subseteq receipts'
        BY <2>1, SMTT(20) DEF OutboxTypeOK
      <3>. QED BY <3>1, SMTT(20) DEF Position, Recorded, Positions, IsFirst
    <2>2. Position(w)'
      BY SMTT(20) DEF Position, OutboxTypeOK, IsFirst, Recorded, Positions, EventEntry
    <2>. QED BY <2>1, <2>2
  <1>6. QED
    BY <1>1, <1>2, <1>3, <1>4, <1>5

(* What stops being pending is recorded, so no event loses its last entry.   *)
LEMMA AcknowledgeStep == ASSUME IInv, NEW w \in Workers, Acknowledge(w) PROVE IInv'
  <1> USE OutboxAssumption DEF IInv, Acknowledge, Goto, tables, broker
  <1>1. OutboxTypeOK'
    BY SMTT(20) DEF OutboxTypeOK, Events, Entry, EventEntry, Positions, Steps, FirstFew, IsFirst
  <1>2. KeptUntilReceipted'
    <2> SUFFICES ASSUME NEW e \in emitted, e \notin receipts, e \in published
                 PROVE \E i \in Copies(e) : i > delivered \/ i \in pending'
      BY DEF KeptUntilReceipted, Copies, Positions
    <2>1. PICK i \in Copies(e) : i > delivered \/ i \in pending
      BY DEF KeptUntilReceipted
    <2>2. PICK j \in batch[w] : IsFirst(j, batch[w]) /\ step[w] = "ack" /\ pending' = pending \ {j}
      OBVIOUS
    <2>3. Recorded(j)
      BY <2>2 DEF Position
    <2>4. i # j
      BY <2>3 DEF Recorded, Copies, EventEntry, OnlyForeignIsDead
    <2>5. QED
      BY <2>1, <2>2, <2>4
  <1>3. AcknowledgedIsRecorded'
    BY SMTT(20) DEF AcknowledgedIsRecorded, OutboxTypeOK, Position, Recorded, IsFirst, Positions
  <1>4. StreamFromOutbox' /\ OnlyForeignIsDead'
    BY SMTT(20) DEF StreamFromOutbox, OnlyForeignIsDead, OutboxTypeOK, Positions, Position, EventEntry, IsFirst
  <1>5. \A v \in Workers : Position(v)'
    BY SMTT(20) DEF Position, OutboxTypeOK, IsFirst, Recorded, Positions, EventEntry
  <1>6. QED
    BY <1>1, <1>2, <1>3, <1>4, <1>5

(* The end of a round touches no store.                                      *)
LEMMA EndRoundStep == ASSUME IInv, NEW w \in Workers, EndRound(w) PROVE IInv'
  <1> USE OutboxAssumption DEF IInv, EndRound, Goto, tables, broker
  <1>1. OutboxTypeOK'
    BY SMTT(20) DEF OutboxTypeOK, Events, Entry, EventEntry, Positions, Steps, FirstFew, IsFirst
  <1>2. KeptUntilReceipted'
    BY SMTT(20) DEF KeptUntilReceipted, OutboxTypeOK, Copies, Positions, EventEntry, AcknowledgedIsRecorded, OnlyForeignIsDead, Position, IsFirst
  <1>3. AcknowledgedIsRecorded'
    BY SMTT(20) DEF AcknowledgedIsRecorded, OutboxTypeOK, Position, Recorded, IsFirst, Positions
  <1>4. StreamFromOutbox' /\ OnlyForeignIsDead'
    BY SMTT(20) DEF StreamFromOutbox, OnlyForeignIsDead, OutboxTypeOK, Positions, Position, EventEntry, IsFirst
  <1>5. \A v \in Workers : Position(v)'
    BY SMTT(20) DEF Position, OutboxTypeOK, IsFirst, Recorded, Positions, EventEntry
  <1>6. QED
    BY <1>1, <1>2, <1>3, <1>4, <1>5

(* A round that is lost leaves both stores as they are.                      *)
LEMMA InterruptStep == ASSUME IInv, NEW w \in Workers, Interrupt(w) PROVE IInv'
  <1> USE OutboxAssumption DEF IInv, Interrupt, Goto, tables, broker
  <1>1. OutboxTypeOK'
    BY SMTT(20) DEF OutboxTypeOK, Events, Entry, EventEntry, Positions, Steps, FirstFew, IsFirst
  <1>2. KeptUntilReceipted'
    BY SMTT(20) DEF KeptUntilReceipted, OutboxTypeOK, Copies, Positions, EventEntry, AcknowledgedIsRecorded, OnlyForeignIsDead, Position, IsFirst
  <1>3. AcknowledgedIsRecorded'
    BY SMTT(20) DEF AcknowledgedIsRecorded, OutboxTypeOK, Position, Recorded, IsFirst, Positions
  <1>4. StreamFromOutbox' /\ OnlyForeignIsDead'
    BY SMTT(20) DEF StreamFromOutbox, OnlyForeignIsDead, OutboxTypeOK, Positions, Position, EventEntry, IsFirst
  <1>5. \A v \in Workers : Position(v)'
    BY SMTT(20) DEF Position, OutboxTypeOK, IsFirst, Recorded, Positions, EventEntry
  <1>6. QED
    BY <1>1, <1>2, <1>3, <1>4, <1>5

(* The environment's steps: an emission, a foreign entry, time.             *)
LEMMA EnvironmentStep ==
  ASSUME IInv, Emit \/ AddForeign \/ \E i \in Positions : BecomeIdle(i)  PROVE IInv'
  <1> USE OutboxAssumption DEF IInv, tables, broker
  <1>1. CASE Emit
    <2>1. OutboxTypeOK'
      BY <1>1 DEF Emit, OutboxTypeOK
    <2>2. KeptUntilReceipted'
      BY <1>1 DEF Emit, KeptUntilReceipted, Copies, Positions, OutboxTypeOK
    <2>3. AcknowledgedIsRecorded' /\ StreamFromOutbox' /\ OnlyForeignIsDead'
      BY <1>1 DEF Emit, AcknowledgedIsRecorded, StreamFromOutbox, OnlyForeignIsDead, Positions
    <2>4. \A w \in Workers : Position(w)'
      BY <1>1 DEF Emit, Position, Recorded, Positions
    <2>5. QED
      BY <2>1, <2>2, <2>3, <2>4
  <1>2. CASE AddForeign
    <2>1. stream' = Append(stream, Malformed)
      BY <1>2 DEF AddForeign
    <2>2. Malformed.kind # "event" /\ Malformed \in Entry
      BY DEF Malformed, Entry
    <2>3. /\ stream' \in Seq(Entry) /\ Len(stream') = Len(stream) + 1
          /\ stream'[Len(stream) + 1].kind # "event"
          /\ \A i \in Positions : stream'[i] = stream[i]
          /\ Len(stream) \in Nat
      BY <2>1, <2>2 DEF OutboxTypeOK, Positions
    <2>4. Positions' = Positions \union {Len(stream) + 1}
      BY <2>3 DEF Positions
    <2>5. UNCHANGED <<tables, delivered, pending, idle, deadletters, step, todo, batch, faults>>
      BY <1>2 DEF AddForeign
    <2>6. (1..delivered) \subseteq Positions /\ \A w \in Workers : batch[w] \subseteq Positions
      BY <2>3 DEF OutboxTypeOK, Positions
    <2>7. OutboxTypeOK'
      BY <2>3, <2>5 DEF OutboxTypeOK
    <2>8. KeptUntilReceipted'
      BY <2>3, <2>4, <2>5 DEF KeptUntilReceipted, Copies
    <2>9. AcknowledgedIsRecorded'
      BY <2>3, <2>5, <2>6 DEF AcknowledgedIsRecorded
    <2>10. StreamFromOutbox' /\ OnlyForeignIsDead'
      BY <2>3, <2>4, <2>5, <2>6 DEF StreamFromOutbox, OnlyForeignIsDead, OutboxTypeOK, EventEntry
    <2>11. \A w \in Workers : Position(w)'
      BY <2>3, <2>4, <2>5, <2>6 DEF Position, Recorded, IsFirst, EventEntry
    <2>12. QED
      BY <2>7, <2>8, <2>9, <2>10, <2>11
  <1>3. CASE \E i \in Positions : BecomeIdle(i)
    <2>1. OutboxTypeOK'
      BY <1>3 DEF BecomeIdle, OutboxTypeOK
    <2>2. KeptUntilReceipted' /\ AcknowledgedIsRecorded' /\ StreamFromOutbox' /\ OnlyForeignIsDead'
      BY <1>3 DEF BecomeIdle, KeptUntilReceipted, Copies, AcknowledgedIsRecorded,
        StreamFromOutbox, OnlyForeignIsDead, Positions
    <2>3. \A w \in Workers : Position(w)'
      BY <1>3 DEF BecomeIdle, Position, Recorded, Positions
    <2>4. QED
      BY <2>1, <2>2, <2>3
  <1>4. QED
    BY <1>1, <1>2, <1>3

(* A step that changes nothing.                                              *)
LEMMA StutterStep == ASSUME IInv, UNCHANGED outboxVars PROVE IInv'
  BY DEF IInv, outboxVars, OutboxTypeOK, KeptUntilReceipted, Copies, AcknowledgedIsRecorded,
    StreamFromOutbox, OnlyForeignIsDead, Position, Recorded, Positions

(* The inductive invariant holds throughout.                                 *)
LEMMA Invariance == OutboxSpec => []IInv
  <1>1. IInv /\ [OutboxNext]_outboxVars => IInv'
    BY EnvironmentStep, StutterStep, SelectRowsStep, ReadRowStep, AddToStreamStep,
       MarkPublishedStep, AutoClaimStep, ReadGroupStep, ReadEntryStep,
       AddDeadLetterStep, InsertReceiptStep, AcknowledgeStep, EndRoundStep, InterruptStep
       DEF OutboxNext, WorkerStep
  <1>2. QED
    BY InitHolds, <1>1, PTL DEF OutboxSpec

(* The outbox's rows, the group's cursor and the workers' rounds stay       *)
(* within their types: in particular a batch never names an entry the group *)
(* has not handed out.                                                      *)
THEOREM TypeCorrect == OutboxSpec => []OutboxTypeOK
  BY Invariance, PTL DEF IInv

(* No event is lost: until it has its receipt, its row is unpublished or a  *)
(* copy of it waits in the stream, whichever rounds were interrupted.       *)
THEOREM NothingIsLost == OutboxSpec => []KeptUntilReceipted
  BY Invariance, PTL DEF IInv

(* Acknowledgements follow the commit of what they acknowledge.             *)
THEOREM AcknowledgementsFollow == OutboxSpec => []AcknowledgedIsRecorded
  BY Invariance, PTL DEF IInv

(* The outbox implements EventDelivery (its safety part): each step emits   *)
(* one event, receives one that was emitted and not yet received, or        *)
(* stutters.                                                                *)
THEOREM Implements == OutboxSpec => DeliverySafety
  <1>1. OutboxInit => Delivery!DeliveryInit
    BY DEF OutboxInit, Delivery!DeliveryInit
  <1>2. ASSUME IInv, [OutboxNext]_outboxVars
        PROVE [Delivery!DeliveryNext]_Delivery!deliveryVars
    <2> USE DEF Delivery!DeliveryNext, Delivery!deliveryVars, Delivery!Events, Events
    <2>1. CASE Emit
      BY <2>1 DEF Emit, Delivery!Emitting, tables
    <2>2. ASSUME NEW w \in Workers, InsertReceipt(w) PROVE [Delivery!DeliveryNext]_Delivery!deliveryVars
      <3>1. PICK i \in batch[w] :
              /\ IsFirst(i, batch[w]) /\ step[w] = "insert" /\ emitted' = emitted
              /\ \/ stream[i].id \notin receipts /\ receipts' = receipts \union {stream[i].id}
                 \/ receipts' = receipts
        BY <2>2 DEF InsertReceipt, Goto
      <3>2. stream[i].kind = "event" /\ i \in Positions
        BY <1>2, <3>1 DEF IInv, Position, OutboxTypeOK, Positions
      <3>3. stream[i].id \in emitted
        BY <1>2, <3>2 DEF IInv, StreamFromOutbox
      <3>4. stream[i].id \in Events
        BY <1>2, <3>3 DEF IInv, OutboxTypeOK
      <3>5. QED
        BY <3>1, <3>3, <3>4 DEF Delivery!Receiving
    <2>3. ASSUME UNCHANGED <<emitted, receipts>> PROVE [Delivery!DeliveryNext]_Delivery!deliveryVars
      BY <2>3
    <2>4. QED
      BY <1>2, <2>1, <2>2, <2>3 DEF OutboxNext, WorkerStep, AddForeign, SelectRows, ReadRow, AddToStream,
        MarkPublished, AutoClaim, ReadGroup, ReadEntry, AddDeadLetter,
        Acknowledge, EndRound, Interrupt, BecomeIdle, tables, outboxVars
  <1>3. QED
    BY <1>1, <1>2, Invariance, PTL DEF OutboxSpec, DeliverySafety, Delivery!DeliverySpec

-----------------------------------------------------------------------------
(* How often an event is in the stream.  A worker adds an event once and    *)
(* then marks it, after which nobody finds it unpublished: each further     *)
(* copy is another worker's that had found it before, or one whose round    *)
(* was interrupted between the two.                                         *)
IsAt(w, e) == e \in todo[w] /\ IsFirst(e, todo[w])
Adding(e) == {w \in Workers : step[w] = "add" /\ IsAt(w, e)}
Marking(e) == {w \in Workers : step[w] = "mark" /\ IsAt(w, e)}
Foreign == {i \in Positions : stream[i] = Malformed}

CopiesCounted(e) ==
  IF e \in published
  THEN Cardinality(Copies(e)) + Cardinality(Adding(e)) <= Cardinality(Workers) + faults
  ELSE Cardinality(Copies(e)) <= Cardinality(Marking(e)) + faults

CInv == (\A e \in Events : CopiesCounted(e)) /\ Cardinality(Foreign) <= MaxForeign

(* An event is delivered at least once, and no more often than there are    *)
(* workers and rounds that were interrupted.                                *)
DuplicatesBounded ==
  \A e \in Events : Cardinality(Copies(e)) <= Cardinality(Workers) + faults

(* The positions that FairOutboxSpec names are all that the stream ever has, so   *)
(* that its fairness leaves no entry out.                                   *)
StreamWithinFairness ==
  Len(stream) <= NEvents * (Cardinality(Workers) + MaxFaults) + MaxForeign

(* The sets that are counted are finite.                                    *)
LEMMA CountedAreFinite ==
  ASSUME IInv, NEW e \in Events
  PROVE  /\ IsFiniteSet(Copies(e)) /\ IsFiniteSet(Adding(e)) /\ IsFiniteSet(Marking(e))
         /\ Cardinality(Copies(e)) \in Nat /\ Cardinality(Adding(e)) \in Nat
         /\ Cardinality(Marking(e)) \in Nat /\ Cardinality(Workers) \in Nat
         /\ faults \in Nat
         /\ Cardinality(Adding(e)) + Cardinality(Marking(e)) <= Cardinality(Workers)
<1>1. Len(stream) \in Nat BY DEF IInv, OutboxTypeOK
<1>2. IsFiniteSet(Positions) BY <1>1, FS_Interval DEF Positions
<1>3. Copies(e) \in SUBSET Positions BY DEF Copies
<1>4. IsFiniteSet(Copies(e)) BY <1>2, <1>3, FS_Subset
<1>5. IsFiniteSet(Workers) BY OutboxAssumption
<1>6. Adding(e) \in SUBSET Workers /\ Marking(e) \in SUBSET Workers BY DEF Adding, Marking
<1>7. IsFiniteSet(Adding(e)) /\ IsFiniteSet(Marking(e)) BY <1>5, <1>6, FS_Subset
<1>8. Adding(e) \cap Marking(e) = {} BY DEF Adding, Marking
<1>9. Cardinality(Adding(e) \union Marking(e)) = Cardinality(Adding(e)) + Cardinality(Marking(e)) - 0
  BY <1>7, <1>8, FS_Union, FS_EmptySet
<1>10. Cardinality(Adding(e) \union Marking(e)) <= Cardinality(Workers)
  BY <1>5, <1>6, FS_Subset
<1>11. /\ Cardinality(Copies(e)) \in Nat /\ Cardinality(Adding(e)) \in Nat
       /\ Cardinality(Marking(e)) \in Nat /\ Cardinality(Workers) \in Nat
  BY <1>4, <1>5, <1>7, FS_CardinalityType
<1>12. faults \in Nat BY OutboxAssumption DEF IInv, OutboxTypeOK
<1> QED BY <1>4, <1>7, <1>9, <1>10, <1>11, <1>12

(* A worker is at one event.                                                *)
LEMMA AtOne == ASSUME IInv, NEW w \in Workers, NEW d, NEW e, IsAt(w, d), IsAt(w, e) PROVE d = e
BY DEF IsAt, IsFirst, IInv, OutboxTypeOK, Events

(* A step that adds, marks and interrupts nothing, and after which nobody   *)
(* more is about to add an event that is published.                         *)
LEMMA QuietCounts ==
  ASSUME IInv, IInv', NEW e \in Events, CopiesCounted(e), Copies(e)' = Copies(e),
         e \in published' <=> e \in published, faults' = faults,
         Marking(e)' = Marking(e), e \in published => Adding(e)' \subseteq Adding(e)
  PROVE  CopiesCounted(e)'
<1>1. CASE e \notin published BY <1>1 DEF CopiesCounted
<1>2. CASE e \in published
  <2>1. Cardinality(Adding(e)') <= Cardinality(Adding(e))
    BY <1>2, CountedAreFinite, FS_Subset
  <2>2. /\ Cardinality(Copies(e)) \in Nat /\ Cardinality(Adding(e)) \in Nat
        /\ Cardinality(Workers) \in Nat /\ faults \in Nat
    BY CountedAreFinite
  <2>3. Cardinality(Adding(e)') \in Nat
    BY <1>2, CountedAreFinite, FS_Subset, FS_CardinalityType
  <2> QED BY <1>2, <2>1, <2>2, <2>3 DEF CopiesCounted
<1> QED BY <1>1, <1>2

(* The workers that are about to add or mark an event, after one has moved. *)
LEMMA OthersStay ==
  ASSUME IInv, NEW w \in Workers, NEW to \in Steps, step' = [step EXCEPT ![w] = to],
         NEW rest, todo' = [todo EXCEPT ![w] = rest], NEW e
  PROVE  /\ Adding(e)' \ {w} = Adding(e) \ {w} /\ Marking(e)' \ {w} = Marking(e) \ {w}
         /\ w \in Adding(e)' <=> to = "add" /\ e \in rest /\ IsFirst(e, rest)
         /\ w \in Marking(e)' <=> to = "mark" /\ e \in rest /\ IsFirst(e, rest)
BY DEF Adding, Marking, IsAt, IsFirst, IInv, OutboxTypeOK

LEMMA NoneMoves ==
  ASSUME UNCHANGED <<step, todo>>, NEW e
  PROVE  Adding(e)' = Adding(e) /\ Marking(e)' = Marking(e)
BY DEF Adding, Marking, IsAt, IsFirst

LEMMA SameStream ==
  ASSUME UNCHANGED stream
  PROVE  Foreign' = Foreign /\ \A e : Copies(e)' = Copies(e)
BY DEF Foreign, Copies, Positions

(* A worker's step that is not about an event's copies.                     *)
LEMMA PassingCounts ==
  ASSUME IInv, IInv', NEW e \in Events, CopiesCounted(e), UNCHANGED <<stream, published, faults>>,
         NEW w \in Workers, step[w] \notin {"add", "mark"},
         NEW to \in Steps, to # "mark", step' = [step EXCEPT ![w] = to],
         todo' = [todo EXCEPT ![w] = todo'[w]],
         to = "add" => \A d \in todo'[w] : IsFirst(d, todo'[w]) => d \notin published
  PROVE  CopiesCounted(e)'
<1>1. w \notin Adding(e) /\ w \notin Marking(e) BY DEF Adding, Marking
<1>2. /\ Adding(e)' \ {w} = Adding(e) \ {w} /\ Marking(e)' \ {w} = Marking(e) \ {w}
      /\ w \in Adding(e)' => e \notin published
      /\ w \notin Marking(e)'
  <2> DEFINE rest == todo'[w]
  <2> HIDE DEF rest
  <2>1. todo' = [todo EXCEPT ![w] = rest] BY DEF rest
  <2>2. to = "add" => \A d \in rest : IsFirst(d, rest) => d \notin published BY DEF rest
  <2> QED BY <2>1, <2>2, OthersStay
<1>3. Marking(e)' = Marking(e) BY <1>1, <1>2
<1>4. e \in published => Adding(e)' \subseteq Adding(e) BY <1>1, <1>2
<1>5. Copies(e)' = Copies(e) BY SameStream
<1> QED BY <1>3, <1>4, <1>5, QuietCounts

(* The copy that a worker adds is counted by its being about to mark it, or *)
(* by its no longer being about to add it.                                  *)
LEMMA AddToStreamCounts ==
  ASSUME IInv, IInv', CInv, NEW w \in Workers, AddToStream(w), NEW e \in Events
  PROVE  CopiesCounted(e)'
<1>1. PICK d \in todo[w] : IsFirst(d, todo[w]) /\ stream' = Append(stream, EventEntry(d))
  BY DEF AddToStream
<1>2. /\ step[w] = "add" /\ step' = [step EXCEPT ![w] = "mark"]
      /\ todo' = todo /\ published' = published /\ faults' = faults
  BY DEF AddToStream, Goto, tables
<1>3. stream \in Seq(Entry) /\ d \in Events /\ EventEntry(d) \in Entry /\ Len(stream) \in Nat
  BY DEF IInv, OutboxTypeOK, Entry
<1>4. Len(stream') = Len(stream) + 1 /\ stream'[Len(stream) + 1] = EventEntry(d)
      /\ \A i \in Positions : stream'[i] = stream[i]
  BY <1>1, <1>3 DEF Positions
<1>5. todo' = [todo EXCEPT ![w] = todo[w]] BY <1>2 DEF IInv, OutboxTypeOK
<1>6. /\ Adding(e)' \ {w} = Adding(e) \ {w} /\ Marking(e)' \ {w} = Marking(e) \ {w}
      /\ w \notin Adding(e)' /\ (w \in Marking(e)' <=> IsAt(w, e))
  <2>1. "mark" \in Steps /\ "mark" # "add" BY DEF Steps
  <2>2. step' = [step EXCEPT ![w] = "mark"] BY <1>2
  <2> QED BY <1>5, <2>1, <2>2, OthersStay DEF IsAt
<1>7. IsAt(w, d) BY <1>1 DEF IsAt
<1>8. /\ Cardinality(Copies(e)) \in Nat /\ Cardinality(Adding(e)) \in Nat
      /\ Cardinality(Marking(e)) \in Nat /\ Cardinality(Workers) \in Nat /\ faults \in Nat
      /\ IsFiniteSet(Copies(e)) /\ IsFiniteSet(Adding(e)) /\ IsFiniteSet(Marking(e))
  BY CountedAreFinite
<1>9. CASE d = e
  <2>1. Copies(e)' = Copies(e) \union {Len(stream) + 1} /\ Len(stream) + 1 \notin Copies(e)
    BY <1>3, <1>4, <1>9 DEF Copies, Positions
  <2>2. Cardinality(Copies(e)') = Cardinality(Copies(e)) + 1 BY <1>8, <2>1, FS_AddElement
  <2>3. w \in Adding(e) /\ w \notin Marking(e) BY <1>2, <1>7, <1>9 DEF Adding, Marking
  <2>4. Adding(e)' = Adding(e) \ {w} /\ Marking(e)' = Marking(e) \union {w}
    BY <1>6, <1>7, <1>9, <2>3
  <2>5. Cardinality(Adding(e)') = Cardinality(Adding(e)) - 1 BY <1>8, <2>3, <2>4, FS_RemoveElement
  <2>6. Cardinality(Marking(e)') = Cardinality(Marking(e)) + 1 BY <1>8, <2>3, <2>4, FS_AddElement
  <2> QED BY <1>2, <1>8, <2>2, <2>5, <2>6 DEF CInv, CopiesCounted
<1>10. CASE d # e
  <2>1. Copies(e)' = Copies(e)
    BY <1>3, <1>4, <1>10 DEF Copies, Positions, EventEntry
  <2>2. ~IsAt(w, e) BY <1>7, <1>10, AtOne
  <2>3. w \notin Adding(e) /\ w \notin Marking(e) BY <2>2 DEF Adding, Marking
  <2>4. Adding(e)' = Adding(e) /\ Marking(e)' = Marking(e) BY <1>6, <2>2, <2>3
  <2> QED BY <1>2, <2>1, <2>4, QuietCounts DEF CInv
<1> QED BY <1>9, <1>10

(* Once an event is published, its copies are those that had been marked or *)
(* interrupted, and nobody else comes to add it.                            *)
LEMMA MarkPublishedCounts ==
  ASSUME IInv, IInv', CInv, NEW w \in Workers, MarkPublished(w), NEW e \in Events
  PROVE  CopiesCounted(e)'
<1>1. PICK d \in todo[w] : /\ IsFirst(d, todo[w]) /\ published' = published \union {d}
                           /\ todo' = [todo EXCEPT ![w] = todo[w] \ {d}]
  BY DEF MarkPublished, IInv, OutboxTypeOK
<1>2. /\ step[w] = "mark" /\ step' = [step EXCEPT ![w] = "publish"]
      /\ faults' = faults /\ stream' = stream
  BY DEF MarkPublished, Goto, broker
<1>3. /\ Adding(e)' \ {w} = Adding(e) \ {w} /\ Marking(e)' \ {w} = Marking(e) \ {w}
      /\ w \notin Adding(e)' /\ w \notin Marking(e)'
  <2>1. "publish" \in Steps /\ "publish" \notin {"add", "mark"} BY DEF Steps
  <2>2. step' = [step EXCEPT ![w] = "publish"] BY <1>2
  <2> DEFINE rest == todo[w] \ {d}
  <2>3. todo' = [todo EXCEPT ![w] = rest] BY <1>1
  <2> HIDE DEF rest
  <2> QED BY <2>1, <2>2, <2>3, OthersStay
<1>4. w \notin Adding(e) BY <1>2 DEF Adding
<1>5. Adding(e)' = Adding(e) BY <1>3, <1>4
<1>6. Copies(e)' = Copies(e) BY <1>2, SameStream
<1>7. /\ Cardinality(Copies(e)) \in Nat /\ Cardinality(Adding(e)) \in Nat
      /\ Cardinality(Marking(e)) \in Nat /\ Cardinality(Workers) \in Nat /\ faults \in Nat
      /\ Cardinality(Adding(e)) + Cardinality(Marking(e)) <= Cardinality(Workers)
  BY CountedAreFinite
<1>8. CASE e \in published BY <1>1, <1>2, <1>5, <1>6, <1>8 DEF CInv, CopiesCounted
<1>9. CASE e \notin published /\ d = e
  BY <1>1, <1>2, <1>5, <1>6, <1>7, <1>9 DEF CInv, CopiesCounted
<1>10. CASE e \notin published /\ d # e
  <2>1. ~IsAt(w, e) BY <1>1, <1>10, AtOne DEF IsAt
  <2>2. Marking(e)' = Marking(e) BY <1>3, <2>1 DEF Marking
  <2>3. e \notin published' BY <1>1, <1>10
  <2> QED BY <1>2, <1>6, <1>10, <2>2, <2>3 DEF CInv, CopiesCounted
<1> QED BY <1>8, <1>9, <1>10

(* An interruption between adding and marking is counted itself.            *)
LEMMA InterruptCounts ==
  ASSUME IInv, IInv', CInv, NEW w \in Workers, Interrupt(w), NEW e \in Events
  PROVE  CopiesCounted(e)'
<1>1. /\ step' = [step EXCEPT ![w] = "idle"] /\ todo' = [todo EXCEPT ![w] = {}]
      /\ faults' = faults + 1 /\ stream' = stream /\ published' = published
  BY DEF Interrupt, tables, broker
<1>2. Adding(e)' = Adding(e) \ {w} /\ Marking(e)' = Marking(e) \ {w}
  <2>1. "idle" \in Steps /\ "idle" \notin {"add", "mark"} BY DEF Steps
  <2> DEFINE none == {}
  <2>2. todo' = [todo EXCEPT ![w] = none] BY <1>1
  <2>3. step' = [step EXCEPT ![w] = "idle"] BY <1>1
  <2> HIDE DEF none
  <2>4. /\ Adding(e)' \ {w} = Adding(e) \ {w} /\ Marking(e)' \ {w} = Marking(e) \ {w}
        /\ w \notin Adding(e)' /\ w \notin Marking(e)'
    BY <2>1, <2>2, <2>3, OthersStay
  <2> QED BY <2>4
<1>3. Copies(e)' = Copies(e) BY <1>1, SameStream
<1>4. /\ Cardinality(Copies(e)) \in Nat /\ Cardinality(Adding(e)) \in Nat
      /\ Cardinality(Marking(e)) \in Nat /\ Cardinality(Workers) \in Nat /\ faults \in Nat
      /\ IsFiniteSet(Adding(e)) /\ IsFiniteSet(Marking(e))
  BY CountedAreFinite
<1>5. /\ Cardinality(Adding(e)') <= Cardinality(Adding(e))
      /\ Cardinality(Marking(e)') >= Cardinality(Marking(e)) - 1
      /\ Cardinality(Adding(e)') \in Nat /\ Cardinality(Marking(e)') \in Nat
  <2>1. Cardinality(Adding(e) \ {w}) \in {Cardinality(Adding(e)), Cardinality(Adding(e)) - 1}
    BY <1>4, FS_RemoveElement
  <2>2. Cardinality(Marking(e) \ {w}) \in {Cardinality(Marking(e)), Cardinality(Marking(e)) - 1}
    BY <1>4, FS_RemoveElement
  <2>3. Cardinality(Adding(e) \ {w}) \in Nat /\ Cardinality(Marking(e) \ {w}) \in Nat
    BY <1>4, FS_RemoveElement, FS_CardinalityType
  <2> QED BY <1>2, <1>4, <2>1, <2>2, <2>3
<1> QED BY <1>1, <1>3, <1>4, <1>5 DEF CInv, CopiesCounted

(* Only AddForeign adds an entry of somebody else.                          *)
LEMMA ForeignCounted ==
  ASSUME IInv, IInv', CInv, [OutboxNext]_outboxVars PROVE Cardinality(Foreign') <= MaxForeign
<1>1. Len(stream) \in Nat /\ stream \in Seq(Entry) BY DEF IInv, OutboxTypeOK
<1>2. IsFiniteSet(Foreign)
  <2>1. IsFiniteSet(Positions) BY <1>1, FS_Interval DEF Positions
  <2>2. Foreign \in SUBSET Positions BY DEF Foreign
  <2> QED BY <2>1, <2>2, FS_Subset
<1>3. CASE UNCHANGED stream BY <1>3, SameStream DEF CInv
<1>4. CASE AddForeign
  <2>1. stream' = Append(stream, Malformed) /\ Cardinality(Foreign) < MaxForeign
    BY <1>4 DEF AddForeign, Foreign
  <2>2. Malformed \in Entry BY DEF Entry
  <2>3. Foreign' = Foreign \union {Len(stream) + 1}
    BY <1>1, <2>1, <2>2 DEF Foreign, Positions
  <2>4. Cardinality(Foreign) \in Nat BY <1>2, FS_CardinalityType
  <2>5. Cardinality(Foreign \union {Len(stream) + 1})
          \in {Cardinality(Foreign), Cardinality(Foreign) + 1}
    BY <1>2, FS_AddElement
  <2> QED BY <2>1, <2>3, <2>4, <2>5, OutboxAssumption
<1>5. ASSUME NEW w \in Workers, AddToStream(w) PROVE Foreign' = Foreign
  <2>1. PICK d \in todo[w] : stream' = Append(stream, EventEntry(d)) BY <1>5 DEF AddToStream
  <2>2. EventEntry(d) \in Entry /\ EventEntry(d) # Malformed
    BY DEF IInv, OutboxTypeOK, Entry, EventEntry, Malformed
  <2> QED BY <1>1, <2>1, <2>2 DEF Foreign, Positions
<1>6. CASE UNCHANGED Foreign BY <1>6 DEF CInv
<1> QED
  BY <1>3, <1>4, <1>5, <1>6
     DEF OutboxNext, WorkerStep, Emit, SelectRows, ReadRow, MarkPublished, AutoClaim, ReadGroup, ReadEntry,
         AddDeadLetter, InsertReceipt, Acknowledge, EndRound, Interrupt, BecomeIdle, broker, outboxVars

(* Nobody else's step is about an event's copies: whoever finds a row       *)
(* unpublished is the only one that comes to add it.                        *)
LEMMA WorkerCounts ==
  ASSUME IInv, IInv', CInv, NEW w \in Workers, WorkerStep(w) \/ Interrupt(w), NEW e \in Events
  PROVE  CopiesCounted(e)'
<1>0. CopiesCounted(e) BY DEF CInv
<1>1. CASE AddToStream(w) BY <1>1, AddToStreamCounts
<1>2. CASE MarkPublished(w) BY <1>2, MarkPublishedCounts
<1>3. CASE Interrupt(w) BY <1>3, InterruptCounts
<1>4. CASE SelectRows(w)
  <2>1. /\ step[w] \notin {"add", "mark"} /\ "publish" \in Steps
        /\ step' = [step EXCEPT ![w] = "publish"] /\ todo' = [todo EXCEPT ![w] = todo'[w]]
        /\ UNCHANGED <<stream, published, faults>>
    BY <1>4 DEF SelectRows, Goto, Steps, tables, broker, IInv, OutboxTypeOK
  <2> QED BY <1>0, <2>1, PassingCounts
<1>5. CASE ReadRow(w)
  <2>1. PICK d \in todo[w] :
          /\ IsFirst(d, todo[w])
          /\ \/ d \notin published /\ Goto(w, "publish", "add") /\ UNCHANGED todo
             \/ step[w] = "publish" /\ todo' = [todo EXCEPT ![w] = @ \ {d}] /\ UNCHANGED step
    BY <1>5 DEF ReadRow
  <2>2. UNCHANGED <<stream, published, faults>> BY <1>5 DEF ReadRow, tables, broker
  <2>3. CASE d \notin published /\ Goto(w, "publish", "add") /\ UNCHANGED todo
    <3>1. \A x \in todo'[w] : IsFirst(x, todo'[w]) => x = d
      BY <2>1, <2>3 DEF IsFirst, IInv, OutboxTypeOK, Events
    <3>2. /\ step[w] \notin {"add", "mark"} /\ "add" \in Steps /\ "add" # "mark"
          /\ step' = [step EXCEPT ![w] = "add"] /\ todo' = [todo EXCEPT ![w] = todo'[w]]
      BY <2>3 DEF Goto, Steps, IInv, OutboxTypeOK
    <3> QED BY <1>0, <2>2, <2>3, <3>1, <3>2, PassingCounts
  <2>4. CASE step[w] = "publish" /\ todo' = [todo EXCEPT ![w] = @ \ {d}] /\ UNCHANGED step
    <3>1. /\ step[w] \notin {"add", "mark"} /\ "publish" \in Steps
          /\ step' = [step EXCEPT ![w] = "publish"] /\ todo' = [todo EXCEPT ![w] = todo'[w]]
      BY <2>4 DEF Steps, IInv, OutboxTypeOK
    <3> QED BY <1>0, <2>2, <3>1, PassingCounts
  <2> QED BY <2>1, <2>3, <2>4
<1>6. ASSUME NEW from, NEW to \in Steps, Goto(w, from, to), from \notin {"add", "mark"},
             to \notin {"add", "mark"}, UNCHANGED <<todo, stream, published, faults>>
      PROVE  CopiesCounted(e)'
  <2>1. /\ step[w] \notin {"add", "mark"} /\ step' = [step EXCEPT ![w] = to]
        /\ todo' = [todo EXCEPT ![w] = todo'[w]]
    BY <1>6 DEF Goto, IInv, OutboxTypeOK
  <2> QED BY <1>0, <1>6, <2>1, PassingCounts
<1>7. /\ \A x \in {"read", "consume", "dead", "insert", "ack", "idle", "publish"} :
           x \in Steps /\ x \notin {"add", "mark"}
  BY DEF Steps
<1>8. CASE AutoClaim(w) \/ ReadGroup(w)
  <2>1. PICK from \in {"publish", "read"}, to \in {"read", "consume"} : Goto(w, from, to)
    BY <1>8 DEF AutoClaim, ReadGroup
  <2>2. UNCHANGED <<todo, stream, published, faults>>
    BY <1>8 DEF AutoClaim, ReadGroup, tables
  <2> QED BY <1>6, <1>7, <2>1, <2>2
<1>9. CASE ReadEntry(w) \/ AddDeadLetter(w) \/ InsertReceipt(w) \/ Acknowledge(w) \/ EndRound(w)
  <2>1. PICK from \in {"consume", "dead", "insert", "ack"},
             to \in {"dead", "ack", "insert", "idle", "consume"} : Goto(w, from, to)
    BY <1>9 DEF ReadEntry, AddDeadLetter, InsertReceipt, Acknowledge, EndRound
  <2>2. UNCHANGED <<todo, stream, published, faults>>
    BY <1>9 DEF ReadEntry, AddDeadLetter, InsertReceipt, Acknowledge, EndRound, tables, broker
  <2> QED BY <1>6, <1>7, <2>1, <2>2
<1> QED BY <1>1, <1>2, <1>3, <1>4, <1>5, <1>8, <1>9 DEF WorkerStep

(* What happens around the workers adds no copy of an event.                *)
LEMMA EnvironmentCounts ==
  ASSUME IInv, IInv', CInv, NEW e \in Events,
         Emit \/ AddForeign \/ (\E i \in Positions : BecomeIdle(i)) \/ UNCHANGED outboxVars
  PROVE  CopiesCounted(e)'
<1>1. UNCHANGED <<step, todo, published, faults>>
  BY DEF Emit, AddForeign, BecomeIdle, tables, outboxVars
<1>2. Adding(e)' = Adding(e) /\ Marking(e)' = Marking(e) BY <1>1, NoneMoves
<1>3. Copies(e)' = Copies(e)
  <2>1. CASE UNCHANGED stream BY <2>1, SameStream
  <2>2. CASE AddForeign
    <3>1. stream' = Append(stream, Malformed) /\ stream \in Seq(Entry) /\ Malformed \in Entry
      BY <2>2 DEF AddForeign, IInv, OutboxTypeOK, Entry
    <3> QED BY <3>1 DEF Copies, Positions, EventEntry, Malformed
  <2> QED BY <2>1, <2>2 DEF Emit, BecomeIdle, broker, outboxVars
<1> QED BY <1>1, <1>2, <1>3, QuietCounts DEF CInv

LEMMA CountsKept == ASSUME IInv, IInv', CInv, [OutboxNext]_outboxVars PROVE CInv'
<1>1. ASSUME NEW e \in Events PROVE CopiesCounted(e)'
  BY <1>1, WorkerCounts, EnvironmentCounts DEF OutboxNext
<1>2. Cardinality(Foreign)' <= MaxForeign BY ForeignCounted
<1> QED BY <1>1, <1>2 DEF CInv

LEMMA CountedInitially == OutboxInit => CInv
<1> SUFFICES ASSUME OutboxInit PROVE CInv OBVIOUS
<1>1. Positions = {} /\ faults = 0 BY DEF OutboxInit, Positions
<1>2. Foreign = {} /\ \A e \in Events : Copies(e) = {} /\ e \notin published
  BY <1>1 DEF Foreign, Copies, OutboxInit
<1>3. \A e \in Events : Marking(e) = {} BY DEF OutboxInit, Marking
<1> QED BY <1>1, <1>2, <1>3, FS_EmptySet, OutboxAssumption DEF CInv, CopiesCounted

LEMMA Counted == OutboxSpec => [](IInv /\ CInv)
<1>1. IInv /\ CInv /\ IInv' /\ [OutboxNext]_outboxVars => CInv' BY CountsKept
<1> QED BY <1>1, CountedInitially, Invariance, PTL DEF OutboxSpec

(* However many workers publish, and whatever rounds are interrupted, the   *)
(* copies that at-least-once delivery costs are bounded.                    *)
THEOREM CopiesBounded == OutboxSpec => []DuplicatesBounded
<1>1. IInv /\ CInv => DuplicatesBounded
  <2> SUFFICES ASSUME IInv, CInv, NEW e \in Events
               PROVE  Cardinality(Copies(e)) <= Cardinality(Workers) + faults
    BY DEF DuplicatesBounded
  <2> QED BY CountedAreFinite DEF CInv, CopiesCounted
<1> QED BY <1>1, Counted, PTL

(* Its entries are numbered by the event and by which of its copies it is:  *)
(* no two entries of the stream have the same number.                       *)
LEMMA EntriesCounted ==
  ASSUME IInv, CInv, DuplicatesBounded
  PROVE  Len(stream) <= NEvents * (Cardinality(Workers) + MaxFaults) + MaxForeign
<1> DEFINE own == Positions \ Foreign
           most == Cardinality(Workers) + MaxFaults
           upto(i) == {j \in Copies(stream[i].id) : j <= i}
           rank == [i \in own |-> <<stream[i].id, Cardinality(upto(i))>>]
<1>1. Len(stream) \in Nat /\ stream \in Seq(Entry) BY DEF IInv, OutboxTypeOK
<1>2. IsFiniteSet(Positions) /\ Cardinality(Positions) = Len(stream)
  BY <1>1, FS_Interval DEF Positions
<1>3. Foreign \in SUBSET Positions BY DEF Foreign
<1>4. IsFiniteSet(Foreign) /\ Cardinality(Foreign) \in Nat /\ Cardinality(Foreign) <= MaxForeign
  BY <1>2, <1>3, FS_Subset, FS_CardinalityType DEF CInv
<1>5. Cardinality(own) = Len(stream) - Cardinality(Foreign) /\ IsFiniteSet(own)
  <2>1. Positions \cap Foreign = Foreign BY <1>3
  <2> QED BY <1>2, <2>1, FS_Difference
<1>6. most \in Nat /\ NEvents \in Nat
  BY OutboxAssumption, FS_CardinalityType
<1>7. ASSUME NEW i \in own
      PROVE  /\ stream[i].id \in Events /\ i \in Nat /\ i \in Copies(stream[i].id)
             /\ upto(i) \subseteq Copies(stream[i].id)
             /\ IsFiniteSet(upto(i)) /\ Cardinality(upto(i)) \in 1 .. most
  <2>1. i \in Positions /\ stream[i] \in Entry /\ stream[i] # Malformed /\ i \in Nat
    BY <1>1, <1>7 DEF Foreign, Positions
  <2>2. PICK e \in Events : stream[i] = EventEntry(e) BY <2>1 DEF Entry
  <2>3. stream[i].id = e BY <2>2 DEF EventEntry
  <2>4. i \in Copies(e) BY <2>1, <2>2 DEF Copies
  <2>5. upto(i) \in SUBSET Copies(e) /\ i \in upto(i) BY <2>1, <2>3, <2>4
  <2>6. IsFiniteSet(Copies(e)) /\ Cardinality(Copies(e)) \in Nat BY CountedAreFinite
  <2>7. IsFiniteSet(upto(i)) /\ Cardinality(upto(i)) <= Cardinality(Copies(e))
    BY <2>5, <2>6, FS_Subset
  <2>8. Cardinality(upto(i)) \in Nat /\ Cardinality(upto(i)) # 0
    BY <2>5, <2>7, FS_CardinalityType, FS_EmptySet
  <2>9. Cardinality(Copies(e)) <= Cardinality(Workers) + faults /\ faults \in 0 .. MaxFaults
    BY DEF DuplicatesBounded, IInv, OutboxTypeOK
  <2>10. Cardinality(Workers) \in Nat /\ MaxFaults \in Nat
    BY OutboxAssumption, FS_CardinalityType
  <2>11. Cardinality(upto(i)) <= most BY <2>6, <2>7, <2>8, <2>9, <2>10
  <2> HIDE DEF upto, most
  <2> QED BY <1>6, <2>1, <2>2, <2>3, <2>4, <2>5, <2>7, <2>8, <2>11
<1>8. ASSUME NEW i \in own, NEW j \in own, i < j, stream[i].id = stream[j].id
      PROVE  Cardinality(upto(i)) # Cardinality(upto(j))
  <2>0. i \in Nat /\ j \in Nat /\ j \in Copies(stream[j].id) BY <1>7
  <2>1. j \in upto(j) /\ j \notin upto(i) BY <1>8, <2>0
  <2>2. upto(i) \in SUBSET upto(j) BY <1>1, <1>8, <2>0 DEF Copies, Positions
  <2>3. IsFiniteSet(upto(j)) BY <1>7
  <2> HIDE DEF upto
  <2> QED BY <2>1, <2>2, <2>3, FS_Subset
<1>9. rank \in Injection(own, Events \X (1 .. most))
  <2>1. rank \in [own -> Events \X (1 .. most)] BY <1>7
  <2>2. ASSUME NEW i \in own, NEW j \in own, rank[i] = rank[j] PROVE i = j
    <3>1. stream[i].id = stream[j].id /\ Cardinality(upto(i)) = Cardinality(upto(j)) BY <2>2
    <3>2. i \in Nat /\ j \in Nat BY <1>7
    <3> HIDE DEF upto, own
    <3> QED BY <1>8, <3>1, <3>2
  <2> HIDE DEF rank, own, most
  <2> QED BY <2>1, <2>2 DEF Injection, IsInjective
<1>10. IsFiniteSet(Events) /\ Cardinality(Events) = NEvents
  BY <1>6, FS_Interval DEF Events
<1>11. IsFiniteSet(1 .. most) /\ Cardinality(1 .. most) = most
  <2> HIDE DEF most
  <2> QED BY <1>6, FS_Interval
<1>12. IsFiniteSet(Events \X (1 .. most)) /\ Cardinality(Events \X (1 .. most)) = NEvents * most
  BY <1>10, <1>11, FS_Product
<1>13. Cardinality(own) <= NEvents * most
  <2> HIDE DEF own, rank, most
  <2> QED BY <1>9, <1>12, FS_Injection
<1>14. Cardinality(own) \in Nat /\ NEvents * most \in Nat /\ MaxForeign \in Nat
  BY <1>5, <1>6, FS_CardinalityType, OutboxAssumption
<1> HIDE DEF own, most
<1>15. Len(stream) <= NEvents * most + MaxForeign BY <1>1, <1>4, <1>5, <1>13, <1>14
<1> QED BY <1>15 DEF most

(* The fairness of the liveness runs is about every entry there can be.     *)
THEOREM StreamBounded == OutboxSpec => []StreamWithinFairness
<1>1. IInv /\ CInv /\ DuplicatesBounded => StreamWithinFairness
  BY EntriesCounted DEF StreamWithinFairness
<1> QED BY <1>1, Counted, CopiesBounded, PTL


=============================================================================
