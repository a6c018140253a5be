---------------------------- MODULE MemoryProofs ----------------------------
(* Proofs about MemoryStore, for any keys, people, lifetimes and bounds: no *)
(* vector of redacted text, whatever deletions, purges and indexes overlap, *)
(* no search that answers another version than the latest, and no version   *)
(* that is written over.                                                    *)
EXTENDS MemoryStore, SequenceTheorems, FiniteSetTheorems, TLAPS

(* A row is redacted exactly when its text is gone.                         *)
TextFollows == \A id \in Ids : RowOf(id).deleted <=> RowOf(id).text = ""

(* What a person is doing is about what it says it is about.                *)
OpFollows == \A p \in People :
  /\ op[p].pc = "insert" => op[p].key \in Keys
  /\ op[p].pc = "redacted" => \A id \in op[p].rows : id[1] = op[p].key
  /\ op[p].pc = "indexing" => \A id \in op[p].batch : ~RowOf(id).deleted

(* No row is locked by two transactions.                                    *)
LocksApart == \A p, q \in People : p # q => Locked(p) \cap Locked(q) = {}

NoVectorOfDeleted == \A id \in vectors : ~RowOf(id).deleted

IInv == TypeOK /\ TextFollows /\ OpFollows /\ LocksApart /\ NoVectorOfDeleted

(* The rows an operation's record locks.                                    *)
LockedBy(r) ==
  IF r.pc \in {"redacted", "marked"} THEN r.rows
  ELSE IF r.pc = "indexing" THEN r.batch ELSE {}

(* The rows a person's transaction has locked depend on its operation       *)
(* alone.                                                                   *)
LEMMA LockedIs == \A p : Locked(p) = LockedBy(op[p])
BY DEF Locked, LockedBy

(* A row's id is its key and a version the key has.                         *)
LEMMA IdsAre == \A id : id \in Ids <=> id \in Id /\ id[2] \in 1..Len(memory[id[1]])
  <1>1. ASSUME NEW id, id \in Ids PROVE id \in Id /\ id[2] \in 1..Len(memory[id[1]])
    BY <1>1 DEF Ids, Id
  <1>2. ASSUME NEW id, id \in Id, id[2] \in 1..Len(memory[id[1]]) PROVE id \in Ids
    BY <1>2 DEF Ids, Id
  <1>. QED BY <1>1, <1>2

(* A version that exists is a row of the table.                             *)
LEMMA RowsAre == TypeOK => \A id \in Ids : RowOf(id) \in Row
BY IdsAre, ElementOfSeq DEF TypeOK, RowOf, Id

(* What a step of one person has to keep: the types, the rows that others   *)
(* have locked, and the vectors of rows that are not redacted.              *)
LEMMA StepKeeps ==
  ASSUME IInv, NEW p \in People, NEW r \in Op, op' = [op EXCEPT ![p] = r],
         memory' \in [Keys -> Seq(Row)], Ids \subseteq Ids', TextFollows',
         \A q \in People \ {p} : op[q].pc = "indexing" =>
           \A id \in op[q].batch : ~(RowOf(id).deleted)',
         vectors' \subseteq Ids', NoVectorOfDeleted', granted' \subseteq People, clock' \in Nat,
         r.rows \subseteq Ids', r.batch \subseteq Ids',
         r.pc = "insert" => r.key \in Keys,
         r.pc = "redacted" => \A id \in r.rows : id[1] = r.key,
         r.pc = "indexing" => \A id \in r.batch : ~(RowOf(id).deleted)',
         \A q \in People \ {p} : LockedBy(r) \cap Locked(q) = {}
  PROVE  IInv'
<1>1. op'[p] = r /\ \A q \in People \ {p} : op'[q] = op[q]
  BY DEF IInv, TypeOK
<1>2. op' \in [People -> Op]
  BY DEF IInv, TypeOK
<1>3. \A q \in People : op'[q].rows \subseteq Ids' /\ op'[q].batch \subseteq Ids'
  BY <1>1 DEF IInv, TypeOK
<1>4. TypeOK'
  BY <1>2, <1>3 DEF TypeOK
<1>5. OpFollows'
  BY <1>1 DEF IInv, OpFollows
<1>6. \A q \in People : Locked(q)' = LockedBy(op'[q])
  BY DEF Locked, LockedBy
<1>7. LocksApart'
  <2>1. Locked(p)' = LockedBy(r) /\ \A q \in People \ {p} : Locked(q)' = Locked(q)
    BY <1>1, <1>6, LockedIs
  <2>. QED BY <2>1 DEF IInv, LocksApart
<1>. QED BY <1>4, <1>5, <1>7 DEF IInv

(* A redacted row is a row of its time, deleted and without its text.       *)
LEMMA RedactedRow ==
  \A row \in Row : /\ Redacted(row) \in Row /\ Redacted(row).created = row.created
                   /\ Redacted(row).deleted /\ Redacted(row).text = ""
BY DEF Row, Redacted

(* Redacting rows keeps the ids, and every other row.                       *)
LEMMA Redacting ==
  ASSUME TypeOK, NEW ids, memory' = AfterRedacting(ids)
  PROVE  /\ memory' \in [Keys -> Seq(Row)]
         /\ Ids' = Ids
         /\ \A id \in Ids : RowOf(id)' = IF id \in ids THEN Redacted(RowOf(id)) ELSE RowOf(id)
<1>1. ASSUME NEW k \in Keys
      PROVE  /\ memory'[k] \in Seq(Row) /\ Len(memory'[k]) = Len(memory[k])
             /\ \A v \in 1..Len(memory[k]) :
                  memory'[k][v] = IF <<k, v>> \in ids THEN Redacted(memory[k][v]) ELSE memory[k][v]
  <2> DEFINE s == memory[k]
             n == Len(s)
             t == [v \in 1..n |-> IF <<k, v>> \in ids THEN Redacted(s[v]) ELSE s[v]]
  <2>1. s \in Seq(Row) /\ n \in Nat /\ DOMAIN s = 1..n
    BY LenProperties DEF TypeOK
  <2>2. memory'[k] = t
    BY <2>1 DEF AfterRedacting
  <2>3. \A v \in 1..n : s[v] \in Row /\ Redacted(s[v]) \in Row
    BY <2>1, ElementOfSeq, RedactedRow
  <2>4. t \in [1..n -> Row]
    BY <2>3
  <2>5. t \in Seq(Row) /\ Len(t) = n
    BY <2>1, <2>4
  <2>. QED BY <2>2, <2>5
<1>2. memory' \in [Keys -> Seq(Row)]
  BY <1>1 DEF AfterRedacting
<1>3. \A id : id \in Ids' <=> id \in Id /\ id[2] \in 1..Len(memory'[id[1]])
  <2>1. ASSUME NEW id, id \in Ids' PROVE id \in Id /\ id[2] \in 1..Len(memory'[id[1]])
    BY <1>2, <2>1 DEF Ids, Id
  <2>2. ASSUME NEW id, id \in Id, id[2] \in 1..Len(memory'[id[1]]) PROVE id \in Ids'
    BY <2>2 DEF Ids, Id
  <2>. QED BY <2>1, <2>2
<1>4. Ids' = Ids
  BY <1>1, <1>3, IdsAre DEF Id
<1>5. \A id \in Ids : RowOf(id)' = IF id \in ids THEN Redacted(RowOf(id)) ELSE RowOf(id)
  BY <1>1, IdsAre DEF RowOf, Id
<1>. QED BY <1>2, <1>4, <1>5

(* A new version is one more id, greater than those of its key.             *)
LEMMA Appending ==
  ASSUME TypeOK, NEW k \in Keys, NEW row \in Row, memory' = [memory EXCEPT ![k] = Append(@, row)]
  PROVE  /\ memory' \in [Keys -> Seq(Row)]
         /\ Ids \subseteq Ids'
         /\ \A id \in Ids : RowOf(id)' = RowOf(id)
         /\ \A id \in Ids' : id \in Ids \/ (id = <<k, Len(memory[k]) + 1>> /\ RowOf(id)' = row)
<1>1. /\ memory[k] \in Seq(Row) /\ Append(memory[k], row) \in Seq(Row) /\ Len(memory[k]) \in Nat
      /\ Len(Append(memory[k], row)) = Len(memory[k]) + 1
      /\ \A v \in 1..Len(memory[k]) : Append(memory[k], row)[v] = memory[k][v]
      /\ Append(memory[k], row)[Len(memory[k]) + 1] = row
  BY DEF TypeOK
<1>2. memory' \in [Keys -> Seq(Row)] /\ memory'[k] = Append(memory[k], row)
      /\ \A j \in Keys \ {k} : memory'[j] = memory[j]
  BY <1>1 DEF TypeOK
<1>3. \A id : id \in Ids' <=> id \in Id /\ id[2] \in 1..Len(memory'[id[1]])
  <2>1. ASSUME NEW id, id \in Ids' PROVE id \in Id /\ id[2] \in 1..Len(memory'[id[1]])
    BY <1>2, <2>1 DEF Ids, Id
  <2>2. ASSUME NEW id, id \in Id, id[2] \in 1..Len(memory'[id[1]]) PROVE id \in Ids'
    BY <2>2 DEF Ids, Id
  <2>. QED BY <2>1, <2>2
<1>4. ASSUME NEW id \in Ids PROVE id \in Ids' /\ RowOf(id)' = RowOf(id)
  <2>1. id \in Id /\ id[2] \in 1..Len(memory[id[1]])
    BY IdsAre
  <2>. QED BY <1>1, <1>2, <1>3, <2>1 DEF RowOf, Id
<1>5. ASSUME NEW id \in Ids' PROVE id \in Ids \/ (id = <<k, Len(memory[k]) + 1>> /\ RowOf(id)' = row)
  <2>1. id \in Id /\ id[2] \in 1..Len(memory'[id[1]])
    BY <1>3
  <2>2. CASE id[1] = k /\ id[2] = Len(memory[k]) + 1
    BY <1>1, <1>2, <2>1, <2>2 DEF RowOf, Id
  <2>3. CASE ~(id[1] = k /\ id[2] = Len(memory[k]) + 1)
    <3>1. id[2] \in 1..Len(memory[id[1]])
      BY <1>1, <1>2, <2>1, <2>3 DEF Id
    <3>. QED BY <2>1, <3>1, IdsAre
  <2>. QED BY <2>2, <2>3
<1>. QED BY <1>2, <1>4, <1>5

(* A step that leaves memory alone keeps what is said of its rows.          *)
LEMMA MemorySame ==
  ASSUME IInv, memory' = memory
  PROVE  /\ memory' \in [Keys -> Seq(Row)] /\ Ids' = Ids /\ TextFollows'
         /\ \A id : RowOf(id)' = RowOf(id)
<1>1. memory' \in [Keys -> Seq(Row)] /\ Ids' = Ids
  BY DEF IInv, TypeOK, Ids
<1>2. \A id : RowOf(id)' = RowOf(id)
  BY DEF RowOf
<1>3. TextFollows'
  BY <1>1, <1>2 DEF IInv, TextFollows
<1>. QED BY <1>1, <1>2, <1>3

(* The steps that read, wait or return, and those that lock rows.           *)
LEMMA ReadingStep ==
  ASSUME IInv, NEW p \in People, NEW r \in Op, op' = [op EXCEPT ![p] = r],
         UNCHANGED <<memory, vectors, granted, clock>>,
         r.rows \subseteq Ids, r.batch \subseteq Ids,
         r.pc = "insert" => r.key \in Keys,
         r.pc = "redacted" => \A id \in r.rows : id[1] = r.key,
         r.pc = "indexing" => \A id \in r.batch : ~RowOf(id).deleted,
         \A q \in People \ {p} : LockedBy(r) \cap Locked(q) = {}
  PROVE  IInv'
<1>1. /\ memory' \in [Keys -> Seq(Row)] /\ Ids' = Ids /\ TextFollows'
      /\ \A id : RowOf(id)' = RowOf(id)
  BY MemorySame
<1>2. \A q \in People \ {p} : op[q].pc = "indexing" => \A id \in op[q].batch : ~(RowOf(id).deleted)'
  BY <1>1 DEF IInv, OpFollows
<1>3. vectors' \subseteq Ids' /\ NoVectorOfDeleted' /\ granted' \subseteq People /\ clock' \in Nat
  BY <1>1 DEF IInv, TypeOK, NoVectorOfDeleted
<1>4. r.pc = "indexing" => \A id \in r.batch : ~(RowOf(id).deleted)'
  BY <1>1
<1>. QED BY <1>1, <1>2, <1>3, <1>4, StepKeeps

(* One lemma for each operation: its new record is of its type, and what it *)
(* locks was free.                                                          *)
LEMMA RememberReadStep == ASSUME IInv, NEW p \in People, NEW k \in Keys, RememberRead(p, k) PROVE IInv'
<1> DEFINE r == [Doing("insert") EXCEPT !.key = k, !.version = Len(memory[k]) + 1]
<1>1. r \in Op /\ r.pc = "insert" /\ r.key = k /\ r.rows = {} /\ r.batch = {}
  <2>1. Len(memory[k]) + 1 \in Nat
    BY DEF IInv, TypeOK
  <2>. QED BY <2>1 DEF Op, Pc, Doing
<1>2. op' = [op EXCEPT ![p] = r]
  BY DEF RememberRead, Becomes
<1>3. UNCHANGED <<memory, vectors, granted, clock>>
  BY DEF RememberRead
<1>. HIDE DEF r
<1>4. LockedBy(r) = {}
  BY <1>1 DEF LockedBy
<1>. QED BY <1>1, <1>2, <1>3, <1>4, ReadingStep

(* delete_memory() keeps the invariant: what it redacts it has locked.      *)
LEMMA DeleteRedactStep == ASSUME IInv, NEW p \in People, NEW k \in Keys, DeleteRedact(p, k) PROVE IInv'
<1> DEFINE ids == {id \in Ids : id[1] = k}
           r == [Doing("redacted") EXCEPT !.key = k, !.rows = ids]
<1>1. r \in Op /\ r.pc = "redacted" /\ r.key = k /\ r.rows = ids /\ r.batch = {}
  <2>1. ids \in SUBSET Id
    BY IdsAre
  <2>. HIDE DEF ids
  <2>. QED BY <2>1 DEF Op, Pc, Doing
<1>2. op' = [op EXCEPT ![p] = r]
  BY DEF DeleteRedact, Becomes
<1>3. UNCHANGED <<memory, vectors, granted, clock>>
  BY DEF DeleteRedact
<1>4. \A q \in People \ {p} : LockedBy(r) \cap Locked(q) = {}
  <2>1. \A q \in People \ {p} : Locked(q) \cap ids = {}
    BY DEF DeleteRedact, Free
  <2>. HIDE DEF r
  <2>. QED BY <1>1, <2>1 DEF LockedBy
<1>5. ids \subseteq Ids /\ \A id \in ids : id[1] = k
  OBVIOUS
<1>. HIDE DEF r, ids
<1>. QED BY <1>5, <1>1, <1>2, <1>3, <1>4, ReadingStep

(* Reading the rows to embed keeps the invariant: nothing is stored yet.    *)
LEMMA IndexReadStep == ASSUME IInv, NEW p \in People, IndexRead(p) PROVE IInv'
<1> DEFINE ids == LatestAlive \ vectors
           r == [Doing("embed") EXCEPT !.rows = ids]
<1>1. ids \subseteq Ids
  BY DEF LatestAlive
<1>2. r \in Op /\ r.pc = "embed" /\ r.rows = ids /\ r.batch = {}
  <2>1. ids \in SUBSET Id
    BY <1>1, IdsAre
  <2>. HIDE DEF ids
  <2>. QED BY <2>1 DEF Op, Pc, Doing
<1>3. op' = [op EXCEPT ![p] = r]
  BY DEF IndexRead, Becomes
<1>4. UNCHANGED <<memory, vectors, granted, clock>>
  BY DEF IndexRead
<1>. HIDE DEF ids, r
<1>5. LockedBy(r) = {}
  BY <1>2 DEF LockedBy
<1>. QED BY <1>1, <1>2, <1>3, <1>4, <1>5, ReadingStep

(* The provider's answer keeps the invariant: nothing is stored yet.        *)
LEMMA EmbedStep == ASSUME IInv, NEW p \in People, Embed(p) PROVE IInv'
<1>1. PICK batch \in SUBSET op[p].rows : op' = [op EXCEPT ![p] = [op[p] EXCEPT !.pc = "embedded", !.batch = batch]]
  BY DEF Embed, Becomes
<1> DEFINE r == [op[p] EXCEPT !.pc = "embedded", !.batch = batch]
<1>2. op[p] \in Op /\ op[p].rows \subseteq Ids
  BY DEF IInv, TypeOK
<1>3. r \in Op /\ r.pc = "embedded" /\ r.rows \subseteq Ids /\ r.batch \subseteq Ids
  BY <1>2, IdsAre DEF Op, Pc
<1>4. UNCHANGED <<memory, vectors, granted, clock>>
  BY DEF Embed
<1>5. LockedBy(r) = {}
  BY <1>3 DEF LockedBy
<1>. HIDE DEF r
<1>. QED BY <1>1, <1>3, <1>4, <1>5, ReadingStep DEF r

(* index() keeps the invariant: it goes on only with text that it has       *)
(* locked.                                                                  *)
LEMMA IndexLockStep == ASSUME IInv, NEW p \in People, IndexLock(p) PROVE IInv'
<1> DEFINE alive == {id \in op[p].batch : Alive(id)}
           r == [op[p] EXCEPT !.pc = "indexing", !.rows = @ \ op[p].batch, !.batch = alive]
<1>1. op[p] \in Op /\ op[p].rows \subseteq Ids /\ op[p].batch \subseteq Ids
  BY DEF IInv, TypeOK
<1>2. alive \subseteq op[p].batch /\ \A id \in alive : ~RowOf(id).deleted
  BY DEF Alive
<1>3. r \in Op /\ r.pc = "indexing" /\ r.rows \subseteq Ids /\ r.batch = alive
  <2>. HIDE DEF alive
  <2>. QED BY <1>1, <1>2, IdsAre DEF Op, Pc
<1>4. op' = [op EXCEPT ![p] = r]
  BY DEF IndexLock, Becomes
<1>5. UNCHANGED <<memory, vectors, granted, clock>>
  BY DEF IndexLock
<1>6. \A q \in People \ {p} : LockedBy(r) \cap Locked(q) = {}
  <2>1. \A q \in People \ {p} : Locked(q) \cap op[p].batch = {}
    BY DEF IndexLock, Free
  <2>2. LockedBy(r) = alive
    BY <1>3 DEF LockedBy
  <2>. HIDE DEF alive, r
  <2>. QED BY <1>2, <2>1, <2>2
<1>. HIDE DEF r, alive
<1>. QED BY <1>1, <1>2, <1>3, <1>4, <1>5, <1>6, ReadingStep

(* An operation that looks at rows and locks none.                          *)
LEMMA LookingStep ==
  ASSUME IInv, NEW p \in People, NEW ids \in SUBSET Ids,
         op' = [op EXCEPT ![p] = [Doing("answered") EXCEPT !.rows = ids]],
         UNCHANGED <<memory, vectors, granted, clock>>
  PROVE  IInv'
<1> DEFINE r == [Doing("answered") EXCEPT !.rows = ids]
<1>1. ids \in SUBSET Id
  BY IdsAre
<1>2. r \in Op /\ r.pc = "answered" /\ r.rows = ids /\ r.batch = {}
  BY <1>1 DEF Op, Pc, Doing
<1>. HIDE DEF r
<1>3. LockedBy(r) = {}
  BY <1>2 DEF LockedBy
<1>. QED BY <1>2, <1>3, ReadingStep DEF r

(* A search keeps the invariant: it changes no row and no vector.           *)
LEMMA SearchSteps ==
  ASSUME IInv, NEW p \in People,
         SemanticQuery(p) \/ SemanticAnswer(p) \/ TextSearch(p) \/ HistorySearch(p) \/ Return(p)
  PROVE  IInv'
<1>1. ASSUME NEW pc \in {"idle", "query", "history"}, op' = [op EXCEPT ![p] = Doing(pc)],
             UNCHANGED <<memory, vectors, granted, clock>>
      PROVE  IInv'
  <2>1. /\ Doing(pc) \in Op /\ Doing(pc).pc = pc
        /\ Doing(pc).rows = {} /\ Doing(pc).batch = {}
    BY DEF Doing, Op, Pc
  <2>2. LockedBy(Doing(pc)) = {}
    BY <2>1 DEF LockedBy
  <2>. QED BY <1>1, <2>1, <2>2, ReadingStep
<1>2. CASE SemanticQuery(p)
  BY <1>1, <1>2 DEF SemanticQuery, Becomes
<1>3. CASE SemanticAnswer(p)
  <2>1. LatestAlive \cap vectors \in SUBSET Ids
    BY DEF LatestAlive
  <2>. QED BY <1>3, <2>1, LookingStep DEF SemanticAnswer, Becomes
<1>4. CASE TextSearch(p)
  <2>1. {id \in FirstOfKey : Alive(id)} \in SUBSET Ids
    BY DEF FirstOfKey, Recent
  <2>. QED BY <1>4, <2>1, LookingStep DEF TextSearch, Becomes
<1>5. CASE Return(p)
  BY <1>1, <1>5 DEF Return, Idle
<1>6. CASE HistorySearch(p)
  BY <1>1, <1>6 DEF HistorySearch, Becomes
<1>. QED BY <1>2, <1>3, <1>4, <1>5, <1>6

(* purge_expired() keeps the invariant: what it redacts it has locked.      *)
LEMMA PurgeMarkStep == ASSUME IInv, NEW p \in People, PurgeMark(p) PROVE IInv'
<1> DEFINE ids == {id \in Ids : Expired(id) /\ ~RowOf(id).deleted}
           r == [Doing("marked") EXCEPT !.rows = ids, !.at = clock]
<1>1. ids \in SUBSET Id
  BY IdsAre
<1>2. r \in Op /\ r.pc = "marked" /\ r.rows = ids /\ r.batch = {}
  <2>1. clock \in Nat
    BY DEF IInv, TypeOK
  <2>. HIDE DEF ids
  <2>. QED BY <1>1, <2>1 DEF Op, Pc, Doing
<1>3. op' = [op EXCEPT ![p] = r]
  BY DEF PurgeMark, Becomes
<1>4. UNCHANGED <<memory, vectors, granted, clock>>
  BY DEF PurgeMark
<1>5. \A q \in People \ {p} : Locked(q) \cap ids = {}
  BY DEF PurgeMark, Free
<1>6. ids \subseteq Ids
  OBVIOUS
<1>. HIDE DEF r, ids
<1>7. \A q \in People \ {p} : LockedBy(r) \cap Locked(q) = {}
  BY <1>2, <1>5 DEF LockedBy
<1>. QED BY <1>2, <1>3, <1>4, <1>6, <1>7, ReadingStep

(* A person in no operation locks nothing.                                  *)
LEMMA IdleIs == Idle \in Op /\ Idle.pc = "idle" /\ Idle.rows = {} /\ Idle.batch = {} /\ LockedBy(Idle) = {}
BY DEF Idle, Doing, Op, Pc, LockedBy

(* The vectors of a batch are of rows that its transaction has locked.      *)
LEMMA IndexCommitStep == ASSUME IInv, NEW p \in People, IndexCommit(p) PROVE IInv'
<1>1. PICK r \in {Idle, [op[p] EXCEPT !.pc = "embed", !.batch = {}]} : op' = [op EXCEPT ![p] = r]
  BY DEF IndexCommit, Becomes
<1>2. op[p] \in Op /\ op[p].rows \subseteq Ids /\ op[p].batch \subseteq Ids /\ op[p].pc = "indexing"
  BY DEF IInv, TypeOK, IndexCommit, Becomes
<1>3. r \in Op /\ r.pc \in {"idle", "embed"} /\ r.rows \subseteq Ids /\ r.batch = {}
  <2>1. CASE r = Idle
    BY <2>1, IdleIs
  <2>2. CASE r = [op[p] EXCEPT !.pc = "embed", !.batch = {}]
    BY <1>2, <2>2 DEF Op, Pc
  <2>. QED BY <2>1, <2>2
<1>4. LockedBy(r) = {}
  BY <1>3 DEF LockedBy
<1>5. /\ memory' = memory /\ granted' = granted /\ clock' = clock
      /\ vectors' = vectors \union op[p].batch
  BY DEF IndexCommit
<1>6. /\ memory' \in [Keys -> Seq(Row)] /\ Ids' = Ids /\ TextFollows'
      /\ \A id : RowOf(id)' = RowOf(id)
  BY <1>5, MemorySame
<1>7. \A q \in People : op[q].pc = "indexing" => \A id \in op[q].batch : ~(RowOf(id).deleted)'
  BY <1>6 DEF IInv, OpFollows
<1>8. vectors' \subseteq Ids' /\ granted' \subseteq People /\ clock' \in Nat
  BY <1>2, <1>5, <1>6 DEF IInv, TypeOK
<1>9. NoVectorOfDeleted'
  BY <1>2, <1>5, <1>6, <1>7 DEF IInv, NoVectorOfDeleted
<1>. QED BY <1>1, <1>3, <1>4, <1>6, <1>7, <1>8, <1>9, StepKeeps

(* A version that is inserted has no vector, and redacts nothing.           *)
LEMMA RememberWriteStep == ASSUME IInv, NEW p \in People, RememberWrite(p) PROVE IInv'
<1>1. op' = [op EXCEPT ![p] = Idle] /\ UNCHANGED <<vectors, granted, clock>> /\ op[p].pc = "insert"
  BY DEF RememberWrite, Becomes
<1>2. CASE memory' = memory
  BY <1>1, <1>2, IdleIs, ReadingStep
<1>3. CASE memory' # memory
  <2>1. op[p].key \in Keys
    BY <1>1 DEF IInv, OpFollows
  <2>2. PICK ttl \in Lifetimes :
          memory' = [memory EXCEPT ![op[p].key] = Append(@, NewRow(ttl))]
    BY <1>3 DEF RememberWrite
  <2> DEFINE row == NewRow(ttl)
  <2>3. row \in Row /\ ~row.deleted /\ row.text = "text"
    <3>1. clock \in Nat /\ ttl \in Nat
      BY MemoryAssumption DEF IInv, TypeOK
    <3>. QED BY <3>1 DEF NewRow, Row
  <2>. HIDE DEF row
  <2>4. /\ memory' \in [Keys -> Seq(Row)] /\ Ids \subseteq Ids'
        /\ \A id \in Ids : RowOf(id)' = RowOf(id)
        /\ \A id \in Ids' : id \in Ids \/ RowOf(id)' = row
    BY <2>1, <2>2, <2>3, Appending DEF IInv, row
  <2>5. TextFollows'
    BY <2>3, <2>4 DEF IInv, TextFollows
  <2>6. \A q \in People : op[q].pc = "indexing" => \A id \in op[q].batch : ~(RowOf(id).deleted)'
    BY <2>4 DEF IInv, TypeOK, OpFollows
  <2>7. vectors' \subseteq Ids' /\ NoVectorOfDeleted' /\ granted' \subseteq People /\ clock' \in Nat
    BY <1>1, <2>4 DEF IInv, TypeOK, NoVectorOfDeleted
  <2>. QED BY <1>1, <2>4, <2>5, <2>6, <2>7, IdleIs, StepKeeps
<1>. QED BY <1>2, <1>3

(* What a transaction redacts when it commits is what it has locked: no     *)
(* other transaction relies on these rows.                                  *)
LEMMA RedactingStep ==
  ASSUME IInv, NEW p \in People, op[p].pc \in {"redacted", "marked"},
         op' = [op EXCEPT ![p] = Idle], memory' = AfterRedacting(op[p].rows),
         vectors' \subseteq vectors \ op[p].rows, UNCHANGED <<granted, clock>>
  PROVE  IInv'
<1>1. Locked(p) = op[p].rows /\ op[p].rows \subseteq Ids
  BY DEF Locked, IInv, TypeOK
<1>2. /\ memory' \in [Keys -> Seq(Row)] /\ Ids' = Ids
      /\ \A id \in Ids : RowOf(id)' = IF id \in op[p].rows THEN Redacted(RowOf(id)) ELSE RowOf(id)
  BY Redacting DEF IInv
<1>3. TextFollows'
  <2>1. \A id \in Ids : RowOf(id) \in Row /\ (RowOf(id).deleted <=> RowOf(id).text = "")
    BY RowsAre DEF IInv, TextFollows
  <2>2. ASSUME NEW id \in Ids PROVE RowOf(id)'.deleted <=> RowOf(id)'.text = ""
    <3>1. CASE id \in op[p].rows
      BY <1>2, <2>1, <3>1, RedactedRow
    <3>2. CASE id \notin op[p].rows
      BY <1>2, <2>1, <3>2
    <3>. QED BY <3>1, <3>2
  <2>. QED BY <1>2, <2>2 DEF TextFollows
<1>4. \A q \in People \ {p} : op[q].pc = "indexing" => \A id \in op[q].batch : ~(RowOf(id).deleted)'
  <2>1. ASSUME NEW q \in People \ {p}, op[q].pc = "indexing", NEW id \in op[q].batch
        PROVE  id \in Ids /\ id \notin op[p].rows /\ ~RowOf(id).deleted
    BY <1>1, <2>1 DEF IInv, TypeOK, OpFollows, LocksApart, Locked
  <2>. QED BY <1>2, <2>1
<1>5. NoVectorOfDeleted' /\ vectors' \subseteq Ids'
  BY <1>2 DEF IInv, TypeOK, NoVectorOfDeleted
<1>6. granted' \subseteq People /\ clock' \in Nat
  BY DEF IInv, TypeOK
<1>. QED BY <1>2, <1>3, <1>4, <1>5, <1>6, IdleIs, StepKeeps

(* The commit of a deletion or a purge keeps the invariant: the vectors of  *)
(* what was redacted go with it.                                            *)
LEMMA CommitSteps ==
  ASSUME IInv, NEW p \in People, DeleteCommit(p) \/ PurgeCommit(p) PROVE IInv'
<1>1. CASE DeleteCommit(p)
  <2>1. \A id \in op[p].rows : id[1] = op[p].key
    BY <1>1 DEF IInv, OpFollows, DeleteCommit, Becomes
  <2>. QED BY <1>1, <2>1, RedactingStep DEF DeleteCommit, Becomes
<1>2. CASE PurgeCommit(p)
  BY <1>2, RedactingStep DEF PurgeCommit, Becomes
<1>. QED BY <1>1, <1>2

(* Grants and the clock have no part in the invariant but their types.      *)
LEMMA OutsideStep ==
  ASSUME IInv, UNCHANGED <<memory, vectors, op>>, granted' \subseteq People, clock' \in Nat
  PROVE  IInv'
<1>1. /\ memory' \in [Keys -> Seq(Row)] /\ Ids' = Ids /\ TextFollows'
      /\ \A id : RowOf(id)' = RowOf(id)
  BY MemorySame
<1>2. \A q : Locked(q)' = Locked(q)
  BY DEF Locked
<1>3. TypeOK'
  BY <1>1 DEF IInv, TypeOK
<1>4. OpFollows' /\ NoVectorOfDeleted'
  BY <1>1 DEF IInv, OpFollows, NoVectorOfDeleted
<1>5. LocksApart'
  BY <1>2 DEF IInv, LocksApart
<1>. QED BY <1>1, <1>3, <1>4, <1>5 DEF IInv

(* Nothing is stored and nobody does anything.                              *)
LEMMA InitHolds == Init => IInv
<1> SUFFICES ASSUME Init PROVE IInv
  OBVIOUS
<1>1. Ids = {}
  BY DEF Init, Ids
<1>2. TypeOK
  BY <1>1, IdleIs DEF Init, TypeOK
<1>3. \A p \in People : op[p] = Idle
  BY DEF Init
<1>4. TextFollows /\ NoVectorOfDeleted
  BY <1>1 DEF TextFollows, NoVectorOfDeleted, Init
<1>5. OpFollows /\ LocksApart
  BY <1>3, IdleIs, LockedIs DEF OpFollows, LocksApart
<1>. QED BY <1>2, <1>4, <1>5 DEF IInv

(* The invariant is inductive.                                              *)
LEMMA Inductive == IInv /\ [Next]_vars => IInv'
<1> SUFFICES ASSUME IInv, [Next]_vars PROVE IInv'
  OBVIOUS
<1>1. ASSUME NEW p \in People, ChangeGrants(p) PROVE IInv'
  BY <1>1, OutsideStep DEF ChangeGrants, IInv, TypeOK
<1>2. CASE Tick
  BY <1>2, OutsideStep DEF Tick, IInv, TypeOK
<1>3. CASE UNCHANGED vars
  BY <1>3, OutsideStep DEF vars, IInv, TypeOK
<1>. QED
  BY <1>1, <1>2, <1>3, RememberReadStep, DeleteRedactStep, RememberWriteStep, CommitSteps, IndexReadStep,
     EmbedStep, IndexLockStep, IndexCommitStep, SearchSteps, PurgeMarkStep DEF Next

(* The invariant holds in every state of the memory and its index.          *)
LEMMA Invariance == Spec => []IInv
BY InitHolds, Inductive, PTL DEF Spec

(* Rows, vectors, grants and operations keep their types for any keys and   *)
(* people.                                                                  *)
THEOREM TypeCorrect == Spec => []TypeOK
<1>1. IInv => TypeOK
  BY DEF IInv
<1>. QED BY <1>1, Invariance, PTL

(* delete_memory and purge_expired leave no vector of the text they redact, *)
(* and no index that was waiting for its provider stores one afterwards.    *)
THEOREM RedactionSafety == Spec => []RedactedHasNoVector
<1>1. IInv => RedactedHasNoVector
  <2>1. ASSUME IInv, NEW id \in vectors PROVE ~RowOf(id).deleted /\ RowOf(id).text = "text"
    <3>1. id \in Ids /\ ~RowOf(id).deleted
      BY <2>1 DEF IInv, TypeOK, NoVectorOfDeleted
    <3>2. RowOf(id).text \in {"text", ""}
      BY <2>1, <3>1, RowsAre DEF IInv, Row
    <3>. QED BY <2>1, <3>1, <3>2 DEF IInv, TextFollows
  <2>. QED BY <2>1 DEF RedactedHasNoVector
<1>. QED BY <1>1, Invariance, PTL
-----------------------------------------------------------------------------
(* Of the rows of a key the later versions are not the older ones, none is  *)
(* of the future, and there are finitely many.                              *)
InOrder == \A a, b \in Ids : a[1] = b[1] /\ a[2] < b[2] => RowOf(a).created <= RowOf(b).created
Past == \A id \in Ids : RowOf(id).created <= clock
VInv == InOrder /\ Past /\ IsFiniteSet(Ids)

(* What keeps rows, their times and the order of time keeps the order.      *)
LEMMA TimesSame ==
  ASSUME IInv, VInv, Ids' = Ids, \A id \in Ids : RowOf(id)'.created = RowOf(id).created,
         clock' \in Nat, clock <= clock'
  PROVE  VInv'
<1>1. \A id \in Ids : RowOf(id).created \in Nat
  BY RowsAre DEF IInv, Row
<1>2. InOrder'
  BY DEF VInv, InOrder
<1>3. Past'
  BY <1>1 DEF VInv, Past, IInv, TypeOK
<1>. QED BY <1>2, <1>3 DEF VInv

(* A new version is stamped by the clock, which no earlier one is after.    *)
LEMMA TimesAppended ==
  ASSUME IInv, VInv, NEW k \in Keys, NEW row \in Row, row.created = clock,
         memory' = [memory EXCEPT ![k] = Append(@, row)], clock' = clock
  PROVE  VInv'
<1> DEFINE new == <<k, Len(memory[k]) + 1>>
<1>1. /\ Ids \subseteq Ids'
      /\ \A id \in Ids : RowOf(id)' = RowOf(id)
      /\ \A id \in Ids' : id \in Ids \/ (id = new /\ RowOf(id)' = row)
  BY Appending DEF IInv
<1>2. clock \in Nat /\ Len(memory[k]) \in Nat /\ new[1] = k /\ new[2] = Len(memory[k]) + 1
  BY DEF IInv, TypeOK
<1>3. \A id \in Ids : id[1] = k => id[2] \in Nat /\ id[2] < new[2]
  BY <1>2, IdsAre DEF Id
<1>. HIDE DEF new
<1>4. InOrder'
  <2>1. ASSUME NEW a \in Ids', NEW b \in Ids', a[1] = b[1], a[2] < b[2]
        PROVE  RowOf(a)'.created <= RowOf(b)'.created
    <3>1. CASE a \in Ids /\ b \in Ids
      BY <1>1, <2>1, <3>1 DEF VInv, InOrder
    <3>2. CASE a \in Ids /\ b \notin Ids
      BY <1>1, <3>2 DEF VInv, Past
    <3>3. CASE a \notin Ids
      BY <1>1, <1>2, <1>3, <2>1, <3>3
    <3>. QED BY <3>1, <3>2, <3>3
  <2>. QED BY <2>1 DEF InOrder
<1>5. Past'
  BY <1>1, <1>2 DEF VInv, Past
<1>6. IsFiniteSet(Ids')
  <2>1. IsFiniteSet(Ids \union {new}) /\ Ids' \subseteq Ids \union {new}
    BY <1>1, FS_AddElement DEF VInv
  <2>. QED BY <2>1, FS_Subset
<1>. QED BY <1>4, <1>5, <1>6 DEF VInv

(* Versions stay in the order of time: a redacted row keeps its stamp.      *)
LEMMA TimesInductive == IInv /\ VInv /\ [Next]_vars => VInv'
<1> SUFFICES ASSUME IInv, VInv, [Next]_vars PROVE VInv'
  OBVIOUS
<1>1. clock \in Nat
  BY DEF IInv, TypeOK
<1>2. ASSUME memory' = memory, clock' \in Nat, clock <= clock' PROVE VInv'
  BY <1>2, MemorySame, TimesSame
<1>3. ASSUME NEW ids \in SUBSET Ids, memory' = AfterRedacting(ids), clock' = clock PROVE VInv'
  <2>1. /\ Ids' = Ids
        /\ \A id \in Ids : RowOf(id)' = IF id \in ids THEN Redacted(RowOf(id)) ELSE RowOf(id)
    BY <1>3, Redacting DEF IInv
  <2>2. \A id \in Ids : RowOf(id)'.created = RowOf(id).created
    BY <2>1, RowsAre, RedactedRow DEF IInv
  <2>. QED BY <1>1, <1>3, <2>1, <2>2, TimesSame
<1>4. ASSUME NEW p \in People, RememberWrite(p), memory' # memory PROVE VInv'
  <2>1. op[p].key \in Keys /\ clock' = clock
    BY <1>4 DEF IInv, OpFollows, RememberWrite, Becomes
  <2>2. PICK ttl \in Lifetimes : memory' = [memory EXCEPT ![op[p].key] = Append(@, NewRow(ttl))]
    BY <1>4 DEF RememberWrite
  <2>3. NewRow(ttl) \in Row /\ NewRow(ttl).created = clock
    BY <1>1, MemoryAssumption DEF NewRow, Row
  <2>. QED BY <2>1, <2>2, <2>3, TimesAppended
<1>5. ASSUME NEW p \in People, DeleteCommit(p) \/ PurgeCommit(p) PROVE VInv'
  <2>1. op[p].rows \in SUBSET Ids
    BY DEF IInv, TypeOK
  <2>. QED BY <1>3, <1>5, <2>1 DEF DeleteCommit, PurgeCommit
<1>6. CASE Tick
  BY <1>1, <1>2, <1>6 DEF Tick
<1>7. CASE memory' = memory /\ clock' = clock
  BY <1>1, <1>2, <1>7
<1>. QED
  BY <1>4, <1>5, <1>6, <1>7 DEF Next, vars, RememberRead, DeleteRedact, RememberWrite, IndexRead, Embed,
     IndexLock, IndexCommit, SemanticQuery, SemanticAnswer, TextSearch, HistorySearch, PurgeMark, Return, ChangeGrants

(* In every state versions are in the order of time.                        *)
LEMMA TimesInvariance == Spec => [](IInv /\ VInv)
<1>1. Init => VInv
  <2>1. ASSUME Init PROVE VInv
    <3>1. Ids = {}
      BY <2>1 DEF Init, Ids
    <3>. QED BY <3>1, FS_EmptySet DEF VInv, InOrder, Past
  <2>. QED BY <2>1
<1>. QED BY <1>1, InitHolds, Inductive, TimesInductive, PTL DEF Spec

(* A version is never stamped later than one after it, although remember()  *)
(* reads the greatest version in one statement and stamps its row in        *)
(* another.                                                                 *)
THEOREM VersionsInTime == Spec => []VersionsFollowTime
<1>1. IInv /\ VInv => VersionsFollowTime
  <2>1. ASSUME IInv, VInv, NEW k \in Keys, NEW v \in DOMAIN memory[k], NEW w \in DOMAIN memory[k], v < w
        PROVE  memory[k][v].created <= memory[k][w].created
    <3>1. v \in 1..Len(memory[k]) /\ w \in 1..Len(memory[k])
      BY <2>1, LenProperties DEF IInv, TypeOK
    <3>2. <<k, v>> \in Ids /\ <<k, w>> \in Ids
      BY <3>1, IdsAre DEF Id
    <3>. QED BY <2>1, <3>2 DEF VInv, InOrder, RowOf
  <2>. QED BY <2>1 DEF VersionsFollowTime
<1>. QED BY <1>1, TimesInvariance, PTL

(* The newest row that a text search looks at, of a key, is the latest      *)
(* version: if an older one is among the recent rows, so is the latest.     *)
LEMMA FirstIsLatest == ASSUME IInv, VInv, NEW a \in FirstOfKey PROVE a[2] = Len(memory[a[1]])
<1> SUFFICES ASSUME a[2] # Len(memory[a[1]]) PROVE FALSE
  OBVIOUS
<1> DEFINE last == <<a[1], Len(memory[a[1]])>>
           Before(b) == {c \in Ids : Newer(c, b)}
<1>1. a \in Ids /\ a \in Id /\ a[2] \in 1..Len(memory[a[1]]) /\ Len(memory[a[1]]) \in Nat
  BY IdsAre DEF FirstOfKey, Recent, IInv, TypeOK, Id
<1>2. last \in Ids /\ last[1] = a[1] /\ a[2] < last[2] /\ a[2] \in Nat /\ last[2] \in Nat
  BY <1>1, IdsAre DEF Id
<1>. HIDE DEF last
<1>3. \A id \in Ids : RowOf(id).created \in Nat /\ id[2] \in Nat
  <2>1. \A id \in Ids : RowOf(id).created \in Nat
    BY RowsAre DEF IInv, Row
  <2>2. \A id \in Ids : id[2] \in Nat
    BY IdsAre DEF Id
  <2>. QED BY <2>1, <2>2
<1>4. Newer(last, a)
  BY <1>1, <1>2, <1>3 DEF VInv, InOrder, Newer
<1>5. Before(last) \subseteq Before(a)
  BY <1>1, <1>2, <1>3, <1>4 DEF Newer
<1>6. IsFiniteSet(Before(a))
  BY FS_Subset DEF VInv
<1>7. /\ Cardinality(Before(last)) <= Cardinality(Before(a))
      /\ Cardinality(Before(last)) \in Nat /\ Cardinality(Before(a)) \in Nat
  <2>. HIDE DEF Before
  <2>. QED BY <1>5, <1>6, FS_Subset, FS_CardinalityType
<1>8. Cardinality(Before(a)) < Window
  BY DEF FirstOfKey, Recent
<1>9. last \in Recent
  <2>1. Cardinality(Before(last)) < Window
    <3>. HIDE DEF Before
    <3>. QED BY <1>7, <1>8, MemoryAssumption
  <2>. QED BY <1>2, <2>1 DEF Recent
<1>. QED BY <1>2, <1>4, <1>9 DEF FirstOfKey

(* An operation's record changes only in a step of its own person.          *)
OwnStep(p) ==
  \/ \E k \in Keys : RememberRead(p, k) \/ DeleteRedact(p, k)
  \/ RememberWrite(p) \/ DeleteCommit(p)
  \/ IndexRead(p) \/ Embed(p) \/ IndexLock(p) \/ IndexCommit(p)
  \/ SemanticQuery(p) \/ SemanticAnswer(p) \/ TextSearch(p) \/ HistorySearch(p)
  \/ PurgeMark(p) \/ PurgeCommit(p) \/ Return(p)

LEMMA OnlyOwnSteps == ASSUME IInv, Next, NEW p \in People PROVE OwnStep(p) \/ op'[p] = op[p]
<1>1. ASSUME NEW q \in People, OwnStep(q) PROVE \E r : op' = [op EXCEPT ![q] = r]
  BY <1>1 DEF OwnStep, RememberRead, DeleteRedact, RememberWrite, DeleteCommit, IndexRead, Embed, IndexLock,
     IndexCommit, SemanticQuery, SemanticAnswer, TextSearch, HistorySearch, PurgeMark, PurgeCommit, Return, Becomes
<1>2. ASSUME NEW q \in People, q # p, OwnStep(q) PROVE op'[p] = op[p]
  <2>1. PICK r : op' = [op EXCEPT ![q] = r]
    BY <1>1, <1>2
  <2>. QED BY <1>2, <2>1 DEF IInv, TypeOK
<1>3. CASE Tick \/ \E q \in People : ChangeGrants(q)
  BY <1>3 DEF Tick, ChangeGrants
<1>. QED BY <1>2, <1>3 DEF Next, OwnStep

(* Only a search answers.                                                   *)
LEMMA OwnMoves ==
  ASSUME IInv, NEW p \in People, OwnStep(p)
  PROVE  SemanticAnswer(p) \/ TextSearch(p) \/ op'[p].pc # "answered"
<1>1. op \in [People -> Op] /\ op[p] \in Op
  BY DEF IInv, TypeOK
<1>2. ASSUME NEW k \in Keys, RememberRead(p, k) PROVE op'[p].pc = "insert"
  BY <1>1, <1>2 DEF RememberRead, Becomes, Doing
<1>3. ASSUME NEW k \in Keys, DeleteRedact(p, k) PROVE op'[p].pc = "redacted"
  BY <1>1, <1>3 DEF DeleteRedact, Becomes, Doing
<1>4. ASSUME RememberWrite(p) \/ DeleteCommit(p) \/ PurgeCommit(p) \/ Return(p) PROVE op'[p].pc = "idle"
  BY <1>1, <1>4 DEF RememberWrite, DeleteCommit, PurgeCommit, Return, Becomes, Idle, Doing
<1>5. CASE IndexRead(p)
  BY <1>1, <1>5 DEF IndexRead, Becomes, Doing
<1>6. CASE Embed(p)
  BY <1>1, <1>6 DEF Embed, Becomes, Op
<1>7. CASE IndexCommit(p)
  <2>1. PICK r \in {Idle, [op[p] EXCEPT !.pc = "embed", !.batch = {}]} : op' = [op EXCEPT ![p] = r]
    BY <1>7 DEF IndexCommit, Becomes
  <2>2. op[p].pc = "indexing" /\ op'[p] = r
    BY <1>1, <1>7, <2>1 DEF IndexCommit, Becomes
  <2>3. r.pc \in {"idle", "embed"}
    BY <1>1, <2>1, IdleIs DEF Op
  <2>. QED BY <2>2, <2>3
<1>8. CASE SemanticQuery(p)
  BY <1>1, <1>8 DEF SemanticQuery, Becomes, Doing
<1>9. CASE PurgeMark(p)
  BY <1>1, <1>9 DEF PurgeMark, Becomes, Doing
<1>10. CASE IndexLock(p)
  BY <1>1, <1>10 DEF IndexLock, Becomes, Op
<1>11. CASE HistorySearch(p)
  BY <1>1, <1>11 DEF HistorySearch, Becomes, Doing
<1>. QED BY <1>2, <1>3, <1>4, <1>5, <1>6, <1>7, <1>8, <1>9, <1>10, <1>11 DEF OwnStep

(* search_memory and semantic search answer only the latest version of a    *)
(* key, neither redacted nor expired, whatever the window they look at.     *)
THEOREM SearchesAreCurrent == Spec => NeverStale
<1> DEFINE Current == \A p \in People : Answers(p) =>
             \A id \in op'[p].rows : id[2] = Len(memory[id[1]]) /\ Alive(id)
<1>1. IInv /\ VInv /\ [Next]_vars => [Current]_vars
  <2> SUFFICES ASSUME IInv, VInv, Next, NEW p \in People, Answers(p), NEW id \in op'[p].rows
               PROVE  id[2] = Len(memory[id[1]]) /\ Alive(id)
    BY DEF vars
  <2>1. op \in [People -> Op] /\ op[p].pc # "answered" /\ op'[p].pc = "answered"
    BY DEF IInv, TypeOK, Answers
  <2>2. CASE SemanticAnswer(p)
    BY <2>1, <2>2 DEF SemanticAnswer, Becomes, Doing, LatestAlive
  <2>3. CASE TextSearch(p)
    <3>1. id \in FirstOfKey /\ Alive(id)
      BY <2>1, <2>3 DEF TextSearch, Becomes, Doing
    <3>. QED BY <3>1, FirstIsLatest
  <2>4. SemanticAnswer(p) \/ TextSearch(p)
    <3>1. OwnStep(p)
      BY <2>1, OnlyOwnSteps
    <3>. QED BY <2>1, <3>1, OwnMoves
  <2>. QED BY <2>2, <2>3, <2>4
<1>. QED BY <1>1, TimesInvariance, PTL DEF Spec, NeverStale, Current
-----------------------------------------------------------------------------
(* What a purge has marked has expired.                                     *)
MarkedExpired == \A p \in People : op[p].pc = "marked" => \A id \in op[p].rows : Expired(id)

(* A step after which every row expires when it did, no sooner than now,    *)
(* and which marks nothing else.                                            *)
LEMMA MarksStay ==
  ASSUME IInv, MarkedExpired, \A id \in Ids : RowOf(id)'.expires = RowOf(id).expires,
         clock' \in Nat, clock <= clock',
         \A p \in People : op'[p].pc = "marked" =>
           \/ op[p].pc = "marked" /\ op'[p].rows = op[p].rows
           \/ op'[p].rows \subseteq {id \in Ids : Expired(id)}
  PROVE  MarkedExpired'
<1>1. ASSUME NEW id \in Ids, Expired(id) PROVE Expired(id)'
  <2>1. RowOf(id).expires \in Nat /\ clock \in Nat BY RowsAre DEF IInv, TypeOK, Row
  <2> QED BY <1>1, <2>1 DEF Expired
<1>2. ASSUME NEW p \in People, op'[p].pc = "marked", NEW id \in op'[p].rows
      PROVE  id \in Ids /\ Expired(id)
  BY <1>2 DEF MarkedExpired, IInv, TypeOK
<1> QED BY <1>1, <1>2 DEF MarkedExpired

(* A person's step that marks nothing.                                      *)
LEMMA NothingMarked ==
  ASSUME IInv, NEW p \in People, NEW r, op' = [op EXCEPT ![p] = r], r.pc # "marked", NEW q \in People
  PROVE  op'[q].pc = "marked" => op[q].pc = "marked" /\ op'[q].rows = op[q].rows
BY DEF IInv, TypeOK

(* The rows that a commit redacts expire when they did.                     *)
LEMMA RedactingKeepsTimes ==
  ASSUME IInv, NEW ids, memory' = AfterRedacting(ids)
  PROVE  \A id \in Ids : RowOf(id)'.expires = RowOf(id).expires
<1>1. \A id \in Ids : RowOf(id) \in Row /\ RowOf(id)' = IF id \in ids THEN Redacted(RowOf(id)) ELSE RowOf(id)
  BY RowsAre, Redacting DEF IInv
<1>2. \A row \in Row : Redacted(row).expires = row.expires BY DEF Row, Redacted
<1> QED BY <1>1, <1>2

LEMMA MarksInductive == ASSUME IInv, MarkedExpired, [Next]_vars PROVE MarkedExpired'
<1>1. clock \in Nat BY DEF IInv, TypeOK
<1>2. ASSUME memory' = memory PROVE \A id \in Ids : RowOf(id)'.expires = RowOf(id).expires
  BY <1>2 DEF RowOf
<1>3. ASSUME NEW p \in People, RememberWrite(p) PROVE MarkedExpired'
  <2>1. op[p].key \in Keys /\ clock' = clock /\ op' = [op EXCEPT ![p] = Idle]
    BY <1>3 DEF IInv, OpFollows, RememberWrite, Becomes
  <2>2. \A id \in Ids : RowOf(id)'.expires = RowOf(id).expires
    <3>1. CASE memory' = memory BY <1>2, <3>1
    <3>2. ASSUME NEW ttl \in Lifetimes, memory' = [memory EXCEPT ![op[p].key] = Append(@, NewRow(ttl))]
          PROVE  \A id \in Ids : RowOf(id)'.expires = RowOf(id).expires
      <4>1. NewRow(ttl) \in Row BY <1>1, MemoryAssumption DEF NewRow, Row
      <4> QED BY <2>1, <3>2, <4>1, Appending DEF IInv
    <3> QED BY <1>3, <3>1, <3>2 DEF RememberWrite
  <2> QED BY <1>1, <2>1, <2>2, IdleIs, NothingMarked, MarksStay
<1>4. ASSUME NEW p \in People, DeleteCommit(p) \/ PurgeCommit(p) PROVE MarkedExpired'
  <2>1. memory' = AfterRedacting(op[p].rows) /\ clock' = clock /\ op' = [op EXCEPT ![p] = Idle]
    BY <1>4 DEF DeleteCommit, PurgeCommit, Becomes
  <2> QED BY <1>1, <2>1, RedactingKeepsTimes, IdleIs, NothingMarked, MarksStay
<1>5. ASSUME NEW p \in People, PurgeMark(p) PROVE MarkedExpired'
  <2> DEFINE ids == {id \in Ids : Expired(id) /\ ~RowOf(id).deleted}
             r == [Doing("marked") EXCEPT !.rows = ids, !.at = clock]
  <2>1. op' = [op EXCEPT ![p] = r] /\ memory' = memory /\ clock' = clock
    BY <1>5 DEF PurgeMark, Becomes
  <2>2. r.rows = ids BY DEF Doing
  <2>3. op'[p].rows \subseteq {id \in Ids : Expired(id)} BY <2>1, <2>2 DEF IInv, TypeOK
  <2>4. \A q \in People \ {p} : op'[q] = op[q] BY <2>1 DEF IInv, TypeOK
  <2> QED BY <1>1, <1>2, <2>1, <2>3, <2>4, MarksStay
<1>6. op \in [People -> Op] BY DEF IInv, TypeOK
<1>7. ASSUME NEW p \in People, \A q \in People \ {p} : op'[q] = op[q], op'[p].pc # "marked",
             memory' = memory, clock' = clock
      PROVE  MarkedExpired'
  BY <1>1, <1>2, <1>7, MarksStay
<1>8. ASSUME NEW p \in People,
             \/ \E k \in Keys : RememberRead(p, k) \/ DeleteRedact(p, k)
             \/ IndexRead(p) \/ Embed(p) \/ IndexLock(p) \/ IndexCommit(p)
             \/ SemanticQuery(p) \/ SemanticAnswer(p) \/ TextSearch(p) \/ HistorySearch(p) \/ Return(p)
      PROVE  MarkedExpired'
  <2>1. /\ memory' = memory /\ clock' = clock
        /\ \A q \in People \ {p} : op'[q] = op[q]
    BY <1>6, <1>8
       DEF RememberRead, DeleteRedact, IndexRead, Embed, IndexLock, IndexCommit,
           SemanticQuery, SemanticAnswer, TextSearch, HistorySearch, Return, Becomes
  <2>2. op'[p].pc # "marked"
    <3>1. CASE \E k \in Keys : RememberRead(p, k) \/ DeleteRedact(p, k)
      BY <1>6, <3>1 DEF RememberRead, DeleteRedact, Becomes, Doing
    <3>2. CASE \/ IndexRead(p) \/ SemanticQuery(p) \/ SemanticAnswer(p)
               \/ TextSearch(p) \/ HistorySearch(p) \/ Return(p)
      BY <1>6, <3>2, IdleIs
         DEF IndexRead, SemanticQuery, SemanticAnswer, TextSearch, HistorySearch, Return, Becomes, Doing
    <3>3. ASSUME NEW pc, NEW batch PROVE [op[p] EXCEPT !.pc = pc, !.batch = batch].pc = pc
      <4>1. op[p] \in Op BY <1>6
      <4> QED BY <4>1 DEF Op
    <3>4. CASE Embed(p)
      <4>1. PICK batch : op' = [op EXCEPT ![p] = [op[p] EXCEPT !.pc = "embedded", !.batch = batch]]
        BY <3>4 DEF Embed, Becomes
      <4> QED BY <1>6, <3>3, <4>1
    <3>5. CASE IndexLock(p) BY <1>6, <3>5 DEF IndexLock, Becomes, Op
    <3>6. CASE IndexCommit(p)
      <4>1. CASE op' = [op EXCEPT ![p] = Idle] BY <1>6, <4>1, IdleIs
      <4>2. CASE op' = [op EXCEPT ![p] = [op[p] EXCEPT !.pc = "embed", !.batch = {}]]
        BY <1>6, <3>3, <4>2
      <4> QED BY <3>6, <4>1, <4>2 DEF IndexCommit, Becomes
    <3> QED BY <1>8, <3>1, <3>2, <3>4, <3>5, <3>6
  <2> QED BY <1>7, <2>1, <2>2
<1>9. ASSUME UNCHANGED <<memory, op>>, clock' \in Nat, clock <= clock' PROVE MarkedExpired'
  BY <1>2, <1>9, MarksStay
<1>10. ASSUME Tick \/ (\E p \in People : ChangeGrants(p)) \/ UNCHANGED vars PROVE MarkedExpired'
  BY <1>1, <1>9, <1>10 DEF Tick, ChangeGrants, vars
<1> QED BY <1>3, <1>4, <1>5, <1>8, <1>10 DEF Next

(* The row that an id stands for is kept, or redacted as it may be.         *)
Keeps(id) ==
  /\ id \in Ids'
  /\ \/ RowOf(id)' = RowOf(id)
     \/ /\ RowOf(id)' = Redacted(RowOf(id))
        /\ Expired(id) \/ \E p \in People : op[p].pc = "redacted" /\ op[p].key = id[1]

(* A version that two writers read as the next one is inserted by one of    *)
(* them, and nothing else writes to a row but a deletion and a purge.       *)
THEOREM HistoryStays == Spec => VersionsStay
<1> DEFINE Stay == \A k \in Keys : memory'[k] # memory[k] =>
             \A v \in DOMAIN memory[k] : KeepsVersion(k, v)
<1>1. ASSUME IInv, MarkedExpired, [Next]_vars, NEW id \in Ids PROVE Keeps(id)
  <2>1. CASE memory' = memory
    BY <1>1, <2>1, MemorySame DEF Keeps
  <2>2. ASSUME NEW p \in People, RememberWrite(p) PROVE Keeps(id)
    <3>1. op[p].key \in Keys BY <1>1, <2>2 DEF IInv, OpFollows, RememberWrite, Becomes
    <3>2. ASSUME NEW ttl \in Lifetimes, memory' = [memory EXCEPT ![op[p].key] = Append(@, NewRow(ttl))]
          PROVE  Keeps(id)
      <4>1. clock \in Nat BY <1>1 DEF IInv, TypeOK
      <4>2. NewRow(ttl) \in Row BY <4>1, MemoryAssumption DEF NewRow, Row
      <4> QED BY <1>1, <3>1, <3>2, <4>2, Appending DEF IInv, Keeps
    <3> QED BY <2>1, <2>2, <3>2 DEF RememberWrite
  <2>3. ASSUME NEW p \in People, DeleteCommit(p) \/ PurgeCommit(p) PROVE Keeps(id)
    <3>1. /\ memory' = AfterRedacting(op[p].rows)
          /\ op[p].pc = "redacted" \/ op[p].pc = "marked"
      BY <2>3 DEF DeleteCommit, PurgeCommit, Becomes
    <3>2. id \in Ids' /\ RowOf(id)' = IF id \in op[p].rows THEN Redacted(RowOf(id)) ELSE RowOf(id)
      BY <1>1, <3>1, Redacting DEF IInv
    <3>3. id \in op[p].rows => Expired(id) \/ (op[p].pc = "redacted" /\ op[p].key = id[1])
      BY <1>1, <3>1 DEF MarkedExpired, IInv, OpFollows
    <3> QED BY <3>2, <3>3 DEF Keeps
  <2> QED
    BY <1>1, <2>1, <2>2, <2>3
       DEF Next, vars, RememberRead, DeleteRedact, IndexRead, Embed, IndexLock, IndexCommit,
           SemanticQuery, SemanticAnswer, TextSearch, HistorySearch, PurgeMark, Return, ChangeGrants, Tick
<1>2. Init => MarkedExpired BY DEF Init, MarkedExpired, Idle, Doing
<1>3. IInv /\ MarkedExpired /\ [Next]_vars => MarkedExpired' BY MarksInductive
<1>4. IInv /\ MarkedExpired /\ [Next]_vars => [Stay]_vars
  <2> SUFFICES ASSUME IInv, MarkedExpired, [Next]_vars, NEW k \in Keys, NEW v \in DOMAIN memory[k]
               PROVE  KeepsVersion(k, v)
    OBVIOUS
  <2> DEFINE id == <<k, v>>
  <2>1. id[1] = k /\ id[2] = v OBVIOUS
  <2> HIDE DEF id
  <2>2. v \in 1..Len(memory[k]) BY DEF IInv, TypeOK
  <2>3. id \in Ids BY <2>1, <2>2, IdsAre DEF id, Id
  <2>4. Keeps(id) BY <1>1, <2>3
  <2>5. v \in 1..Len(memory'[k]) BY <2>4 DEF Keeps, Ids, id
  <2>6. memory' \in [Keys -> Seq(Row)] BY Inductive DEF IInv, TypeOK
  <2> QED BY <2>1, <2>4, <2>5, <2>6 DEF Keeps, KeepsVersion, RowOf, id
<1>. QED BY <1>2, <1>3, <1>4, Invariance, PTL DEF Spec, VersionsStay
=============================================================================
