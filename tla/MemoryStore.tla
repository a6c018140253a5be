---------------------------- MODULE MemoryStore ----------------------------
(* One namespace of the workspace memory: remember, search_memory and       *)
(* delete_memory of platform/service.py, and the semantic index, search and *)
(* retention of platform/memory.py.                                         *)
(*                                                                          *)
(* Every statement that other transactions can interleave with is an action *)
(* of its own.  A transaction's writes show when it commits; the rows it    *)
(* updated are locked until then, and a statement that updates a row waits  *)
(* for its lock.  SQLite serialises writers, which allows fewer behaviours. *)
(* All processes stamp rows from one clock, whose ticks may be coarser than *)
(* the operations.                                                          *)
EXTENDS Naturals, Sequences, FiniteSets

CONSTANTS
  Keys,           \* logical keys of the namespace
  NoKey,          \* the key of an operation on none in particular
  People,         \* who works on it, one operation at a time each
  Lifetimes,      \* the ttl a writer may ask for
  Window,         \* rows a search looks at (1000 in the code)
  BatchSize,      \* texts of one embedding request (4 in the code)
  MaxRows,        \* bound on the rows written
  MaxClock        \* bound on the clock

ASSUME MemoryAssumption ==
  /\ NoKey \notin Keys
  /\ Lifetimes \subseteq Nat /\ MaxRows \in Nat /\ MaxClock \in Nat
  /\ Window \in Nat \ {0} /\ BatchSize \in Nat \ {0}

VARIABLES
  memory,     \* nx_memory: the versions of each key, in order
  vectors,    \* nx_memory_vectors: the rows that have one
  granted,    \* who holds the grants to read and write the namespace
  op,         \* the operation each person is in
  clock

vars == <<memory, vectors, granted, op, clock>>

Row == [created : Nat, expires : Nat, deleted : BOOLEAN, text : {"text", ""}]
Id == Keys \X Nat
Ids == UNION {{<<k, v>> : v \in 1..Len(memory[k])} : k \in Keys}
RowOf(id) == memory[id[1]][id[2]]

Pc == {"idle", "insert", "redacted", "embed", "embedded", "indexing",
       "query", "answered", "history", "marked"}
Op == [pc : Pc, key : Keys \union {NoKey}, version : Nat, rows : SUBSET Id, batch : SUBSET Id, at : Nat]
Doing(pc) == [pc |-> pc, key |-> NoKey, version |-> 0, rows |-> {}, batch |-> {}, at |-> 0]
Idle == Doing("idle")

TypeOK ==
  /\ memory \in [Keys -> Seq(Row)]
  /\ vectors \subseteq Ids
  /\ granted \subseteq People
  /\ op \in [People -> Op]
  /\ \A p \in People : op[p].rows \subseteq Ids /\ op[p].batch \subseteq Ids
  /\ clock \in Nat

Init ==
  /\ memory = [k \in Keys |-> <<>>]
  /\ vectors = {}
  /\ granted = People
  /\ op = [p \in People |-> Idle]
  /\ clock = 1

Becomes(p, from, next) == op[p].pc = from /\ op' = [op EXCEPT ![p] = next]

LockedWithoutIndex(p) == IF op[p].pc \in {"redacted", "marked"} THEN op[p].rows ELSE {}

(* The rows a transaction has updated and not committed.                    *)
Locked(p) ==
  IF op[p].pc \in {"redacted", "marked"} THEN op[p].rows
  ELSE IF op[p].pc = "indexing" THEN op[p].batch ELSE {}
Free(p, ids) == \A q \in People \ {p} : Locked(q) \cap ids = {}

Expired(id) == RowOf(id).expires <= clock
Alive(id) == ~RowOf(id).deleted /\ ~Expired(id)

(* latest_query(): the greatest version of each key, if it is alive.        *)
LatestAlive == {id \in Ids : id[2] = Len(memory[id[1]]) /\ Alive(id)}

RedactedInPart(row) == [row EXCEPT !.deleted = TRUE, !.text = "expired"]

Redacted(row) == [row EXCEPT !.deleted = TRUE, !.text = ""]
AfterRedactingKeys(ids) ==
  [k \in Keys |-> [v \in DOMAIN memory[k] |->
     IF \E id \in ids : id[1] = k THEN Redacted(memory[k][v]) ELSE memory[k][v]]]

AfterRedacting(ids) ==
  [k \in Keys |-> [v \in DOMAIN memory[k] |->
     IF <<k, v>> \in ids THEN Redacted(memory[k][v]) ELSE memory[k][v]]]
-----------------------------------------------------------------------------
(* remember(): the greatest version is read, and one more is inserted.  The *)
(* unique constraint refuses a version another writer has inserted since.   *)
RememberRead(p, k) ==
  /\ p \in granted
  /\ Becomes(p, "idle", [Doing("insert") EXCEPT !.key = k, !.version = Len(memory[k]) + 1])
  /\ UNCHANGED <<memory, vectors, granted, clock>>

NewRow(ttl) == [created |-> clock, expires |-> clock + ttl, deleted |-> FALSE, text |-> "text"]

RememberUpsert(p) ==
  LET k == op[p].key IN
  /\ Becomes(p, "insert", Idle)
  /\ \E ttl \in Lifetimes :
       memory' = [memory EXCEPT ![k] =
         IF op[p].version = Len(@) + 1 THEN Append(@, NewRow(ttl))
         ELSE [@ EXCEPT ![op[p].version] = NewRow(ttl)]]
  /\ UNCHANGED <<vectors, granted, clock>>

RememberWrite(p) ==
  LET k == op[p].key IN
  /\ Becomes(p, "insert", Idle)
  /\ \/ /\ op[p].version = Len(memory[k]) + 1 /\ Cardinality(Ids) < MaxRows
        /\ \E ttl \in Lifetimes : memory' = [memory EXCEPT ![k] = Append(@, NewRow(ttl))]
     \/ /\ op[p].version <= Len(memory[k])
        /\ UNCHANGED memory
  /\ UNCHANGED <<vectors, granted, clock>>

(* delete_memory(): every version of the key is redacted, then the vectors  *)
(* of every version it has by then are removed, and both are committed.     *)
DeleteRedact(p, k) ==
  LET ids == {id \in Ids : id[1] = k} IN
  /\ p \in granted
  /\ ids # {} /\ Free(p, ids)
  /\ Becomes(p, "idle", [Doing("redacted") EXCEPT !.key = k, !.rows = ids])
  /\ UNCHANGED <<memory, vectors, granted, clock>>

DeleteCommit(p) ==
  /\ Becomes(p, "redacted", Idle)
  /\ memory' = AfterRedacting(op[p].rows)
  /\ vectors' = {id \in vectors : id[1] # op[p].key}
  /\ UNCHANGED <<granted, clock>>

(* index(): the rows without a vector, then for each batch an embedding     *)
(* request during which anything may happen, and a transaction that checks  *)
(* the person again and locks each row that is still alive.                 *)
IndexRead(p) ==
  /\ p \in granted
  /\ LatestAlive \ vectors # {}
  /\ Becomes(p, "idle", [Doing("embed") EXCEPT !.rows = LatestAlive \ vectors])
  /\ UNCHANGED <<memory, vectors, granted, clock>>

Embed(p) ==
  /\ \E batch \in SUBSET op[p].rows :
       /\ Cardinality(batch) <= BatchSize
       /\ Cardinality(batch) = BatchSize \/ batch = op[p].rows
       /\ Becomes(p, "embed", [op[p] EXCEPT !.pc = "embedded", !.batch = batch])
  /\ UNCHANGED <<memory, vectors, granted, clock>>

IndexLock(p) ==
  LET batch == op[p].batch IN
  /\ p \in granted
  /\ Free(p, batch)
  /\ Becomes(p, "embedded", [op[p] EXCEPT !.pc = "indexing", !.rows = @ \ batch,
                                          !.batch = {id \in batch : Alive(id)}])
  /\ UNCHANGED <<memory, vectors, granted, clock>>

IndexCommit(p) ==
  /\ \/ op[p].rows = {} /\ Becomes(p, "indexing", Idle)
     \/ op[p].rows # {} /\ Becomes(p, "indexing", [op[p] EXCEPT !.pc = "embed", !.batch = {}])
  /\ vectors' = vectors \union op[p].batch
  /\ UNCHANGED <<memory, granted, clock>>

(* search(): the query is embedded, then the person is checked again and    *)
(* the latest rows that have a vector are compared with it.                 *)
SemanticQuery(p) ==
  /\ p \in granted
  /\ Becomes(p, "idle", Doing("query"))
  /\ UNCHANGED <<memory, vectors, granted, clock>>

SemanticAnswer(p) ==
  /\ p \in granted
  /\ Becomes(p, "query", [Doing("answered") EXCEPT !.rows = LatestAlive \cap vectors])
  /\ UNCHANGED <<memory, vectors, granted, clock>>

(* search_memory(): the newest rows by creation, of which the first of each *)
(* key counts; only then are deletion and expiry looked at.                 *)
Newer(a, b) ==
  \/ RowOf(a).created > RowOf(b).created
  \/ RowOf(a).created = RowOf(b).created /\ a[2] > b[2]
Recent == {a \in Ids : Cardinality({b \in Ids : Newer(b, a)}) < Window}
FirstAliveOfKey ==
  {a \in Recent : Alive(a) /\ \A b \in Recent : a[1] = b[1] /\ Alive(b) => ~Newer(b, a)}

FirstOfKey == {a \in Recent : \A b \in Recent : a[1] = b[1] => ~Newer(b, a)}

TextSearch(p) ==
  /\ p \in granted
  /\ Becomes(p, "idle", [Doing("answered") EXCEPT !.rows = {id \in FirstOfKey : Alive(id)}])
  /\ UNCHANGED <<memory, vectors, granted, clock>>

(* With history older versions are answered too: the latest is not chosen   *)
(* among the recent rows.  What it shows is kept for no later step.         *)
HistorySearch(p) ==
  /\ p \in granted
  /\ Becomes(p, "idle", Doing("history"))
  /\ UNCHANGED <<memory, vectors, granted, clock>>

(* purge_expired(), an operator's command: what has expired is redacted,    *)
(* then the vectors go of everything redacted or expired when it began.     *)
PurgeMark(p) ==
  LET ids == {id \in Ids : Expired(id) /\ ~RowOf(id).deleted} IN
  /\ ids # {} /\ Free(p, ids)
  /\ Becomes(p, "idle", [Doing("marked") EXCEPT !.rows = ids, !.at = clock])
  /\ UNCHANGED <<memory, vectors, granted, clock>>

PurgeCommit(p) ==
  /\ Becomes(p, "marked", Idle)
  /\ memory' = AfterRedacting(op[p].rows)
  /\ vectors' = {id \in vectors : /\ id \notin op[p].rows
                                  /\ ~RowOf(id).deleted
                                  /\ RowOf(id).expires > op[p].at}
  /\ UNCHANGED <<granted, clock>>

(* The answer is sent; a provider or store fails, the person has lost the   *)
(* grants or the process dies, and what was not committed is rolled back.   *)
Return(p) ==
  /\ op[p].pc # "idle"
  /\ op' = [op EXCEPT ![p] = Idle]
  /\ UNCHANGED <<memory, vectors, granted, clock>>

ChangeGrants(p) ==
  /\ granted' = IF p \in granted THEN granted \ {p} ELSE granted \union {p}
  /\ UNCHANGED <<memory, vectors, op, clock>>

Tick ==
  /\ clock < MaxClock
  /\ clock' = clock + 1
  /\ UNCHANGED <<memory, vectors, granted, op>>

Next ==
  \/ \E p \in People :
       \/ \E k \in Keys : RememberRead(p, k) \/ DeleteRedact(p, k)
       \/ RememberWrite(p) \/ DeleteCommit(p)
       \/ IndexRead(p) \/ Embed(p) \/ IndexLock(p) \/ IndexCommit(p)
       \/ SemanticQuery(p) \/ SemanticAnswer(p) \/ TextSearch(p) \/ HistorySearch(p)
       \/ PurgeMark(p) \/ PurgeCommit(p) \/ Return(p) \/ ChangeGrants(p)
  \/ Tick

Spec == Init /\ [][Next]_vars
-----------------------------------------------------------------------------
(* Redacted text leaves no vector behind: neither a deletion nor retention  *)
(* that commits while an index waits for its provider can be undone by it.  *)
RedactedHasNoVector == \A id \in vectors : ~RowOf(id).deleted /\ RowOf(id).text = "text"

(* Creation times follow versions, although the version is read before the  *)
(* row is stamped; search_memory takes the newest version for the latest.   *)
VersionsFollowTime ==
  \A k \in Keys : \A v, w \in DOMAIN memory[k] :
    v < w => memory[k][v].created <= memory[k][w].created

Answers(p) == op[p].pc # "answered" /\ op'[p].pc = "answered"

(* No search without history resurfaces a stale version: what it answers is *)
(* the newest version of its key, neither redacted nor expired, even when a *)
(* newer version than the last one shown has been deleted or has expired.   *)
NeverStale ==
  [][\A p \in People : Answers(p) =>
       \A id \in op'[p].rows : id[2] = Len(memory[id[1]]) /\ Alive(id)]_vars

(* What was remembered stays as it was written, whoever writes the key at   *)
(* the same time, until it is redacted; and it is redacted only by who      *)
(* deletes its key, or once its time is over, however long the purge that   *)
(* marked it takes to commit.                                               *)
KeepsVersion(k, v) ==
  /\ v \in DOMAIN memory'[k]
  /\ \/ memory'[k][v] = memory[k][v]
     \/ /\ memory'[k][v] = Redacted(memory[k][v])
        /\ Expired(<<k, v>>) \/ \E p \in People : op[p].pc = "redacted" /\ op[p].key = k

VersionsStay ==
  [][\A k \in Keys : memory'[k] # memory[k] =>
       \A v \in DOMAIN memory[k] : KeepsVersion(k, v)]_vars
=============================================================================
