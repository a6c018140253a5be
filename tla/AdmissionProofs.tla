--------------------------- MODULE AdmissionProofs ---------------------------
(* Theorems about Admission, for any connections, keys, groups, rules and   *)
(* quotas: type correctness, the quota as admission keeps it, and what a    *)
(* lost race, a key, a group and an event mean to the clients.              *)
(*                                                                          *)
(* A transaction that has inserted missions holds the workspace's row, so   *)
(* that of two only one has missions to commit; and while one records an    *)
(* event, nobody else does.                                                 *)
EXTENDS Admission, FiniteSetTheorems, TLAPS

Tx == [pc : Steps, request : Request, todo : Seq(Run), new : SUBSET Run, got : SUBSET RunId,
       again : BOOLEAN]

(* The places where a transaction goes through its missions.                *)
InTx == {"find", "lock", "admit", "commit"}

UniqueIds(R) == \A r, s \in R : r.id = s.id => r = s
GroupIds(g) == {<<Submitter, GroupKey(g, i)>> : i \in 1..Assigned}
TodoIds(o) == {m.id : m \in Range(o.todo)}

(* The missions that a request is about.                                    *)
IdsHold(p, request, ids) ==
  /\ request.kind = "submit" => ids = {<<Submitter, request.key>>}
  /\ request.kind = "group" => ids = GroupIds(request.key)
  /\ request.kind = "event" =>
       \A id \in ids : \E r \in DOMAIN RuleOwner : id[2] = EventKey(request.key, p, r)

(* What a transaction has of them, among the committed rows and its own.    *)
Serves(p, o, R) ==
  /\ IdsHold(p, o.request, o.got \union TodoIds(o))
  /\ \A m \in Range(o.todo) : m.content = o.request.content
  /\ \A id \in o.got : [id |-> id, content |-> o.request.content] \in R \union o.new
  /\ \A row \in o.new : row.id \in o.got
  /\ o.pc \in {"lock", "admit"} => \A row \in o.new : row.id # Head(o.todo).id
  /\ o.pc = "commit" <=> o.todo = <<>>
  /\ IsFiniteSet(o.new) /\ UniqueIds(R \union o.new)

(* A submission at its second attempt has been overtaken.                   *)
Overtaken(o, R) ==
  o.request.kind = "submit" =>
    /\ o.pc # "failed"
    /\ o.again => /\ o.pc \in {"find", "commit"}
                  /\ \E row \in R : row.id = <<Submitter, o.request.key>>

TxHolds(p, o, R) ==
  /\ o.pc = "find group" => o.request.kind = "group" /\ o.new = {} /\ o.got = {}
  /\ o.pc = "record" => o.request.kind = "event"
  /\ o.pc \in InTx => Serves(p, o, R)
  /\ o.pc # "idle" => Overtaken(o, R)

(* Who has inserted something, or is about to, holds the row.               *)
Locks(p, o, h) == o.pc \in InTx /\ (o.new # {} \/ o.pc = "admit") => h = p

Records(o) == o.pc \in InTx /\ o.request.kind = "event"

Stored(ids, content) == \A id \in ids : [id |-> id, content |-> content] \in runs

AnswerHolds(a) ==
  /\ Stored(a.runs, a.request.content)
  /\ a.request.kind = "submit" => a.runs = {<<Submitter, a.request.key>>}
  /\ a.request.kind = "group" =>
       \E g \in groups : g.key = a.request.key /\ g.content = a.request.content /\ g.runs = a.runs
  /\ a.request.kind = "event" =>
       \E x \in inbox : x.key = a.request.key /\ x.content = a.request.content /\ x.runs = a.runs

RowHolds(row) ==
  /\ \A g \in Groups : \A i \in 1..Assigned :
       row.id[2] = GroupKey(g, i) =>
         \/ \E x \in groups : x.key = g
         \/ \E a \in accepted : a.request.kind = "submit" /\ row.id \in a.runs
  /\ \A e \in Events, p \in Clients, r \in DOMAIN RuleOwner :
       row.id[2] = EventKey(e, p, r) => \E x \in inbox : x.key = e /\ x.by = p /\ row.id \in x.runs

RowsHold ==
  /\ IsFiniteSet(runs) /\ UniqueIds(runs)
  /\ \A row \in runs : RowHolds(row)

GroupsHold ==
  /\ \A g \in groups : g.runs = GroupIds(g.key) /\ Stored(g.runs, g.content)
  /\ \A g, h \in groups : g.key = h.key => g = h

InboxHolds ==
  /\ \A x \in inbox : Stored(x.runs, x.content)
  /\ \A x, y \in inbox : x.key = y.key => x = y

RecordsHold ==
  /\ \A p, q \in Clients : p # q /\ Records(tx[p]) /\ Records(tx[q]) => tx[p].request.key # tx[q].request.key
  /\ \A p \in Clients : Records(tx[p]) => \A x \in inbox : x.key # tx[p].request.key

TablesTyped ==
  /\ runs \subseteq Run
  /\ settled \subseteq {row.id : row \in runs}
  /\ held \subseteq settled
  /\ groups \subseteq [key : Groups, content : Contents, runs : SUBSET RunId]
  /\ inbox \subseteq [key : Events, by : Clients, content : Contents, runs : SUBSET RunId]
  /\ rules \subseteq DOMAIN RuleOwner /\ enabled \subseteq Users
  /\ holder \in Clients \union {Nobody}
  /\ tx \in [Clients -> Tx \union {Idle}]
  /\ accepted \subseteq [request : Request, runs : SUBSET RunId]

ClientsHold == \A p \in Clients : TxHolds(p, tx[p], runs) /\ Locks(p, tx[p], holder)

IInv ==
  /\ TablesTyped /\ ClientsHold /\ RecordsHold
  /\ RowsHold /\ GroupsHold /\ InboxHolds /\ \A a \in accepted : AnswerHolds(a)
-----------------------------------------------------------------------------
(* An idle connection is in no transaction.                                 *)
LEMMA IdleHolds ==
  /\ Idle.pc = "idle" /\ Idle.pc \notin InTx /\ Idle \notin Tx
  /\ \A p, R : TxHolds(p, Idle, R)
  /\ \A p, h : Locks(p, Idle, h)
  /\ ~Records(Idle)
<1>1. Idle.pc = "idle" BY DEF Idle
<1>2. Idle.pc \notin InTx BY <1>1 DEF InTx
<1>3. Idle \notin Tx BY <1>1 DEF Tx, Steps
<1> QED BY <1>1, <1>2, <1>3 DEF TxHolds, Locks, Records

(* The elements of a sequence are its first and those of the rest.          *)
LEMMA HeadAndTail ==
  ASSUME NEW S, NEW s \in Seq(S), s # <<>>
  PROVE  /\ Head(s) \in S /\ Tail(s) \in Seq(S)
         /\ Range(s) = {Head(s)} \union Range(Tail(s)) /\ Range(s) \subseteq S
         /\ Len(s) = 1 <=> Tail(s) = <<>>
<1>1. Len(s) \in Nat /\ Len(s) >= 1 /\ DOMAIN s = 1..Len(s) OBVIOUS
<1>2. Head(s) = s[1] /\ Head(s) \in S BY <1>1
<1>3. Tail(s) \in Seq(S) /\ Len(Tail(s)) = Len(s) - 1 /\ DOMAIN Tail(s) = 1..(Len(s) - 1) BY <1>1
<1>4. \A i \in 1..(Len(s) - 1) : Tail(s)[i] = s[i + 1] BY <1>1
<1>5. ASSUME NEW x \in Range(s) PROVE x \in {Head(s)} \union Range(Tail(s)) /\ x \in S
  <2>1. PICK i \in 1..Len(s) : x = s[i] BY <1>1 DEF Range
  <2>2. CASE i = 1
    <3>1. x = Head(s) BY <1>2, <2>1, <2>2
    <3> QED BY <1>2, <3>1
  <2>3. CASE i # 1
    <3>1. i - 1 \in 1..(Len(s) - 1) BY <1>1, <2>3
    <3>2. Tail(s)[i - 1] = s[i] BY <1>4, <2>1, <3>1
    <3>3. x \in Range(Tail(s)) BY <1>3, <2>1, <3>1, <3>2 DEF Range
    <3>4. x \in S BY <2>1
    <3> QED BY <3>3, <3>4
  <2> QED BY <2>2, <2>3
<1>6. ASSUME NEW x \in Range(Tail(s)) PROVE x \in Range(s)
  <2>1. PICK i \in 1..(Len(s) - 1) : x = Tail(s)[i] BY <1>3 DEF Range
  <2>2. i + 1 \in 1..Len(s) /\ x = s[i + 1] BY <1>1, <1>4, <2>1
  <2> QED BY <1>1, <2>2 DEF Range
<1>7. Head(s) \in Range(s) BY <1>1, <1>2 DEF Range
<1>8. ASSUME NEW e \in Seq(S) PROVE Len(e) = 0 <=> e = <<>> OBVIOUS
<1>9. Len(s) = 1 <=> Tail(s) = <<>>
  <2> DEFINE rest == Tail(s)
  <2>1. Len(rest) = 0 <=> rest = <<>> BY <1>3, <1>8
  <2>2. Len(rest) = Len(s) - 1 BY <1>3
  <2> HIDE DEF rest
  <2>3. Len(s) = 1 <=> rest = <<>> BY <1>1, <2>1, <2>2
  <2> QED BY <2>3 DEF rest
<1> QED BY <1>2, <1>3, <1>5, <1>6, <1>7, <1>9

(* Nothing is in the empty sequence.                                        *)
LEMMA EmptyRange == \A S : <<>> \in Seq(S) /\ Range(<<>>) = {}
BY DEF Range

(* Keys of clients, groups and events differ.                               *)
LEMMA KeysDiffer ==
  /\ \A g, i, e, p, r : GroupKey(g, i) # EventKey(e, p, r)
  /\ \A k \in SubmitKeys : \A e, p, r : k # EventKey(e, p, r)
  /\ \A g, i, h, j : GroupKey(g, i) = GroupKey(h, j) => g = h /\ i = j
  /\ \A e, p, r, f, q, s : EventKey(e, p, r) = EventKey(f, q, s) => e = f /\ p = q /\ r = s
BY DEF GroupKey, EventKey, SubmitKeys

(* The missions of a submission or a group, and their keys.                 *)
LEMMA MissionsHold ==
  ASSUME NEW request \in Request, request.kind # "event"
  PROVE  /\ Missions(request) \in Seq(Run) /\ Missions(request) # <<>>
         /\ \A m \in Range(Missions(request)) : m.content = request.content
         /\ \A p : IdsHold(p, request, {m.id : m \in Range(Missions(request))})
<1>1. CASE request.kind = "submit"
  <2> DEFINE m == [id |-> <<Submitter, request.key>>, content |-> request.content]
  <2>1. request.key \in SubmitKeys /\ request.content \in Contents BY <1>1 DEF Request
  <2>2. m \in Run BY <2>1, AdmissionAssumption DEF Run, RunId, RunKeys
  <2>3. Missions(request) = <<m>> BY <1>1 DEF Missions
  <2> HIDE DEF m
  <2>4. <<m>> \in Seq(Run) /\ <<m>> # <<>> /\ Range(<<m>>) = {m} BY <2>2 DEF Range
  <2>5. m.id = <<Submitter, request.key>> /\ m.content = request.content BY DEF m
  <2> QED BY <1>1, <2>3, <2>4, <2>5 DEF IdsHold
<1>2. CASE request.kind = "group"
  <2> DEFINE m(i) == [id |-> <<Submitter, GroupKey(request.key, i)>>, content |-> request.content]
             s == [i \in 1..Assigned |-> m(i)]
  <2>1. request.key \in Groups /\ request.content \in Contents BY <1>2 DEF Request
  <2>2. \A i \in 1..Assigned : m(i) \in Run
    BY <2>1, AdmissionAssumption DEF Run, RunId, RunKeys
  <2>3. Missions(request) = s BY <1>2 DEF Missions
  <2>4. \A i \in 1..Assigned : m(i).id = <<Submitter, GroupKey(request.key, i)>> /\ m(i).content = request.content
    OBVIOUS
  <2> HIDE DEF m
  <2>5. Assigned \in Nat /\ Assigned >= 1 BY AdmissionAssumption
  <2>6. s \in Seq(Run) /\ Len(s) = Assigned BY <2>2, <2>5
  <2>7. Range(s) = {m(i) : i \in 1..Assigned} BY <2>5 DEF Range
  <2>8. s # <<>> BY <2>5, <2>6
  <2>9. {n.id : n \in Range(s)} = GroupIds(request.key)
    <3>1. ASSUME NEW i \in 1..Assigned PROVE m(i) \in Range(s) /\ m(i).id \in GroupIds(request.key)
      BY <2>4, <2>7 DEF GroupIds
    <3>2. \A id \in GroupIds(request.key) : \E i \in 1..Assigned : id = m(i).id BY <2>4 DEF GroupIds
    <3>3. \A n \in Range(s) : \E i \in 1..Assigned : n = m(i) BY <2>7
    <3> HIDE DEF s
    <3>4. {n.id : n \in Range(s)} \subseteq GroupIds(request.key) BY <3>1, <3>3
    <3>5. GroupIds(request.key) \subseteq {n.id : n \in Range(s)} BY <3>1, <3>2
    <3> QED BY <3>4, <3>5
  <2>10. \A n \in Range(s) : n.content = request.content BY <2>4, <2>7
  <2> HIDE DEF s
  <2> QED BY <1>2, <2>3, <2>6, <2>8, <2>9, <2>10 DEF IdsHold
<1> QED BY <1>1, <1>2 DEF Request

(* The initial state satisfies the invariant.                               *)
LEMMA InitInv == Init => IInv
<1> SUFFICES ASSUME Init PROVE IInv OBVIOUS
<1>1. /\ runs = {} /\ settled = {} /\ held = {} /\ groups = {} /\ inbox = {}
      /\ rules = DOMAIN RuleOwner /\ enabled = Users /\ holder = Nobody
      /\ tx = [p \in Clients |-> Idle] /\ accepted = {}
  BY DEF Init
<1>2. TablesTyped BY <1>1 DEF TablesTyped
<1>3. ClientsHold BY <1>1, IdleHolds DEF ClientsHold
<1>4. RecordsHold BY <1>1, IdleHolds DEF RecordsHold
<1>6. RowsHold BY <1>1, FS_EmptySet DEF RowsHold, UniqueIds
<1>7. GroupsHold /\ InboxHolds /\ \A a \in accepted : AnswerHolds(a)
  BY <1>1 DEF GroupsHold, InboxHolds
<1> QED BY <1>2, <1>3, <1>4, <1>6, <1>7 DEF IInv

(* What must be shown of a step of one connection that commits nothing.     *)
LEMMA ClientStep ==
  ASSUME IInv, NEW p \in Clients, NEW next \in Tx \union {Idle}, Goes(p, next),
         UNCHANGED <<tables, people>>,
         TxHolds(p, next, runs), Locks(p, next, holder'),
         holder' \in Clients \union {Nobody}, holder \notin {Nobody, p} => holder' = holder,
         Records(next) => /\ \A q \in Clients \ {p} : Records(tx[q]) => tx[q].request.key # next.request.key
                          /\ \A x \in inbox : x.key # next.request.key,
         accepted \subseteq accepted', accepted' \subseteq [request : Request, runs : SUBSET RunId],
         \A a \in accepted' : AnswerHolds(a)
  PROVE  IInv'
<1>1. /\ runs' = runs /\ settled' = settled /\ held' = held
      /\ groups' = groups /\ inbox' = inbox /\ rules' = rules /\ enabled' = enabled
  BY DEF tables, activity, people
<1>2. tx \in [Clients -> Tx \union {Idle}] BY DEF IInv, TablesTyped
<1>3. tx' = [tx EXCEPT ![p] = next] BY DEF Goes
<1>4. tx' \in [Clients -> Tx \union {Idle}] /\ tx'[p] = next /\ \A q \in Clients \ {p} : tx'[q] = tx[q]
  BY <1>2, <1>3
<1>5. TablesTyped' BY <1>1, <1>4 DEF IInv, TablesTyped
<1>7. ASSUME NEW q \in Clients PROVE TxHolds(q, tx'[q], runs') /\ Locks(q, tx'[q], holder')
  <2>1. CASE q = p BY <1>1, <1>4, <2>1
  <2>2. CASE q # p
    <3>1. tx'[q] = tx[q] /\ TxHolds(q, tx[q], runs) /\ Locks(q, tx[q], holder)
      BY <1>4, <2>2 DEF IInv, ClientsHold
    <3>2. holder = q => holder' = q BY <2>2, AdmissionAssumption
    <3>3. Locks(q, tx[q], holder') BY <3>1, <3>2 DEF Locks
    <3> QED BY <1>1, <3>1, <3>3
  <2> QED BY <2>1, <2>2
<1>8. ClientsHold' BY <1>7 DEF ClientsHold
<1>9. RecordsHold' BY <1>1, <1>4 DEF IInv, RecordsHold
<1>10. RowsHold'
  <2>1. ASSUME NEW row \in runs PROVE RowHolds(row)'
    <3>1. RowHolds(row) BY DEF IInv, RowsHold
    <3> QED BY <1>1, <3>1 DEF RowHolds
  <2> QED BY <1>1, <2>1 DEF IInv, RowsHold
<1>11. GroupsHold' /\ InboxHolds' BY <1>1 DEF IInv, GroupsHold, InboxHolds, Stored
<1>12. \A a \in accepted' : AnswerHolds(a)' BY <1>1 DEF AnswerHolds, Stored
<1> QED BY <1>5, <1>8, <1>9, <1>10, <1>11, <1>12 DEF IInv

(* What an invariant state holds of a connection that is not idle.          *)
LEMMA Relies ==
  ASSUME IInv, NEW p \in Clients
  PROVE  /\ tx[p] \in Tx \union {Idle} /\ (tx[p].pc # "idle" => tx[p] \in Tx)
         /\ TxHolds(p, tx[p], runs) /\ Locks(p, tx[p], holder)
         /\ holder \in Clients \union {Nobody}
         /\ Records(tx[p]) =>
              /\ \A q \in Clients \ {p} : Records(tx[q]) => tx[q].request.key # tx[p].request.key
              /\ \A x \in inbox : x.key # tx[p].request.key
<1>1. tx[p] \in Tx \union {Idle} /\ (tx[p].pc # "idle" => tx[p] \in Tx)
  BY IdleHolds DEF IInv, TablesTyped
<1>2. TxHolds(p, tx[p], runs) /\ Locks(p, tx[p], holder) BY DEF IInv, ClientsHold
<1>3. holder \in Clients \union {Nobody} BY DEF IInv, TablesTyped
<1> QED BY <1>1, <1>2, <1>3 DEF IInv, RecordsHold

(* Nothing is answered.                                                     *)
LEMMA Unanswered ==
  ASSUME IInv, UNCHANGED accepted
  PROVE  /\ accepted \subseteq accepted' /\ accepted' \subseteq [request : Request, runs : SUBSET RunId]
         /\ \A a \in accepted' : AnswerHolds(a)
BY DEF IInv, TablesTyped

(* A lock that is let go was the connection's own, or another's.            *)
LEMMA ReleasedHolds ==
  ASSUME IInv, NEW p \in Clients, holder' = Released(p)
  PROVE  holder' \in Clients \union {Nobody} /\ (holder \notin {Nobody, p} => holder' = holder)
BY DEF Released, IInv, TablesTyped

(* A request that ends leaves nothing behind.                               *)
LEMMA RollBackKeeps ==
  ASSUME IInv, NEW p \in Clients, RollBack(p), UNCHANGED <<tables, people>>,
         accepted \subseteq accepted', accepted' \subseteq [request : Request, runs : SUBSET RunId],
         \A a \in accepted' : AnswerHolds(a)
  PROVE  IInv'
<1>1. Goes(p, Idle) /\ holder' = Released(p) BY DEF RollBack
<1>2. TxHolds(p, Idle, runs) /\ Locks(p, Idle, holder') /\ ~Records(Idle) BY IdleHolds
<1>3. holder' \in Clients \union {Nobody} /\ (holder \notin {Nobody, p} => holder' = holder)
  BY <1>1, ReleasedHolds
<1> QED BY <1>1, <1>2, <1>3, ClientStep

(* A failed or abandoned request.                                           *)
LEMMA AbandonKeeps == ASSUME IInv, NEW p \in Clients, Abandon(p) PROVE IInv'
BY RollBackKeeps, Unanswered DEF Abandon

(* A transaction that has got nothing serves its request.                   *)
LEMMA BeginsToServe ==
  ASSUME IInv, NEW p \in Clients, NEW o, o.new = {}, o.got = {}, o.pc \in {"find", "commit"},
         o.pc = "commit" <=> o.todo = <<>>,
         IdsHold(p, o.request, {m.id : m \in Range(o.todo)}),
         \A m \in Range(o.todo) : m.content = o.request.content, Overtaken(o, runs)
  PROVE  TxHolds(p, o, runs)
<1>1. IdsHold(p, o.request, o.got \union TodoIds(o))
  <2>1. o.got \union TodoIds(o) = {m.id : m \in Range(o.todo)} BY DEF TodoIds
  <2> QED BY <2>1
<1>2. runs \union o.new = runs OBVIOUS
<1>3. IsFiniteSet(o.new) /\ UniqueIds(runs \union o.new)
  BY <1>2, FS_EmptySet DEF IInv, RowsHold
<1>4. Serves(p, o, runs) BY <1>1, <1>3 DEF Serves
<1> QED BY <1>4 DEF TxHolds

(* A client submits a mission.                                              *)
LEMMA BeginSubmitKeeps ==
  ASSUME IInv, NEW p \in Clients, NEW request \in Request, BeginSubmit(p, request)
  PROVE  IInv'
<1> DEFINE todo == Missions(request)
           o == Serving(request, "find", todo)
<1>1. /\ request.kind = "submit" /\ Goes(p, o) /\ UNCHANGED <<tables, people, holder, accepted>>
  BY DEF BeginSubmit
<1>2. /\ todo \in Seq(Run) /\ todo # <<>> /\ \A m \in Range(todo) : m.content = request.content
      /\ IdsHold(p, request, {m.id : m \in Range(todo)})
  BY <1>1, MissionsHold
<1> HIDE DEF todo
<1>3. /\ o \in Tx /\ o.pc = "find" /\ o.request = request /\ o.todo = todo /\ o.new = {} /\ o.got = {}
      /\ o.again = FALSE
  <2>1. "find" \in Steps BY DEF Steps
  <2> QED BY <1>2, <2>1 DEF Serving, Tx
<1> HIDE DEF o
<1>4. TxHolds(p, o, runs)
  <2>1. Overtaken(o, runs) BY <1>3 DEF Overtaken
  <2> QED BY <1>2, <1>3, <2>1, BeginsToServe
<1>5. Locks(p, o, holder') /\ ~Records(o) BY <1>1, <1>3 DEF Locks, Records
<1>6. holder' \in Clients \union {Nobody} BY <1>1 DEF IInv, TablesTyped
<1> QED BY <1>1, <1>3, <1>4, <1>5, <1>6, Unanswered, ClientStep

(* A client submits a group.                                                *)
LEMMA BeginGroupKeeps ==
  ASSUME IInv, NEW p \in Clients, NEW request \in Request, BeginGroup(p, request)
  PROVE  IInv'
<1> DEFINE o == Serving(request, "find group", <<>>)
<1>1. /\ request.kind = "group" /\ Goes(p, o) /\ UNCHANGED <<tables, people, accepted>>
      /\ holder = Nobody /\ holder' = p
  BY DEF BeginGroup
<1>2. o \in Tx /\ o.pc = "find group" /\ o.request = request /\ o.new = {} /\ o.got = {}
  <2>1. "find group" \in Steps /\ <<>> \in Seq(Run) BY DEF Steps
  <2> QED BY <2>1 DEF Serving, Tx
<1> HIDE DEF o
<1>3. TxHolds(p, o, runs) /\ Locks(p, o, holder') /\ ~Records(o)
  BY <1>1, <1>2 DEF TxHolds, Overtaken, Locks, Records, InTx
<1> QED BY <1>1, <1>2, <1>3, Unanswered, ClientStep

(* An answer is added.                                                      *)
LEMMA OneMoreAnswer ==
  ASSUME IInv, NEW request \in Request, NEW ids \in SUBSET RunId, Answered(request, ids),
         AnswerHolds([request |-> request, runs |-> ids])
  PROVE  /\ accepted \subseteq accepted' /\ accepted' \subseteq [request : Request, runs : SUBSET RunId]
         /\ \A a \in accepted' : AnswerHolds(a)
BY DEF IInv, TablesTyped, Answered

(* The group's key is looked for.                                           *)
LEMMA FindGroupKeeps == ASSUME IInv, NEW p \in Clients, FindGroup(p) PROVE IInv'
<1> DEFINE request == tx[p].request
<1>1. /\ tx[p] \in Tx /\ request \in Request /\ request.kind = "group"
      /\ tx[p].pc = "find group" /\ UNCHANGED <<tables, people>>
  BY Relies DEF FindGroup, At, Tx, TxHolds
<1>2. CASE /\ {g \in groups : g.key = request.key} = {}
           /\ Goes(p, [tx[p] EXCEPT !.pc = "find", !.todo = Missions(request)])
           /\ UNCHANGED <<holder, accepted>>
  <2> DEFINE todo == Missions(request)
             o == [tx[p] EXCEPT !.pc = "find", !.todo = todo]
  <2>1. /\ todo \in Seq(Run) /\ todo # <<>> /\ \A m \in Range(todo) : m.content = request.content
        /\ IdsHold(p, request, {m.id : m \in Range(todo)})
    BY <1>1, MissionsHold
  <2> HIDE DEF todo
  <2>2. o \in Tx BY <1>1, <2>1 DEF Tx, Steps
  <2>3. o.pc = "find" /\ o.request = request /\ o.todo = todo /\ o.new = {} /\ o.got = {}
    BY <1>1, Relies DEF Tx, TxHolds
  <2>4. Goes(p, o) /\ UNCHANGED <<holder, accepted>> BY <1>2 DEF todo
  <2> HIDE DEF o
  <2>8. Overtaken(o, runs) BY <1>1, <2>3 DEF Overtaken
  <2>5. TxHolds(p, o, runs) BY <2>1, <2>3, <2>8, BeginsToServe
  <2>6. Locks(p, o, holder') /\ ~Records(o) BY <1>1, <2>3 DEF Locks, Records
  <2>7. holder' \in Clients \union {Nobody} BY <2>4 DEF IInv, TablesTyped
  <2> QED BY <1>1, <2>2, <2>4, <2>5, <2>6, <2>7, Unanswered, ClientStep
<1>3. ASSUME NEW g \in groups, g.key = request.key, RollBack(p),
             IF g.content = request.content THEN Answered(request, g.runs) ELSE UNCHANGED accepted
      PROVE  IInv'
  <2>1. CASE g.content # request.content BY <1>1, <1>3, <2>1, Unanswered, RollBackKeeps
  <2>2. CASE g.content = request.content
    <3>1. g.runs \in SUBSET RunId BY DEF IInv, TablesTyped
    <3>2. Stored(g.runs, request.content) BY <2>2 DEF IInv, GroupsHold
    <3>3. AnswerHolds([request |-> request, runs |-> g.runs])
      BY <1>1, <1>3, <2>2, <3>2 DEF AnswerHolds
    <3> QED BY <1>1, <1>3, <2>2, <3>1, <3>3, OneMoreAnswer, RollBackKeeps
  <2> QED BY <2>1, <2>2
<1> QED BY <1>2, <1>3 DEF FindGroup

(* An event is looked for.                                                  *)
LEMMA FindEventKeeps ==
  ASSUME IInv, NEW p \in Clients, NEW request \in Request, FindEvent(p, request)
  PROVE  IInv'
<1>1. request.kind = "event" /\ tx[p].pc = "idle" /\ UNCHANGED <<tables, people, holder>>
  BY DEF FindEvent, At
<1>2. CASE Goes(p, Serving(request, "record", <<>>)) /\ UNCHANGED accepted
  <2> DEFINE o == Serving(request, "record", <<>>)
  <2>1. o \in Tx /\ o.pc = "record" /\ o.request = request
    <3>1. "record" \in Steps /\ <<>> \in Seq(Run) BY DEF Steps
    <3> QED BY <3>1 DEF Serving, Tx
  <2> HIDE DEF o
  <2>2. TxHolds(p, o, runs) /\ Locks(p, o, holder') /\ ~Records(o)
    BY <1>1, <2>1 DEF TxHolds, Overtaken, Locks, Records, InTx
  <2>3. holder' \in Clients \union {Nobody} BY <1>1 DEF IInv, TablesTyped
  <2> QED BY <1>1, <1>2, <2>1, <2>2, <2>3, Unanswered, ClientStep DEF o
<1>3. ASSUME NEW x \in inbox, x.key = request.key, x.content = request.content,
             Answered(request, x.runs), UNCHANGED tx
      PROVE  IInv'
  <2>1. x.runs \in SUBSET RunId BY DEF IInv, TablesTyped
  <2>2. Stored(x.runs, request.content) BY <1>3 DEF IInv, InboxHolds
  <2>3. AnswerHolds([request |-> request, runs |-> x.runs])
    BY <1>1, <1>3, <2>2 DEF AnswerHolds
  <2>4. /\ accepted \subseteq accepted' /\ accepted' \subseteq [request : Request, runs : SUBSET RunId]
        /\ \A a \in accepted' : AnswerHolds(a)
    BY <1>3, <2>1, <2>3, OneMoreAnswer
  <2>5. tx[p] \in Tx \union {Idle} /\ Goes(p, tx[p])
    BY <1>3, Relies DEF Goes, IInv, TablesTyped
  <2>6. /\ TxHolds(p, tx[p], runs) /\ Locks(p, tx[p], holder') /\ ~Records(tx[p])
        /\ holder' \in Clients \union {Nobody}
    BY <1>1, Relies DEF Records, InTx
  <2> QED BY <1>1, <2>4, <2>5, <2>6, ClientStep
<1> QED BY <1>2, <1>3 DEF FindEvent

(* Some order of an event's missions is a sequence of missions.             *)
LEMMA RuleMissionsHold ==
  ASSUME IInv, NEW p \in Clients, NEW request \in Request, request.kind = "event",
         NEW todo \in SetToSeqs(RuleMissions(p, request))
  PROVE  /\ todo \in Seq(Run)
         /\ \A m \in Range(todo) : m.content = request.content
         /\ IdsHold(p, request, {m.id : m \in Range(todo)})
<1> DEFINE S == RuleMissions(p, request)
           m(r) == [id |-> <<RuleOwner[r], EventKey(request.key, p, r)>>, content |-> request.content]
           f == [r \in rules |-> m(r)]
<1>1. rules \subseteq DOMAIN RuleOwner BY DEF IInv, TablesTyped
<1>2. IsFiniteSet(rules) BY <1>1, AdmissionAssumption, FS_Subset
<1>3. S = {m(r) : r \in rules} BY DEF RuleMissions
<1>4. \A r \in rules : m(r) \in Run /\ m(r).content = request.content /\ m(r).id[2] = EventKey(request.key, p, r)
  <2>1. request.key \in Events /\ request.content \in Contents BY DEF Request
  <2> QED BY <1>1, <2>1, AdmissionAssumption DEF Run, RunId, RunKeys
<1> HIDE DEF m, S
<1>5. f \in Surjection(rules, S) BY <1>3 DEF Surjection
<1>6. IsFiniteSet(S) BY <1>2, <1>5, FS_Surjection
<1>7. Cardinality(S) \in Nat BY <1>6, FS_CardinalityType
<1>8. todo \in [1..Cardinality(S) -> S] BY DEF SetToSeqs, S
<1>9. S \subseteq Run BY <1>3, <1>4
<1>10. todo \in Seq(Run) BY <1>7, <1>8, <1>9
<1>11. \A n \in Range(todo) : n \in S BY <1>8 DEF Range
<1>12. \A n \in Range(todo) : \E r \in rules : n = m(r) BY <1>3, <1>11
<1>13. \A n \in Range(todo) : n.content = request.content BY <1>4, <1>12
<1>14. IdsHold(p, request, {n.id : n \in Range(todo)}) BY <1>1, <1>4, <1>12 DEF IdsHold
<1> QED BY <1>10, <1>13, <1>14

(* The event is recorded, if nobody else has recorded it.                   *)
LEMMA InsertRecordKeeps == ASSUME IInv, NEW p \in Clients, InsertRecord(p) PROVE IInv'
<1> DEFINE request == tx[p].request
<1>1. /\ tx[p] \in Tx /\ request \in Request /\ request.kind = "event"
      /\ UNCHANGED <<tables, people, holder, accepted>>
  BY Relies DEF InsertRecord, At, Tx, TxHolds
<1>2. \A q \in Clients \ {p} : Records(tx[q]) => tx[q].request.key # request.key
  BY IdleHolds DEF InsertRecord, Recording, Records, InTx
<1>3. holder' \in Clients \union {Nobody} BY <1>1 DEF IInv, TablesTyped
<1>4. CASE \E x \in inbox : x.key = request.key
  <2>1. Goes(p, Idle) BY <1>4 DEF InsertRecord
  <2> QED BY <1>1, <1>3, <2>1, IdleHolds, Unanswered, ClientStep
<1>5. CASE ~\E x \in inbox : x.key = request.key
  <2>1. PICK todo \in SetToSeqs(RuleMissions(p, request)) :
          Goes(p, Serving(request, IF todo = <<>> THEN "commit" ELSE "find", todo))
    BY <1>5 DEF InsertRecord
  <2>2. /\ todo \in Seq(Run) /\ \A m \in Range(todo) : m.content = request.content
        /\ IdsHold(p, request, {m.id : m \in Range(todo)})
    <3> HIDE DEF request
    <3> QED BY <1>1, RuleMissionsHold, Zenon
  <2> DEFINE pc == IF todo = <<>> THEN "commit" ELSE "find"
             o == Serving(request, pc, todo)
  <2>3. pc \in {"find", "commit"} /\ (pc = "commit" <=> todo = <<>>) OBVIOUS
  <2> HIDE DEF pc
  <2>4. o \in Tx /\ o.pc = pc /\ o.request = request /\ o.todo = todo /\ o.new = {} /\ o.got = {}
    BY <1>1, <2>2, <2>3 DEF Serving, Tx, Steps
  <2>5. Goes(p, o) BY <2>1 DEF pc
  <2> HIDE DEF o
  <2>6. TxHolds(p, o, runs)
    <3> HIDE DEF request
    <3>1. o.pc \in {"find", "commit"} /\ (o.pc = "commit" <=> o.todo = <<>>) BY <2>3, <2>4
    <3>2. IdsHold(p, o.request, {m.id : m \in Range(o.todo)}) BY <2>2, <2>4
    <3>3. \A m \in Range(o.todo) : m.content = o.request.content BY <2>2, <2>4
    <3>4. Overtaken(o, runs) BY <1>1, <2>4 DEF Overtaken
    <3> QED BY <2>4, <3>1, <3>2, <3>3, <3>4, BeginsToServe
  <2>7. Locks(p, o, holder') BY <2>3, <2>4 DEF Locks
  <2> QED BY <1>1, <1>2, <1>3, <1>5, <2>4, <2>5, <2>6, <2>7, Unanswered, ClientStep
<1> QED BY <1>4, <1>5
-----------------------------------------------------------------------------
(* What a transaction that goes through its missions relies on.             *)
LEMMA Works ==
  ASSUME IInv, NEW p \in Clients, tx[p].pc \in InTx
  PROVE  /\ tx[p] \in Tx /\ Serves(p, tx[p], runs) /\ tx[p].request \in Request
         /\ Overtaken(tx[p], runs)
         /\ tx[p].new \in SUBSET Run
         /\ tx[p].pc # "commit" =>
              /\ tx[p].todo # <<>> /\ Head(tx[p].todo) \in Run /\ Tail(tx[p].todo) \in Seq(Run)
              /\ Head(tx[p].todo).content = tx[p].request.content
              /\ Range(tx[p].todo) = {Head(tx[p].todo)} \union Range(Tail(tx[p].todo))
              /\ Len(tx[p].todo) = 1 <=> Tail(tx[p].todo) = <<>>
<1>1. tx[p].pc # "idle" BY DEF InTx
<1>2. tx[p] \in Tx /\ Serves(p, tx[p], runs) /\ Overtaken(tx[p], runs) BY <1>1, Relies DEF TxHolds
<1>3. tx[p].request \in Request /\ tx[p].new \in SUBSET Run /\ tx[p].todo \in Seq(Run)
  BY <1>2 DEF Tx
<1>4. ASSUME tx[p].pc # "commit"
      PROVE  /\ tx[p].todo # <<>> /\ Head(tx[p].todo) \in Run /\ Tail(tx[p].todo) \in Seq(Run)
             /\ Range(tx[p].todo) = {Head(tx[p].todo)} \union Range(Tail(tx[p].todo))
             /\ Len(tx[p].todo) = 1 <=> Tail(tx[p].todo) = <<>>
  <2>1. tx[p].todo # <<>> BY <1>2, <1>4 DEF Serves
  <2> QED BY <1>3, <2>1, HeadAndTail
<1>5. tx[p].pc # "commit" => Head(tx[p].todo).content = tx[p].request.content
  BY <1>2, <1>4 DEF Serves
<1> QED BY <1>2, <1>3, <1>4, <1>5

(* A mission that is taken is among the rows, or inserted by this step.     *)
LEMMA TakenHolds ==
  ASSUME IInv, NEW p \in Clients, tx[p].pc \in {"find", "admit"},
         NEW inserted \in SUBSET {Head(tx[p].todo)},
         Head(tx[p].todo) \in runs \union (tx[p].new \union inserted),
         UniqueIds(runs \union (tx[p].new \union inserted))
  PROVE  /\ Taken(p, inserted) \in Tx /\ TxHolds(p, Taken(p, inserted), runs)
         /\ Taken(p, inserted).pc \in {"find", "commit"} /\ Taken(p, inserted).request = tx[p].request
         /\ Taken(p, inserted).new = tx[p].new \union inserted
<1> DEFINE mission == Head(tx[p].todo)
           where == IF Len(tx[p].todo) = 1 THEN "commit" ELSE "find"
           rest == Tail(tx[p].todo)
           o == [tx[p] EXCEPT !.pc = where, !.todo = rest, !.got = @ \union {mission.id},
                              !.new = @ \union inserted]
<1>1. tx[p].pc \in InTx BY DEF InTx
<1>2. /\ tx[p] \in Tx /\ Serves(p, tx[p], runs) /\ tx[p].new \in SUBSET Run /\ Overtaken(tx[p], runs)
      /\ mission \in Run /\ rest \in Seq(Run) /\ mission.content = tx[p].request.content
      /\ Range(tx[p].todo) = {mission} \union Range(rest)
      /\ Len(tx[p].todo) = 1 <=> rest = <<>>
  BY <1>1, Works
<1>3. where \in {"find", "commit"} /\ (where = "commit" <=> rest = <<>>) BY <1>2
<1>4. Taken(p, inserted) = o BY DEF Taken
<1> HIDE DEF where, rest
<1>5. mission.id \in RunId /\ mission = [id |-> mission.id, content |-> mission.content]
  BY <1>2 DEF Run
<1>6. inserted \subseteq Run BY <1>2
<1> HIDE DEF mission
<1>7. o \in Tx BY <1>2, <1>3, <1>5, <1>6 DEF Tx, Steps
<1>8. /\ o.pc = where /\ o.request = tx[p].request /\ o.todo = rest
      /\ o.got = tx[p].got \union {mission.id} /\ o.new = tx[p].new \union inserted
      /\ o.again = tx[p].again
  BY <1>2 DEF Tx
<1> HIDE DEF o
<1>9. Serves(p, o, runs)
  <2>1. o.got \union TodoIds(o) = tx[p].got \union TodoIds(tx[p])
    <3>1. TodoIds(tx[p]) = {mission.id} \union TodoIds(o) BY <1>2, <1>8 DEF TodoIds
    <3> QED BY <1>8, <3>1
  <2>2. IdsHold(p, o.request, o.got \union TodoIds(o)) BY <1>2, <1>8, <2>1 DEF Serves
  <2>3. \A m \in Range(o.todo) : m.content = o.request.content BY <1>2, <1>8 DEF Serves
  <2>4. \A id \in o.got : [id |-> id, content |-> o.request.content] \in runs \union o.new
    <3>1. [id |-> mission.id, content |-> o.request.content] \in runs \union o.new
      BY <1>2, <1>5, <1>8 DEF mission
    <3>2. \A id \in tx[p].got : [id |-> id, content |-> o.request.content] \in runs \union o.new
      BY <1>2, <1>8 DEF Serves
    <3> QED BY <1>8, <3>1, <3>2
  <2>5. \A row \in o.new : row.id \in o.got BY <1>2, <1>8 DEF Serves, mission
  <2>6. IsFiniteSet(o.new)
    <3>1. inserted = {} \/ inserted = {mission} BY DEF mission
    <3>2. IsFiniteSet(tx[p].new) BY <1>2 DEF Serves
    <3>3. IsFiniteSet(tx[p].new \union {mission}) BY <3>2, FS_AddElement
    <3> QED BY <1>8, <3>1, <3>2, <3>3
  <2> QED BY <1>3, <1>8, <2>2, <2>3, <2>4, <2>5, <2>6 DEF Serves
<1>10. TxHolds(p, o, runs) BY <1>2, <1>3, <1>8, <1>9 DEF TxHolds, Overtaken
<1> QED BY <1>3, <1>4, <1>7, <1>8, <1>10

(* A step of a transaction that goes on with its request.                   *)
LEMMA WorksOn ==
  ASSUME IInv, NEW p \in Clients, tx[p].pc \in InTx, NEW next \in Tx, Goes(p, next),
         next.request = tx[p].request, TxHolds(p, next, runs), Locks(p, next, holder'),
         holder' \in Clients \union {Nobody}, holder \notin {Nobody, p} => holder' = holder,
         UNCHANGED <<tables, people, accepted>>
  PROVE  IInv'
<1>1. Records(next) => Records(tx[p]) BY DEF Records
<1>2. Records(next) => /\ \A q \in Clients \ {p} : Records(tx[q]) => tx[q].request.key # next.request.key
                       /\ \A x \in inbox : x.key # next.request.key
  BY <1>1, Relies
<1> QED BY <1>2, Unanswered, ClientStep

(* An earlier mission of the key is looked for.                             *)
LEMMA FindOldKeeps == ASSUME IInv, NEW p \in Clients, FindOld(p) PROVE IInv'
<1> DEFINE mission == Head(tx[p].todo)
           old == {row \in Visible(p) : row.id = mission.id}
<1>1. tx[p].pc = "find" /\ tx[p].pc \in InTx /\ UNCHANGED <<tables, people, accepted>>
  BY DEF FindOld, At, InTx
<1>2. tx[p] \in Tx /\ Serves(p, tx[p], runs) /\ Overtaken(tx[p], runs) BY <1>1, Works
<1>3. Locks(p, tx[p], holder) /\ holder \in Clients \union {Nobody} BY Relies
<1>4. CASE RollBack(p) BY <1>1, <1>4, Unanswered, RollBackKeeps
<1>5. CASE old = {} /\ Goes(p, [tx[p] EXCEPT !.pc = "lock"]) /\ UNCHANGED holder
  <2> DEFINE o == [tx[p] EXCEPT !.pc = "lock"]
  <2>1. o \in Tx BY <1>2 DEF Tx, Steps
  <2>2. /\ o.pc = "lock" /\ o.request = tx[p].request /\ o.todo = tx[p].todo /\ o.got = tx[p].got
        /\ o.new = tx[p].new /\ o.again = tx[p].again
    BY <1>2 DEF Tx
  <2>3. \A row \in runs \union tx[p].new : row.id # mission.id BY <1>5 DEF Visible
  <2> HIDE DEF o
  <2>8. Overtaken(o, runs)
    <3>1. mission.id \in TodoIds(tx[p]) BY <1>1, Works DEF TodoIds
    <3>2. tx[p].request.kind = "submit" => mission.id = <<Submitter, tx[p].request.key>>
      BY <1>2, <3>1 DEF Serves, IdsHold
    <3> QED BY <1>2, <2>2, <2>3, <3>2 DEF Overtaken
  <2>4. TodoIds(o) = TodoIds(tx[p]) BY <2>2 DEF TodoIds
  <2>5. Serves(p, o, runs) BY <1>1, <1>2, <2>2, <2>3, <2>4 DEF Serves
  <2>6. TxHolds(p, o, runs) BY <2>2, <2>5, <2>8 DEF TxHolds
  <2>7. Locks(p, o, holder') BY <1>1, <1>3, <1>5, <2>2 DEF Locks
  <2> QED BY <1>1, <1>3, <1>5, <2>1, <2>2, <2>6, <2>7, WorksOn DEF o
<1>6. CASE mission \in old /\ Goes(p, Taken(p, {})) /\ UNCHANGED holder
  <2>1. mission \in runs \union (tx[p].new \union {}) BY <1>6 DEF Visible
  <2>2. tx[p].new \union {} = tx[p].new OBVIOUS
  <2>3. UniqueIds(runs \union (tx[p].new \union {}))
    BY <1>2, <2>2 DEF Serves
  <2> DEFINE o == Taken(p, {})
  <2>4. /\ o \in Tx /\ TxHolds(p, o, runs) /\ o.pc \in {"find", "commit"}
        /\ o.request = tx[p].request /\ o.new = tx[p].new
    BY <1>1, <2>1, <2>2, <2>3, TakenHolds
  <2> HIDE DEF o
  <2>5. Locks(p, o, holder') BY <1>1, <1>3, <1>6, <2>4 DEF Locks
  <2> QED BY <1>1, <1>3, <1>6, <2>4, <2>5, WorksOn DEF o
<1> QED BY <1>4, <1>5, <1>6 DEF FindOld

(* The workspace's row is locked.                                           *)
LEMMA LockWorkspaceKeeps == ASSUME IInv, NEW p \in Clients, LockWorkspace(p) PROVE IInv'
<1> DEFINE o == [tx[p] EXCEPT !.pc = "admit"]
<1>1. /\ tx[p].pc = "lock" /\ tx[p].pc \in InTx /\ UNCHANGED <<tables, people, accepted>>
      /\ holder \in {Nobody, p} /\ holder' = p /\ Goes(p, o)
  BY DEF LockWorkspace, At, InTx
<1>2. tx[p] \in Tx /\ Serves(p, tx[p], runs) /\ Overtaken(tx[p], runs) BY <1>1, Works
<1>3. o \in Tx BY <1>2 DEF Tx, Steps
<1>4. /\ o.pc = "admit" /\ o.request = tx[p].request /\ o.todo = tx[p].todo /\ o.got = tx[p].got
      /\ o.new = tx[p].new /\ o.again = tx[p].again
  BY <1>2 DEF Tx
<1> HIDE DEF o
<1>8. Overtaken(o, runs) BY <1>1, <1>2, <1>4 DEF Overtaken
<1>5. TodoIds(o) = TodoIds(tx[p]) BY <1>4 DEF TodoIds
<1>6. Serves(p, o, runs) BY <1>1, <1>2, <1>4, <1>5 DEF Serves
<1>7. TxHolds(p, o, runs) /\ Locks(p, o, holder') BY <1>1, <1>4, <1>6, <1>8 DEF TxHolds, Locks
<1> QED BY <1>1, <1>3, <1>4, <1>7, WorksOn

(* A mission is inserted.                                                   *)
LEMMA AdmitKeeps == ASSUME IInv, NEW p \in Clients, Admit(p) PROVE IInv'
<1> DEFINE mission == Head(tx[p].todo)
           o == Taken(p, {mission})
<1>1. /\ tx[p].pc = "admit" /\ tx[p].pc \in InTx /\ UNCHANGED <<tables, people, holder, accepted>>
      /\ \A row \in runs : row.id # mission.id
      /\ Goes(p, o)
  BY DEF Admit, At, InTx
<1>2. Serves(p, tx[p], runs) BY <1>1, Works
<1>3. holder = p BY <1>1, Relies DEF Locks
<1>6. UniqueIds((runs \union tx[p].new) \union {mission}) BY <1>1, <1>2 DEF Serves, UniqueIds
<1>7. runs \union (tx[p].new \union {mission}) = (runs \union tx[p].new) \union {mission} OBVIOUS
<1> HIDE DEF mission
<1>9. /\ mission \in runs \union (tx[p].new \union {mission})
      /\ UniqueIds(runs \union (tx[p].new \union {mission}))
  BY <1>6, <1>7
<1>10. o \in Tx /\ TxHolds(p, o, runs) /\ o.request = tx[p].request
  BY <1>1, <1>9, TakenHolds DEF mission
<1>11. Locks(p, o, holder') BY <1>1, <1>3 DEF Locks
<1>12. holder' \in Clients \union {Nobody} BY <1>1, <1>3
<1> HIDE DEF o
<1> QED BY <1>1, <1>3, <1>10, <1>11, <1>12, WorksOn

(* Its key has been taken since: the request begins again, or fails.        *)
LEMMA AdmitConflictKeeps == ASSUME IInv, NEW p \in Clients, AdmitConflict(p) PROVE IInv'
<1>1. /\ tx[p].pc = "admit" /\ tx[p].pc \in InTx /\ UNCHANGED <<tables, people, accepted>>
      /\ holder' = Released(p)
  BY DEF AdmitConflict, At, InTx
<1>2. /\ tx[p] \in Tx /\ Serves(p, tx[p], runs) /\ tx[p].request \in Request
      /\ Overtaken(tx[p], runs) /\ tx[p].todo # <<>>
      /\ Range(tx[p].todo) = {Head(tx[p].todo)} \union Range(Tail(tx[p].todo))
  BY <1>1, Works
<1>3. holder' \in Clients \union {Nobody} /\ (holder \notin {Nobody, p} => holder' = holder)
  BY <1>1, ReleasedHolds
<1>4. CASE Goes(p, Idle)
  <2>1. RollBack(p) BY <1>1, <1>4 DEF RollBack
  <2> QED BY <1>1, <2>1, Unanswered, RollBackKeeps
<1>5. CASE tx[p].request.kind # "submit" /\ Goes(p, [tx[p] EXCEPT !.pc = "failed"])
  <2> DEFINE o == [tx[p] EXCEPT !.pc = "failed"]
  <2>1. o \in Tx /\ o.pc = "failed" /\ o.request = tx[p].request BY <1>2 DEF Tx, Steps
  <2> HIDE DEF o
  <2>2. TxHolds(p, o, runs) /\ Locks(p, o, holder') BY <1>5, <2>1 DEF TxHolds, Overtaken, Locks, InTx
  <2> QED BY <1>1, <1>3, <1>5, <2>1, <2>2, WorksOn DEF o
<1>6. CASE /\ tx[p].request.kind = "submit"
           /\ Goes(p, [Serving(tx[p].request, "find", tx[p].todo) EXCEPT !.again = TRUE])
  <2> DEFINE todo == tx[p].todo
             request == tx[p].request
             o == [Serving(request, "find", todo) EXCEPT !.again = TRUE]
  <2>1. todo \in Seq(Run) BY <1>2 DEF Tx
  <2>2. /\ o \in Tx /\ o.pc = "find" /\ o.request = request /\ o.todo = todo
        /\ o.new = {} /\ o.got = {}
    BY <1>2, <2>1 DEF Serving, Tx, Steps
  <2>3. IdsHold(p, request, {m.id : m \in Range(todo)})
    <3>1. tx[p].got \union TodoIds(tx[p]) = {<<Submitter, request.key>>}
      BY <1>2, <1>6 DEF Serves, IdsHold
    <3>2. Head(todo).id \in TodoIds(tx[p]) BY <1>2 DEF TodoIds
    <3>3. TodoIds(tx[p]) = {<<Submitter, request.key>>} BY <3>1, <3>2
    <3> QED BY <1>6, <3>3 DEF IdsHold, TodoIds
  <2>4. \A m \in Range(todo) : m.content = request.content BY <1>2 DEF Serves
  <2>5. Goes(p, o) BY <1>6
  <2> HIDE DEF o
  <2>6. TxHolds(p, o, runs)
    <3>1. Head(todo).id \in TodoIds(tx[p]) BY <1>2 DEF TodoIds
    <3>2. Head(todo).id = <<Submitter, request.key>> BY <1>2, <1>6, <3>1 DEF Serves, IdsHold
    <3>3. \E row \in runs : row.id = Head(todo).id BY DEF AdmitConflict
    <3>4. Overtaken(o, runs) BY <2>2, <3>2, <3>3 DEF Overtaken
    <3> QED BY <1>2, <2>2, <2>3, <2>4, <3>4, BeginsToServe
  <2>7. Locks(p, o, holder') BY <2>2 DEF Locks
  <2> QED BY <1>1, <1>3, <2>2, <2>5, <2>6, <2>7, WorksOn
<1>7. ~tx[p].again \/ tx[p].request.kind # "submit" BY <1>1, <1>2 DEF Overtaken
<1> QED BY <1>4, <1>5, <1>6, <1>7 DEF AdmitConflict

(* The quota is exhausted.                                                  *)
LEMMA AdmitRefusedKeeps == ASSUME IInv, NEW p \in Clients, AdmitRefused(p) PROVE IInv'
BY RollBackKeeps, Unanswered DEF AdmitRefused
-----------------------------------------------------------------------------
(* Who commits missions holds the row, so that nobody else has any.         *)
LEMMA OthersHaveNone ==
  ASSUME IInv, NEW p \in Clients, NEW q \in Clients, p # q,
         tx[p].pc \in InTx, tx[p].new # {}, tx[q].pc \in InTx
  PROVE  tx[q].new = {} /\ tx[q].pc # "admit"
<1>1. Locks(p, tx[p], holder) /\ Locks(q, tx[q], holder) BY Relies
<1> QED BY <1>1 DEF Locks

(* What another transaction has of its missions it has after the commit.    *)
LEMMA OthersServe ==
  ASSUME IInv, NEW p \in Clients, NEW q \in Clients, p # q, tx[p].pc \in InTx,
         runs' = runs \union tx[p].new
  PROVE  TxHolds(q, tx[q], runs')
<1>1. TxHolds(q, tx[q], runs) BY Relies
<1>2. CASE tx[p].new = {} BY <1>1, <1>2
<1>5. tx[q].pc # "idle" => Overtaken(tx[q], runs') BY <1>1 DEF TxHolds, Overtaken
<1>3. CASE tx[q].pc \notin InTx BY <1>1, <1>3, <1>5 DEF TxHolds
<1>4. CASE tx[p].new # {} /\ tx[q].pc \in InTx
  <2>1. Serves(p, tx[p], runs) /\ Serves(q, tx[q], runs) BY <1>4, Works
  <2>2. tx[q].new = {} BY <1>4, OthersHaveNone
  <2>3. runs' \union tx[q].new = runs' BY <2>2
  <2>4. UniqueIds(runs' \union tx[q].new) BY <2>1, <2>3 DEF Serves
  <2>5. runs \union tx[q].new \subseteq runs' \union tx[q].new OBVIOUS
  <2>6. \A id \in tx[q].got : [id |-> id, content |-> tx[q].request.content] \in runs' \union tx[q].new
    BY <2>1, <2>5 DEF Serves
  <2>7. Serves(q, tx[q], runs') BY <2>1, <2>4, <2>6 DEF Serves
  <2> QED BY <1>1, <1>5, <2>7 DEF TxHolds
<1> QED BY <1>2, <1>3, <1>4

(* Everything is committed.                                                 *)
LEMMA CompletedKeeps ==
  ASSUME IInv, NEW p \in Clients, tx[p].pc = "commit", ~Duplicate(tx[p].request), Completed(p),
         holder' = Released(p), UNCHANGED people
  PROVE  IInv'
<1> DEFINE o == tx[p]
           request == tx[p].request
           group == [key |-> request.key, content |-> request.content, runs |-> o.got]
           record == [key |-> request.key, by |-> p, content |-> request.content, runs |-> o.got]
           answer == [request |-> request, runs |-> o.got]
<1>1. o.pc \in InTx BY DEF InTx
<1>2. o \in Tx /\ Serves(p, o, runs) /\ request \in Request /\ o.new \in SUBSET Run
  BY <1>1, Works
<1>3. o.got \in SUBSET RunId BY <1>2 DEF Tx
<1>4. /\ runs' = runs \union o.new
      /\ groups' = (IF request.kind # "group" THEN groups ELSE groups \union {group})
      /\ inbox' = (IF request.kind # "event" THEN inbox ELSE inbox \union {record})
      /\ accepted' = accepted \union {answer}
      /\ settled' = settled /\ held' = held
      /\ rules' = rules /\ enabled' = enabled
  BY DEF Completed, Answered, activity, people
<1>5. tx \in [Clients -> Tx \union {Idle}] BY DEF IInv, TablesTyped
<1>6. tx' = [tx EXCEPT ![p] = Idle] BY DEF Completed, Goes
<1>7. tx' \in [Clients -> Tx \union {Idle}] /\ tx'[p] = Idle /\ \A q \in Clients \ {p} : tx'[q] = tx[q]
  BY <1>5, <1>6
<1>8. holder' \in Clients \union {Nobody} /\ (holder \notin {Nobody, p} => holder' = holder)
  BY ReleasedHolds
<1>10. IdsHold(p, request, o.got)
  <2>1. o.todo = <<>> BY <1>2 DEF Serves
  <2>2. Range(o.todo) = {} BY <2>1, EmptyRange
  <2>3. TodoIds(o) = {} BY <2>2 DEF TodoIds
  <2>4. o.got \union TodoIds(o) = o.got BY <2>3
  <2> QED BY <1>2, <2>4 DEF Serves
<1>11. \A id \in o.got : [id |-> id, content |-> request.content] \in runs' BY <1>2, <1>4 DEF Serves
<1>12. \A row \in o.new : row.id \in o.got BY <1>2 DEF Serves
<1>13. /\ group \in [key : {request.key}, content : Contents, runs : SUBSET RunId]
       /\ record \in [key : {request.key}, by : Clients, content : Contents, runs : SUBSET RunId]
       /\ answer \in [request : Request, runs : SUBSET RunId]
  BY <1>2, <1>3 DEF Request
<1>14. /\ group.key = request.key /\ group.content = request.content /\ group.runs = o.got
       /\ record.key = request.key /\ record.by = p /\ record.content = request.content
       /\ record.runs = o.got /\ answer.request = request /\ answer.runs = o.got
  OBVIOUS
<1>15. /\ request.kind = "group" => group \in [key : Groups, content : Contents, runs : SUBSET RunId]
       /\ request.kind = "event" =>
            record \in [key : Events, by : Clients, content : Contents, runs : SUBSET RunId]
  BY <1>2, <1>3 DEF Request
<1> HIDE DEF group, record, answer
<1>16. TablesTyped'
  <2>1. runs' \subseteq Run BY <1>2, <1>4 DEF IInv, TablesTyped
  <2>2. {row.id : row \in runs} \subseteq {row.id : row \in runs'} BY <1>4
  <2>3. settled' \subseteq {row.id : row \in runs'}
    BY <1>4, <2>2 DEF IInv, TablesTyped
  <2>4. groups' \subseteq [key : Groups, content : Contents, runs : SUBSET RunId]
    BY <1>4, <1>15 DEF IInv, TablesTyped
  <2>5. inbox' \subseteq [key : Events, by : Clients, content : Contents, runs : SUBSET RunId]
    BY <1>4, <1>15 DEF IInv, TablesTyped
  <2>6. accepted' \subseteq [request : Request, runs : SUBSET RunId]
    BY <1>4, <1>13 DEF IInv, TablesTyped
  <2> QED BY <1>4, <1>7, <1>8, <2>1, <2>3, <2>4, <2>5, <2>6 DEF IInv, TablesTyped
<1>17. ASSUME NEW q \in Clients PROVE TxHolds(q, tx'[q], runs') /\ Locks(q, tx'[q], holder')
  <2>1. CASE q = p BY <1>7, <2>1, IdleHolds
  <2>2. CASE q # p
    <3>1. tx'[q] = tx[q] /\ Locks(q, tx[q], holder) BY <1>7, <2>2, Relies
    <3>2. TxHolds(q, tx[q], runs') BY <1>1, <1>4, <2>2, OthersServe
    <3>3. holder = q => holder' = q BY <1>8, <2>2, AdmissionAssumption
    <3>4. Locks(q, tx[q], holder') BY <3>1, <3>3 DEF Locks
    <3> QED BY <3>1, <3>2, <3>4
  <2> QED BY <2>1, <2>2
<1>18. RecordsHold'
  <2>1. ~Records(tx'[p]) BY <1>7, IdleHolds
  <2>2. ASSUME NEW q \in Clients, NEW r \in Clients, q # r, Records(tx'[q]), Records(tx'[r])
        PROVE  tx'[q].request.key # tx'[r].request.key
    BY <1>7, <2>1, <2>2 DEF IInv, RecordsHold
  <2>3. ASSUME NEW q \in Clients, Records(tx'[q]), NEW x \in inbox'
        PROVE  x.key # tx'[q].request.key
    <3>1. q # p /\ tx'[q] = tx[q] BY <1>7, <2>1, <2>3
    <3>2. CASE x \in inbox BY <2>3, <3>1, <3>2 DEF IInv, RecordsHold
    <3>3. CASE x \notin inbox
      <4>1. request.kind = "event" /\ x = record BY <1>4, <3>3
      <4>2. Records(tx[p]) BY <1>1, <4>1 DEF Records
      <4>3. request.key # tx[q].request.key BY <2>3, <3>1, <4>2 DEF IInv, RecordsHold
      <4> QED BY <1>14, <3>1, <4>1, <4>3
    <3> QED BY <3>2, <3>3
  <2> QED BY <2>2, <2>3 DEF RecordsHold
<1>19. GroupsHold'
  <2>1. ASSUME NEW g \in groups' PROVE g.runs = GroupIds(g.key) /\ Stored(g.runs, g.content)'
    <3>1. CASE g \in groups BY <1>4, <3>1 DEF IInv, GroupsHold, Stored
    <3>2. CASE g \notin groups
      <4>1. request.kind = "group" /\ g = group BY <1>4, <3>2
      <4> QED BY <1>10, <1>11, <1>14, <4>1 DEF IdsHold, Stored
    <3> QED BY <3>1, <3>2
  <2>2. ASSUME NEW g \in groups', NEW h \in groups', g.key = h.key PROVE g = h
    <3>1. request.kind = "group" => \A x \in groups : x.key # request.key BY DEF Duplicate
    <3> QED BY <1>4, <1>14, <2>2, <3>1 DEF IInv, GroupsHold
  <2> QED BY <2>1, <2>2 DEF GroupsHold
<1>20. InboxHolds'
  <2>1. ASSUME NEW x \in inbox' PROVE Stored(x.runs, x.content)'
    <3>1. CASE x \in inbox BY <1>4, <3>1 DEF IInv, InboxHolds, Stored
    <3>2. CASE x \notin inbox
      <4>1. x = record BY <1>4, <3>2
      <4> QED BY <1>11, <1>14, <4>1 DEF Stored
    <3> QED BY <3>1, <3>2
  <2>2. ASSUME NEW x \in inbox', NEW y \in inbox', x.key = y.key PROVE x = y
    <3>1. request.kind = "event" => Records(tx[p]) BY <1>1 DEF Records
    <3>2. request.kind = "event" => \A z \in inbox : z.key # request.key
      BY <3>1 DEF IInv, RecordsHold
    <3> QED BY <1>4, <1>14, <2>2, <3>2 DEF IInv, InboxHolds
  <2> QED BY <2>1, <2>2 DEF InboxHolds
<1>21. ASSUME NEW a \in accepted' PROVE AnswerHolds(a)'
  <2>1. groups \subseteq groups' /\ inbox \subseteq inbox' /\ runs \subseteq runs' BY <1>4
  <2>2. CASE a \in accepted
    <3>1. AnswerHolds(a) BY <2>2 DEF IInv
    <3> QED BY <2>1, <3>1 DEF AnswerHolds, Stored
  <2>3. CASE a \notin accepted
    <3>1. a = answer BY <1>4, <2>3
    <3>2. Stored(a.runs, a.request.content)' BY <1>11, <1>14, <3>1 DEF Stored
    <3>3. request.kind = "group" => group \in groups' BY <1>4
    <3>4. request.kind = "event" => record \in inbox' BY <1>4
    <3>5. request.kind = "submit" => o.got = {<<Submitter, request.key>>} BY <1>10 DEF IdsHold
    <3> QED BY <1>14, <3>1, <3>2, <3>3, <3>4, <3>5 DEF AnswerHolds
  <2> QED BY <2>2, <2>3
<1>22. ASSUME NEW row \in runs' PROVE RowHolds(row)'
  <2>1. groups \subseteq groups' /\ inbox \subseteq inbox' /\ accepted \subseteq accepted' BY <1>4
  <2>2. CASE row \in runs
    <3>1. RowHolds(row) BY <2>2 DEF IInv, RowsHold
    <3> QED BY <2>1, <3>1 DEF RowHolds
  <2>3. CASE row \notin runs
    <3>1. row.id \in o.got BY <1>4, <1>12, <2>3
    <3>2. CASE request.kind = "submit"
      <4>1. row.id = <<Submitter, request.key>> /\ request.key \in SubmitKeys
        BY <1>2, <1>10, <3>1, <3>2 DEF IdsHold, Request
      <4>2. answer \in accepted' /\ answer.request.kind = "submit" /\ row.id \in answer.runs
        BY <1>4, <1>14, <3>1, <3>2
      <4> QED BY <4>1, <4>2, KeysDiffer DEF RowHolds
    <3>3. CASE request.kind = "group"
      <4>1. PICK i \in 1..Assigned : row.id = <<Submitter, GroupKey(request.key, i)>>
        BY <1>10, <3>1, <3>3 DEF IdsHold, GroupIds
      <4>2. group \in groups' /\ group.key = request.key BY <1>4, <1>14, <3>3
      <4>3. row.id[2] = GroupKey(request.key, i) BY <4>1
      <4> QED BY <4>2, <4>3, KeysDiffer DEF RowHolds
    <3>4. CASE request.kind = "event"
      <4>1. PICK r \in DOMAIN RuleOwner : row.id[2] = EventKey(request.key, p, r)
        BY <1>10, <3>1, <3>4 DEF IdsHold
      <4>2. record \in inbox' /\ record.key = request.key /\ record.by = p /\ row.id \in record.runs
        BY <1>4, <1>14, <3>1, <3>4
      <4> QED BY <4>1, <4>2, KeysDiffer DEF RowHolds
    <3> QED BY <1>2, <3>2, <3>3, <3>4 DEF Request
  <2> QED BY <2>2, <2>3
<1>23. RowsHold'
  <2>1. IsFiniteSet(runs') BY <1>2, <1>4, FS_Union DEF IInv, RowsHold, Serves
  <2>2. UniqueIds(runs') BY <1>2, <1>4 DEF Serves
  <2> QED BY <1>22, <2>1, <2>2 DEF RowsHold
<1> QED BY <1>16, <1>17, <1>18, <1>19, <1>20, <1>21, <1>23 DEF IInv, ClientsHold

(* A group that has been committed since refuses the commit.                *)
LEMMA CommitKeeps == ASSUME IInv, NEW p \in Clients, Commit(p) PROVE IInv'
<1>1. /\ tx[p].pc = "commit" /\ tx[p].pc \in InTx /\ holder' = Released(p) /\ UNCHANGED people
  BY DEF Commit, At, InTx
<1>2. CASE ~Duplicate(tx[p].request) BY <1>1, <1>2, CompletedKeeps DEF Commit
<1>3. CASE Duplicate(tx[p].request)
  <2> DEFINE o == [tx[p] EXCEPT !.pc = "failed"]
  <2>1. Goes(p, o) /\ UNCHANGED <<tables, accepted>> BY <1>3 DEF Commit
  <2>2. tx[p] \in Tx BY <1>1, Works
  <2>3. o \in Tx /\ o.pc = "failed" /\ o.request = tx[p].request BY <2>2 DEF Tx, Steps
  <2> HIDE DEF o
  <2>4. TxHolds(p, o, runs) /\ Locks(p, o, holder')
    BY <1>3, <2>3 DEF TxHolds, Overtaken, Duplicate, Locks, InTx
  <2>5. holder' \in Clients \union {Nobody} /\ (holder \notin {Nobody, p} => holder' = holder)
    BY <1>1, ReleasedHolds
  <2> QED BY <1>1, <2>1, <2>3, <2>4, <2>5, WorksOn
<1> QED BY <1>2, <1>3
-----------------------------------------------------------------------------
(* Missions end, or are held and made active again: no transaction's        *)
(* missions change with it.                                                 *)
LEMMA ActivityKeeps ==
  ASSUME IInv, settled' \subseteq {row.id : row \in runs}, held' \subseteq settled',
         UNCHANGED <<runs, groups, inbox, people, holder, tx, accepted>>
  PROVE  IInv'
<1>1. /\ runs' = runs /\ groups' = groups /\ inbox' = inbox /\ rules' = rules /\ enabled' = enabled
      /\ holder' = holder /\ tx' = tx /\ accepted' = accepted
  BY DEF people
<1>2. TablesTyped' BY <1>1 DEF IInv, TablesTyped
<1>3. ClientsHold' /\ RecordsHold' /\ GroupsHold' /\ InboxHolds' /\ \A a \in accepted' : AnswerHolds(a)'
  BY <1>1 DEF IInv, ClientsHold, RecordsHold, GroupsHold, InboxHolds, AnswerHolds, Stored
<1>4. RowsHold' BY <1>1 DEF IInv, RowsHold, RowHolds
<1> QED BY <1>2, <1>3, <1>4 DEF IInv

(* A mission ends, or is held.                                              *)
LEMMA SettleKeeps == ASSUME IInv, NEW row \in runs, Settle(row) PROVE IInv'
<1>1. settled' \subseteq {r.id : r \in runs} /\ held' \subseteq settled'
  BY DEF Settle, IInv, TablesTyped
<1> QED BY <1>1, ActivityKeeps DEF Settle

(* A mission that was held is active again.                                 *)
LEMMA RequeueKeeps == ASSUME IInv, NEW row \in runs, Requeue(row) PROVE IInv'
<1>1. settled' \subseteq {r.id : r \in runs} /\ held' \subseteq settled'
  BY DEF Requeue, IInv, TablesTyped
<1> QED BY <1>1, ActivityKeeps DEF Requeue

(* Rules and memberships change.                                            *)
LEMMA PeopleKeep ==
  ASSUME IInv, rules' \subseteq DOMAIN RuleOwner, enabled' \subseteq Users,
         UNCHANGED <<tables, holder, tx, accepted>>
  PROVE  IInv'
<1>1. /\ runs' = runs /\ settled' = settled /\ held' = held
      /\ groups' = groups /\ inbox' = inbox /\ holder' = holder /\ tx' = tx /\ accepted' = accepted
  BY DEF tables, activity
<1>3. TablesTyped' BY <1>1 DEF IInv, TablesTyped
<1>4. ClientsHold' /\ RecordsHold' /\ GroupsHold' /\ InboxHolds' /\ \A a \in accepted' : AnswerHolds(a)'
  BY <1>1 DEF IInv, ClientsHold, RecordsHold, GroupsHold, InboxHolds, AnswerHolds, Stored
<1>5. RowsHold'
  <2>1. \A row \in runs : RowHolds(row)' BY <1>1 DEF IInv, RowsHold, RowHolds
  <2> QED BY <1>1, <2>1 DEF IInv, RowsHold
<1> QED BY <1>3, <1>4, <1>5 DEF IInv

(* Every step keeps the invariant.                                          *)
LEMMA NextInv == IInv /\ [Next]_vars => IInv'
<1> SUFFICES ASSUME IInv, [Next]_vars PROVE IInv' OBVIOUS
<1>1. ASSUME NEW p \in Clients, NEW request \in Request,
             BeginSubmit(p, request) \/ BeginGroup(p, request) \/ FindEvent(p, request)
      PROVE  IInv'
  BY <1>1, BeginSubmitKeeps, BeginGroupKeeps, FindEventKeeps
<1>2. ASSUME NEW p \in Clients,
             \/ FindOld(p) \/ LockWorkspace(p)
             \/ Admit(p) \/ AdmitConflict(p) \/ AdmitRefused(p)
             \/ FindGroup(p) \/ InsertRecord(p) \/ Commit(p) \/ Abandon(p)
      PROVE  IInv'
  BY <1>2, FindOldKeeps, LockWorkspaceKeeps, AdmitKeeps, AdmitConflictKeeps, AdmitRefusedKeeps,
     FindGroupKeeps, InsertRecordKeeps, CommitKeeps, AbandonKeeps
<1>3. ASSUME NEW row \in runs, Settle(row) \/ Requeue(row) PROVE IInv'
  BY <1>3, SettleKeeps, RequeueKeeps
<1>4. ASSUME NEW r \in rules, DisableRule(r) PROVE IInv'
  <2>1. rules' \subseteq DOMAIN RuleOwner /\ enabled' \subseteq Users
    BY <1>4 DEF DisableRule, IInv, TablesTyped
  <2> QED BY <1>4, <2>1, PeopleKeep DEF DisableRule
<1>5. ASSUME NEW u \in Users, ChangeMembership(u) PROVE IInv'
  <2>1. rules' \subseteq DOMAIN RuleOwner /\ enabled' \subseteq Users
    BY <1>5 DEF ChangeMembership, IInv, TablesTyped
  <2> QED BY <1>5, <2>1, PeopleKeep DEF ChangeMembership
<1>6. CASE UNCHANGED vars
  BY <1>6, PeopleKeep DEF vars, tables, activity, people, IInv, TablesTyped
<1> QED BY <1>1, <1>2, <1>3, <1>4, <1>5, <1>6 DEF Next

(* The invariant holds throughout.                                          *)
LEMMA Invariant == Spec => []IInv
BY InitInv, NextInv, PTL DEF Spec
-----------------------------------------------------------------------------
(* Rows, requests and answers keep their types, and a transaction that      *)
(* looks for, locks or admits a mission has one to deal with.               *)
THEOREM TypeCorrect == Spec => []TypeOK
<1>1. IInv => TypeOK
  <2> SUFFICES ASSUME IInv PROVE TypeOK OBVIOUS
  <2>1. ASSUME NEW p \in Clients, tx[p] # Idle
        PROVE  /\ tx[p].pc \in Steps /\ tx[p].request \in Request /\ tx[p].again \in BOOLEAN
               /\ tx[p].new \subseteq Run /\ tx[p].got \subseteq RunId
               /\ Range(tx[p].todo) \subseteq Run
               /\ tx[p].pc \in {"find", "lock", "admit"} => tx[p].todo # <<>>
    <3>1. tx[p] \in Tx BY <2>1, Relies
    <3>2. tx[p].todo \in Seq(Run) BY <3>1 DEF Tx
    <3>3. Range(tx[p].todo) \subseteq Run BY <3>2, HeadAndTail, EmptyRange
    <3>4. tx[p].pc \in {"find", "lock", "admit"} => tx[p].todo # <<>> BY Works DEF InTx
    <3> QED BY <3>1, <3>3, <3>4 DEF Tx
  <2> QED BY <2>1 DEF TypeOK, IInv, TablesTyped
<1> QED BY <1>1, Invariant, PTL

(* Whoever inserts a mission holds the row, so that nobody else has         *)
(* inserted any: what it counted is all there is.                           *)
LEMMA AdmitCounts ==
  ASSUME IInv, NEW p \in Clients, Admit(p)
  PROVE  Cardinality(Active') <= MaxActive
<1> DEFINE mission == Head(tx[p].todo)
           o == Taken(p, {mission})
           counted == ActiveRuns(p)
<1>1. /\ tx[p].pc = "admit" /\ tx[p].pc \in InTx /\ UNCHANGED <<tables, people, holder, accepted>>
      /\ Cardinality(counted) < MaxActive /\ tx' = [tx EXCEPT ![p] = o]
  BY DEF Admit, At, InTx, Goes
<1>2. tx[p] \in Tx /\ Serves(p, tx[p], runs) BY <1>1, Works
<1>3. holder = p BY <1>1, Relies DEF Locks
<1>4. tx \in [Clients -> Tx \union {Idle}] BY DEF IInv, TablesTyped
<1>5. tx'[p] = o /\ \A q \in Clients \ {p} : tx'[q] = tx[q] BY <1>1, <1>4
<1>6. o.new = tx[p].new \union {mission} BY <1>2 DEF Taken, Tx
<1>7. \A q \in Clients \ {p} : tx[q].pc \in InTx => tx[q].new = {}
  BY <1>3, Relies DEF Locks
<1> HIDE DEF o
<1>8. Active' \subseteq counted \union {mission}
  <2>1. runs' = runs /\ settled' = settled BY <1>1 DEF tables, activity
  <2>2. SUFFICES ASSUME NEW row \in Active' PROVE row \in counted \union {mission} OBVIOUS
  <2>3. row.id \notin settled BY <2>1 DEF Active
  <2>4. CASE row \in runs BY <2>3, <2>4 DEF ActiveRuns, Visible
  <2>5. ASSUME NEW q \in Clients, row \in Inserted(q)' PROVE row \in counted \union {mission}
    <3>1. CASE q = p
      <4>1. row \in o.new BY <1>5, <2>5, <3>1 DEF Inserted
      <4> QED BY <1>6, <2>3, <4>1 DEF ActiveRuns, Visible
    <3>2. CASE q # p
      <4>1. tx'[q] = tx[q] /\ tx[q].pc \in InTx /\ row \in tx[q].new
        BY <1>5, <2>5, <3>2 DEF Inserted, InTx
      <4> QED BY <1>7, <3>2, <4>1
    <3> QED BY <3>1, <3>2
  <2> QED BY <2>1, <2>4, <2>5 DEF Active
<1>9. IsFiniteSet(counted)
  <2>1. IsFiniteSet(runs \union tx[p].new) BY <1>2, FS_Union DEF IInv, RowsHold, Serves
  <2> QED BY <2>1, FS_Subset DEF ActiveRuns, Visible
<1> HIDE DEF counted, mission
<1>10. /\ Cardinality(counted) \in Nat /\ IsFiniteSet(counted \union {mission})
       /\ Cardinality(counted \union {mission}) <= Cardinality(counted) + 1
  <2>1. Cardinality(counted) \in Nat BY <1>9, FS_CardinalityType
  <2>2. /\ IsFiniteSet(counted \union {mission})
        /\ Cardinality(counted \union {mission})
             = IF mission \in counted THEN Cardinality(counted) ELSE Cardinality(counted) + 1
    BY <1>9, FS_AddElement
  <2> QED BY <2>1, <2>2
<1>11. Cardinality(counted \union {mission}) \in Nat BY <1>10, FS_CardinalityType
<1>12. IsFiniteSet(Active') /\ Cardinality(Active') <= Cardinality(counted \union {mission})
  BY <1>8, <1>10, FS_Subset
<1>13. Cardinality(Active') \in Nat /\ MaxActive \in Nat
  BY <1>12, FS_CardinalityType, AdmissionAssumption
<1> QED BY <1>1, <1>10, <1>11, <1>12, <1>13

(* A step of one connection leaves the other transactions alone.            *)
LEMMA OthersRest ==
  ASSUME IInv, NEW p \in Clients, NEW next, Goes(p, next)
  PROVE  tx'[p] = next /\ \A q \in Clients \ {p} : Inserted(q)' = Inserted(q)
<1>1. tx \in [Clients -> Tx \union {Idle}] BY DEF IInv, TablesTyped
<1>2. tx'[p] = next /\ \A q \in Clients \ {p} : tx'[q] = tx[q] BY <1>1 DEF Goes
<1> QED BY <1>2 DEF Inserted

(* Only the insert of a mission adds to what a transaction has inserted.    *)
LEMMA OnlyAdmitInserts ==
  ASSUME IInv, [Next]_vars, NEW c \in Clients
  PROVE  Inserted(c)' \subseteq Inserted(c) \/ Admit(c)
<1>1. ASSUME UNCHANGED tx PROVE Inserted(c)' \subseteq Inserted(c) BY <1>1 DEF Inserted
<1>2. ASSUME NEW p \in Clients, NEW next, Goes(p, next),
             next.pc \in InTx => next.new = {} \/ (tx[p].pc \in InTx /\ next.new \subseteq tx[p].new)
      PROVE  Inserted(c)' \subseteq Inserted(c)
  BY <1>2, OthersRest DEF Inserted, InTx
<1>3. ASSUME NEW p \in Clients, Goes(p, Idle) PROVE Inserted(c)' \subseteq Inserted(c)
  BY <1>2, <1>3, IdleHolds
<1>4. ASSUME NEW p \in Clients, RollBack(p) PROVE Inserted(c)' \subseteq Inserted(c)
  BY <1>3, <1>4 DEF RollBack
<1>5. ASSUME NEW p \in Clients, NEW request, NEW pc, NEW todo, Goes(p, Serving(request, pc, todo))
      PROVE  Inserted(c)' \subseteq Inserted(c)
  BY <1>2, <1>5 DEF Serving
<1>6. ASSUME NEW p \in Clients, tx[p].pc \in InTx, NEW pc, Goes(p, [tx[p] EXCEPT !.pc = pc])
      PROVE  Inserted(c)' \subseteq Inserted(c)
  <2>1. tx[p] \in Tx BY <1>6, Works
  <2>2. [tx[p] EXCEPT !.pc = pc].new = tx[p].new BY <2>1 DEF Tx
  <2> QED BY <1>2, <1>6, <2>2
<1>7. ASSUME NEW p \in Clients, NEW request \in Request, BeginSubmit(p, request) \/ BeginGroup(p, request)
      PROVE  Inserted(c)' \subseteq Inserted(c)
  BY <1>5, <1>7 DEF BeginSubmit, BeginGroup
<1>8. ASSUME NEW p \in Clients, NEW request \in Request, FindEvent(p, request)
      PROVE  Inserted(c)' \subseteq Inserted(c)
  BY <1>1, <1>5, <1>8 DEF FindEvent
<1>9. ASSUME NEW p \in Clients, FindOld(p) PROVE Inserted(c)' \subseteq Inserted(c)
  <2>1. tx[p].pc \in InTx BY <1>9 DEF FindOld, At, InTx
  <2>2. ASSUME Goes(p, Taken(p, {})) PROVE Inserted(c)' \subseteq Inserted(c)
    <3>1. tx[p] \in Tx BY <2>1, Works
    <3>2. Taken(p, {}).new = tx[p].new BY <3>1 DEF Taken, Tx
    <3> QED BY <1>2, <2>1, <2>2, <3>2
  <2> QED BY <1>4, <1>6, <1>9, <2>1, <2>2 DEF FindOld
<1>10. ASSUME NEW p \in Clients, LockWorkspace(p) PROVE Inserted(c)' \subseteq Inserted(c)
  <2>1. tx[p].pc \in InTx BY <1>10 DEF LockWorkspace, At, InTx
  <2> QED BY <1>6, <1>10, <2>1 DEF LockWorkspace
<1>11. ASSUME NEW p \in Clients, Admit(p) PROVE Inserted(c)' \subseteq Inserted(c) \/ Admit(c)
  BY <1>11, OthersRest DEF Admit
<1>12. ASSUME NEW p \in Clients, AdmitConflict(p) PROVE Inserted(c)' \subseteq Inserted(c)
  <2>1. tx[p].pc \in InTx BY <1>12 DEF AdmitConflict, At, InTx
  <2>2. ASSUME Goes(p, [Serving(tx[p].request, "find", tx[p].todo) EXCEPT !.again = TRUE])
        PROVE  Inserted(c)' \subseteq Inserted(c)
    BY <1>2, <2>2 DEF Serving
  <2> QED BY <1>3, <1>6, <1>12, <2>1, <2>2 DEF AdmitConflict
<1>13. ASSUME NEW p \in Clients, AdmitRefused(p) \/ Abandon(p) PROVE Inserted(c)' \subseteq Inserted(c)
  BY <1>4, <1>13 DEF AdmitRefused, Abandon
<1>14. ASSUME NEW p \in Clients, FindGroup(p) PROVE Inserted(c)' \subseteq Inserted(c)
  <2>1. ASSUME Goes(p, [tx[p] EXCEPT !.pc = "find", !.todo = Missions(tx[p].request)])
        PROVE  Inserted(c)' \subseteq Inserted(c)
    <3>1. tx[p] \in Tx /\ tx[p].new = {} BY <1>14, Relies DEF FindGroup, At, TxHolds
    <3>2. [tx[p] EXCEPT !.pc = "find", !.todo = Missions(tx[p].request)].new = {} BY <3>1 DEF Tx
    <3> QED BY <1>2, <2>1, <3>2
  <2> QED BY <1>4, <1>14, <2>1 DEF FindGroup
<1>15. ASSUME NEW p \in Clients, InsertRecord(p) PROVE Inserted(c)' \subseteq Inserted(c)
  BY <1>3, <1>5, <1>15 DEF InsertRecord
<1>16. ASSUME NEW p \in Clients, Commit(p) PROVE Inserted(c)' \subseteq Inserted(c)
  <2>1. tx[p].pc \in InTx BY <1>16 DEF Commit, At, InTx
  <2> QED BY <1>3, <1>6, <1>16, <2>1 DEF Commit, Completed
<1>17. CASE \/ \E row \in runs : Settle(row) \/ Requeue(row)
            \/ \E r \in rules : DisableRule(r)
            \/ \E u \in Users : ChangeMembership(u)
            \/ UNCHANGED vars
  BY <1>1, <1>17 DEF Settle, Requeue, DisableRule, ChangeMembership, vars
<1> QED BY <1>7, <1>8, <1>9, <1>10, <1>11, <1>12, <1>13, <1>14, <1>15, <1>16, <1>17 DEF Next

(* No insertion takes the workspace beyond its quota, whatever is open.     *)
THEOREM AdmissionsCount == Spec => AdmittedWithinCap
<1>1. IInv /\ [Next]_vars =>
        \A p \in Clients : ~ (Inserted(p)' \subseteq Inserted(p)) => Cardinality(Active') <= MaxActive
  BY OnlyAdmitInserts, AdmitCounts
<1>2. IInv /\ [Next]_vars =>
        [\A p \in Clients : ~ (Inserted(p)' \subseteq Inserted(p)) => Cardinality(Active') <= MaxActive]_vars
  BY <1>1
<1> QED BY <1>2, Invariant, PTL DEF Spec, AdmittedWithinCap

(* A submission that lost a race is answered.                               *)
THEOREM LostRacesAreAnswered == Spec => []LostRaceIsAnswered
<1>1. IInv => LostRaceIsAnswered
  <2> SUFFICES ASSUME IInv, NEW p \in Clients, tx[p] # Idle, tx[p].request.kind = "submit"
               PROVE  tx[p].pc # "failed" /\ (tx[p].again => tx[p].pc \in {"find", "commit"})
    BY DEF LostRaceIsAnswered
  <2>1. tx[p] \in Tx /\ TxHolds(p, tx[p], runs) BY Relies
  <2>2. tx[p].pc # "idle" BY <2>1 DEF Tx, Steps
  <2> QED BY <2>1, <2>2 DEF TxHolds, Overtaken
<1> QED BY <1>1, Invariant, PTL

(* A key means one content and one answer.                                  *)
THEOREM KeysMeanContents == Spec => []KeyMeansContent
<1>1. IInv => KeyMeansContent
  <2> SUFFICES ASSUME IInv PROVE KeyMeansContent OBVIOUS
  <2>1. \A a \in accepted : \A id \in a.runs : [id |-> id, content |-> a.request.content] \in runs
    BY DEF IInv, AnswerHolds, Stored
  <2>2. ASSUME NEW a \in accepted, NEW b \in accepted,
               a.request.kind = b.request.kind, a.request.key = b.request.key
        PROVE  a = b
    <3>1. a \in [request : Request, runs : SUBSET RunId] /\ b \in [request : Request, runs : SUBSET RunId]
      BY DEF IInv, TablesTyped
    <3>2. AnswerHolds(a) /\ AnswerHolds(b) BY DEF IInv
    <3>3. a.request.content = b.request.content /\ a.runs = b.runs
      <4>1. CASE a.request.kind = "submit"
        <5> DEFINE id == <<Submitter, a.request.key>>
        <5>1. a.runs = {id} /\ b.runs = {id} BY <2>2, <3>2, <4>1 DEF AnswerHolds
        <5>2. [id |-> id, content |-> a.request.content] \in runs
              /\ [id |-> id, content |-> b.request.content] \in runs
          BY <2>1, <5>1
        <5>3. [id |-> id, content |-> a.request.content] = [id |-> id, content |-> b.request.content]
          BY <5>2 DEF IInv, RowsHold, UniqueIds
        <5> QED BY <5>1, <5>3
      <4>2. CASE a.request.kind = "group" BY <2>2, <3>2, <4>2 DEF AnswerHolds, IInv, GroupsHold
      <4>3. CASE a.request.kind = "event" BY <2>2, <3>2, <4>3 DEF AnswerHolds, IInv, InboxHolds
      <4> QED BY <3>1, <4>1, <4>2, <4>3 DEF Request
    <3>4. a.request = b.request BY <2>2, <3>1, <3>3 DEF Request
    <3> QED BY <3>1, <3>3, <3>4
  <2> QED BY <2>1, <2>2 DEF KeyMeansContent
<1> QED BY <1>1, Invariant, PTL

(* A group comes in whole or not at all.                                    *)
THEOREM GroupsAreAtomic == Spec => []GroupAtomic
<1>1. IInv => GroupAtomic
  BY DEF IInv, RowsHold, RowHolds, GroupsHold, GroupIds, GroupAtomic
<1> QED BY <1>1, Invariant, PTL

(* An event starts its missions once.                                       *)
THEOREM EventsStartOnce == Spec => []EventOnce
<1>1. IInv => EventOnce
  BY DEF IInv, RowsHold, RowHolds, InboxHolds, EventOnce
<1> QED BY <1>1, Invariant, PTL
=============================================================================
