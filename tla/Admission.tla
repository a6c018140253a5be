----------------------------- MODULE Admission -----------------------------
(* How missions come into one workspace: submit and ingest of               *)
(* platform/service.py and submit_group of platform/extensions.py, which    *)
(* share submit_in().  A client repeats its requests as it likes, also      *)
(* while an earlier copy is still being served.                             *)
(*                                                                          *)
(* A statement is an action.  A transaction sees what is committed and its  *)
(* own rows.  It waits for the lock of the workspace's row, and to insert   *)
(* an event's record while another transaction holds one.                   *)
EXTENDS Naturals, Sequences, FiniteSets, SequencesExt

CONSTANTS
  Clients,     \* connections, one request at a time each
  Users,       \* members of the workspace, who own rules
  Submitter,   \* the member who submits missions and groups
  Keys,        \* idempotency keys of missions
  Groups,      \* idempotency keys of mission groups
  Events,      \* external ids of one source's events
  RuleOwner,   \* the rules for these events, and the owner of each
  Contents,    \* what the digests of requests tell apart
  Assigned,    \* assignments of a group
  Effects,     \* keys of the missions that have an effect before their last step
  MaxActive,   \* active missions a workspace may have (100 in the code)
  Nobody

ASSUME AdmissionAssumption ==
  /\ Submitter \in Users /\ Nobody \notin Clients
  /\ RuleOwner \in [DOMAIN RuleOwner -> Users] /\ IsFiniteSet(DOMAIN RuleOwner)
  /\ Assigned \in Nat \ {0} /\ MaxActive \in Nat

VARIABLES
  runs,      \* nx_runs: the committed rows
  settled,   \* the missions that are no longer active
  held,      \* those of them that are held for reconciliation
  groups,    \* nx_mission_groups
  inbox,     \* nx_inbox
  rules,     \* the rules that are enabled
  enabled,   \* the members whose membership is enabled
  holder,    \* the transaction that has locked the workspace's row
  tx,        \* the request and the transaction of each connection
  accepted   \* the requests answered with missions, and these missions

vars == <<runs, settled, held, groups, inbox, rules, enabled, holder, tx, accepted>>

(* A request key: the client's own, or one the service makes of a group's   *)
(* key or of the fresh id of an event's record and a rule.  A client may    *)
(* choose one that looks like a group's.                                    *)
GroupKey(g, i) == <<"group", g, i>>
EventKey(e, p, r) == <<"event", e, p, r>>
SubmitKeys == {<<"own", k>> : k \in Keys} \union {GroupKey(g, 1) : g \in Groups}
RunKeys == SubmitKeys \union {GroupKey(g, i) : g \in Groups, i \in 1..Assigned}
             \union {EventKey(e, p, r) : e \in Events, p \in Clients, r \in DOMAIN RuleOwner}
RunId == Users \X RunKeys
Run == [id : RunId, content : Contents]

Request == [kind : {"submit"}, key : SubmitKeys, content : Contents]
             \union [kind : {"group"}, key : Groups, content : Contents]
             \union [kind : {"event"}, key : Events, content : Contents]

Steps == {"find", "lock", "admit", "find group", "find event", "record", "commit", "failed"}
Idle == [pc |-> "idle"]
Serving(request, pc, todo) ==
  [pc |-> pc, request |-> request, todo |-> todo, new |-> {}, got |-> {}, again |-> FALSE]

TypeOK ==
  /\ runs \subseteq Run
  /\ settled \subseteq {row.id : row \in runs}
  /\ held \subseteq settled
  /\ groups \subseteq [key : Groups, content : Contents, runs : SUBSET RunId]
  /\ inbox \subseteq [key : Events, by : Clients, content : Contents, runs : SUBSET RunId]
  /\ rules \subseteq DOMAIN RuleOwner /\ enabled \subseteq Users
  /\ holder \in Clients \union {Nobody}
  /\ \A p \in Clients : tx[p] # Idle =>
       /\ tx[p].pc \in Steps /\ tx[p].request \in Request /\ tx[p].again \in BOOLEAN
       /\ tx[p].new \subseteq Run /\ tx[p].got \subseteq RunId
       /\ Range(tx[p].todo) \subseteq Run
       /\ tx[p].pc \in {"find", "lock", "admit"} => tx[p].todo # <<>>
  /\ accepted \subseteq [request : Request, runs : SUBSET RunId]

Init ==
  /\ runs = {} /\ settled = {} /\ held = {} /\ groups = {} /\ inbox = {}
  /\ rules = DOMAIN RuleOwner /\ enabled = Users
  /\ holder = Nobody
  /\ tx = [p \in Clients |-> Idle]
  /\ accepted = {}

activity == <<settled, held>>
tables == <<runs, activity, groups, inbox>>
people == <<rules, enabled>>

At(p, pc) == tx[p].pc = pc
Goes(p, next) == tx' = [tx EXCEPT ![p] = next]
Released(p) == IF holder = p THEN Nobody ELSE holder

(* The rest of a request rolls back: it is refused, or its process dies.    *)
RollBack(p) == Goes(p, Idle) /\ holder' = Released(p)

Visible(p) == runs \union tx[p].new
ActiveRuns(p) == {row \in Visible(p) : row.id \notin settled}

TakenForEver(p, inserted) ==
  [tx[p] EXCEPT !.pc = "find",
                !.todo = Tail(@), !.got = @ \union {Head(tx[p].todo).id}, !.new = @ \union inserted]

(* A mission of the request is dealt with: the next one, or the commit.     *)
Taken(p, inserted) ==
  [tx[p] EXCEPT !.pc = IF Len(tx[p].todo) = 1 THEN "commit" ELSE "find",
                !.todo = Tail(@), !.got = @ \union {Head(tx[p].todo).id}, !.new = @ \union inserted]
-----------------------------------------------------------------------------
(* submit() takes one mission under the client's key.                       *)
Missions(request) ==
  IF request.kind = "submit"
  THEN <<[id |-> <<Submitter, request.key>>, content |-> request.content]>>
  ELSE [i \in 1..Assigned |->
          [id |-> <<Submitter, GroupKey(request.key, i)>>, content |-> request.content]]

BeginSubmit(p, request) ==
  /\ request.kind = "submit" /\ Submitter \in enabled
  /\ At(p, "idle") /\ Goes(p, Serving(request, "find", Missions(request)))
  /\ UNCHANGED <<tables, people, holder, accepted>>

FindOldAnyContent(p) ==
  LET mission == Head(tx[p].todo) IN
  /\ At(p, "find")
  /\ IF tx[p].request.kind = "event" /\ mission.id[1] \notin enabled THEN RollBack(p)
     ELSE IF \A row \in Visible(p) : row.id # mission.id
       THEN Goes(p, [tx[p] EXCEPT !.pc = "lock"]) /\ UNCHANGED holder
     ELSE Goes(p, Taken(p, {})) /\ UNCHANGED holder
  /\ UNCHANGED <<tables, people, accepted>>

(* submit_in(): an earlier mission under the key is the answer if its       *)
(* content is the same, and a conflict otherwise.  ingest() first reads     *)
(* whether the owner of the rule is still a member.                         *)
FindOld(p) ==
  LET mission == Head(tx[p].todo)
      old == {row \in Visible(p) : row.id = mission.id} IN
  /\ At(p, "find")
  /\ IF tx[p].request.kind = "event" /\ mission.id[1] \notin enabled THEN RollBack(p)
     ELSE IF old = {} THEN Goes(p, [tx[p] EXCEPT !.pc = "lock"]) /\ UNCHANGED holder
     ELSE IF mission \in old THEN Goes(p, Taken(p, {})) /\ UNCHANGED holder
     ELSE RollBack(p)
  /\ UNCHANGED <<tables, people, accepted>>

LockWorkspaceShared(p) ==
  /\ At(p, "lock")
  /\ Goes(p, [tx[p] EXCEPT !.pc = "admit"])
  /\ UNCHANGED <<tables, people, holder, accepted>>

(* Admission is serialised by an update of the workspace's row.             *)
LockWorkspace(p) ==
  /\ At(p, "lock") /\ holder \in {Nobody, p}
  /\ holder' = p
  /\ Goes(p, [tx[p] EXCEPT !.pc = "admit"])
  /\ UNCHANGED <<tables, people, accepted>>

AdmitAtOnce(p) ==
  LET mission == Head(tx[p].todo) IN
  /\ At(p, "admit") /\ Cardinality(ActiveRuns(p)) < MaxActive
  /\ \A row \in runs : row.id # mission.id
  /\ Goes(p, Taken(p, {}))
  /\ runs' = runs \union {mission}
  /\ UNCHANGED <<activity, groups, inbox, people, holder, accepted>>

(* The active missions are counted and the mission is inserted.  Its unique *)
(* constraint fails when a request with the same key has committed since:   *)
(* submit() then starts again, once, and ingest() answers with a conflict.  *)
Admit(p) ==
  LET mission == Head(tx[p].todo) IN
  /\ At(p, "admit") /\ Cardinality(ActiveRuns(p)) < MaxActive
  /\ \A row \in runs : row.id # mission.id
  /\ Goes(p, Taken(p, {mission}))
  /\ UNCHANGED <<tables, people, holder, accepted>>

AdmitConflictOnce(p) ==
  /\ At(p, "admit") /\ Cardinality(ActiveRuns(p)) < MaxActive
  /\ \E row \in runs : row.id = Head(tx[p].todo).id
  /\ holder' = Released(p) /\ Goes(p, [tx[p] EXCEPT !.pc = "failed"])
  /\ UNCHANGED <<tables, people, accepted>>

AdmitConflict(p) ==
  /\ At(p, "admit") /\ Cardinality(ActiveRuns(p)) < MaxActive
  /\ \E row \in runs : row.id = Head(tx[p].todo).id
  /\ holder' = Released(p)
  /\ Goes(p, IF tx[p].request.kind = "submit" /\ ~tx[p].again
             THEN [Serving(tx[p].request, "find", tx[p].todo) EXCEPT !.again = TRUE]
             ELSE IF tx[p].request.kind = "event" THEN Idle
             ELSE [tx[p] EXCEPT !.pc = "failed"])
  /\ UNCHANGED <<tables, people, accepted>>

AdmitRefused(p) ==
  /\ At(p, "admit") /\ Cardinality(ActiveRuns(p)) >= MaxActive
  /\ RollBack(p)
  /\ UNCHANGED <<tables, people, accepted>>

(* submit_group(): the workspace's row is locked before anything is read.   *)
BeginGroup(p, request) ==
  /\ request.kind = "group" /\ Submitter \in enabled
  /\ At(p, "idle") /\ holder = Nobody
  /\ holder' = p
  /\ Goes(p, Serving(request, "find group", <<>>))
  /\ UNCHANGED <<tables, people, accepted>>

Answered(request, answer) == accepted' = accepted \union {[request |-> request, runs |-> answer]}

FindGroup(p) ==
  LET request == tx[p].request
      old == {g \in groups : g.key = request.key} IN
  /\ At(p, "find group")
  /\ \/ /\ old = {}
        /\ Goes(p, [tx[p] EXCEPT !.pc = "find", !.todo = Missions(request)])
        /\ UNCHANGED <<holder, accepted>>
     \/ \E g \in old :
          /\ RollBack(p)
          /\ IF g.content = request.content THEN Answered(request, g.runs) ELSE UNCHANGED accepted
  /\ UNCHANGED <<tables, people>>

(* ingest(): an event already recorded is answered with its missions; a new *)
(* one is recorded, which waits for another record of the same event, and   *)
(* its rules are read.                                                      *)
FindEvent(p, request) ==
  LET old == {x \in inbox : x.key = request.key} IN
  /\ request.kind = "event" /\ At(p, "idle")
  /\ \/ /\ old = {} /\ Goes(p, Serving(request, "record", <<>>))
        /\ UNCHANGED accepted
     \/ \E x \in old : x.content = request.content /\ Answered(request, x.runs) /\ UNCHANGED tx
  /\ UNCHANGED <<tables, people, holder>>

Recording(q) == /\ tx[q] # Idle /\ tx[q].request.kind = "event"
                /\ tx[q].pc \in {"find", "lock", "admit", "commit"}

RuleMissions(p, request) ==
  {[id |-> <<RuleOwner[r], EventKey(request.key, p, r)>>, content |-> request.content] : r \in rules}

InsertRecordUnchecked(p) ==
  LET request == tx[p].request IN
  /\ At(p, "record")
  /\ \E todo \in SetToSeqs(RuleMissions(p, request)) :
       Goes(p, Serving(request, IF todo = <<>> THEN "commit" ELSE "find", todo))
  /\ UNCHANGED <<tables, people, holder, accepted>>

InsertRecord(p) ==
  LET request == tx[p].request IN
  /\ At(p, "record")
  /\ \A q \in Clients \ {p} : Recording(q) => tx[q].request.key # request.key
  /\ IF \E x \in inbox : x.key = request.key THEN Goes(p, Idle)
     ELSE \E todo \in SetToSeqs(RuleMissions(p, request)) :
            Goes(p, Serving(request, IF todo = <<>> THEN "commit" ELSE "find", todo))
  /\ UNCHANGED <<tables, people, holder, accepted>>

(* The group or the record is completed and everything is committed, unless *)
(* the unique constraint of a group's key fails.                            *)
Duplicate(request) == request.kind = "group" /\ \E g \in groups : g.key = request.key

Completed(p) ==
  LET request == tx[p].request IN
  /\ runs' = runs \union tx[p].new
  /\ groups' = IF request.kind # "group" THEN groups
               ELSE groups \union {[key |-> request.key, content |-> request.content, runs |-> tx[p].got]}
  /\ inbox' = IF request.kind # "event" THEN inbox
              ELSE inbox \union {[key |-> request.key, by |-> p, content |-> request.content, runs |-> tx[p].got]}
  /\ Answered(request, tx[p].got)
  /\ Goes(p, Idle)
  /\ UNCHANGED activity

Commit(p) ==
  /\ At(p, "commit") /\ holder' = Released(p)
  /\ IF Duplicate(tx[p].request)
     THEN Goes(p, [tx[p] EXCEPT !.pc = "failed"]) /\ UNCHANGED <<tables, accepted>>
     ELSE Completed(p)
  /\ UNCHANGED people

(* A plan is refused, an agent does not cover its assignment, a database    *)
(* error or the death of the process ends the request before its commit.    *)
Abandon(p) ==
  /\ ~At(p, "idle") /\ RollBack(p)
  /\ UNCHANGED <<tables, people, accepted>>

(* Missions end, or are held for reconciliation, and operators and          *)
(* administrators change the rules and the memberships.                     *)
Settle(row) ==
  /\ row.id \notin settled /\ settled' = settled \union {row.id}
  /\ held' \in {held, held \union ({row.id} \intersect (Users \X Effects))}
  /\ UNCHANGED <<runs, groups, inbox, people, holder, tx, accepted>>

(* reconcile() confirms the effect of a held mission that has more steps:   *)
(* it is active again, without being counted.                               *)
Requeue(row) ==
  /\ row.id \in held /\ held' = held \ {row.id} /\ settled' = settled \ {row.id}
  /\ UNCHANGED <<runs, groups, inbox, people, holder, tx, accepted>>

DisableRule(r) ==
  /\ rules' = rules \ {r}
  /\ UNCHANGED <<tables, enabled, holder, tx, accepted>>

ChangeMembership(u) ==
  /\ enabled' = IF u \in enabled THEN enabled \ {u} ELSE enabled \union {u}
  /\ UNCHANGED <<tables, rules, holder, tx, accepted>>

Next ==
  \/ \E p \in Clients :
       \/ \E request \in Request :
            BeginSubmit(p, request) \/ BeginGroup(p, request) \/ FindEvent(p, request)
       \/ FindOld(p) \/ LockWorkspace(p)
       \/ Admit(p) \/ AdmitConflict(p) \/ AdmitRefused(p)
       \/ FindGroup(p) \/ InsertRecord(p) \/ Commit(p) \/ Abandon(p)
  \/ \E row \in runs : Settle(row) \/ Requeue(row)
  \/ \E r \in rules : DisableRule(r)
  \/ \E u \in Users : ChangeMembership(u)

Spec == Init /\ [][Next]_vars
-----------------------------------------------------------------------------
(* The rows that a connection's open transaction has inserted.              *)
Inserted(p) == IF tx[p].pc \in {"find", "lock", "admit", "commit"} THEN tx[p].new ELSE {}
Active == {row \in runs \union UNION {Inserted(p) : p \in Clients} : row.id \notin settled}

(* No insertion takes the workspace beyond its quota, counted with what     *)
(* every open transaction has inserted and may still commit: a group and an *)
(* event that admit together cannot share the last place.                   *)
AdmittedWithinCap ==
  [][\A p \in Clients :
       ~ (Inserted(p)' \subseteq Inserted(p)) => Cardinality(Active') <= MaxActive]_vars

(* The limit as the documents state it: a workspace never has more active   *)
(* missions.  reconcile() makes a held mission active without counting.     *)
AtMostMaxActive == Cardinality({row \in runs : row.id \notin settled}) <= MaxActive

(* A submission that was overtaken by a copy of itself between its look for *)
(* the key and its insert does not end in an error: its second attempt      *)
(* finds the mission that won, and never counts or inserts again.           *)
LostRaceIsAnswered ==
  \A p \in Clients : tx[p] # Idle /\ tx[p].request.kind = "submit" =>
    tx[p].pc # "failed" /\ (tx[p].again => tx[p].pc \in {"find", "commit"})

(* A key means one content and one answer for ever: every client told that  *)
(* its request is accepted was told of committed missions with the content  *)
(* it asked for, and the same ones as any other client with this key.       *)
KeyMeansContent ==
  /\ \A a \in accepted : \A id \in a.runs : [id |-> id, content |-> a.request.content] \in runs
  /\ \A a, b \in accepted :
       a.request.kind = b.request.kind /\ a.request.key = b.request.key => a = b

(* A group comes in whole or not at all: a mission under one of its keys    *)
(* that no client submitted by itself belongs to a committed group, all of  *)
(* whose missions are there.                                                *)
GroupAtomic ==
  /\ \A g \in groups : g.runs = {<<Submitter, GroupKey(g.key, i)>> : i \in 1..Assigned}
  /\ \A row \in runs : \A g \in Groups : \A i \in 1..Assigned :
       row.id[2] = GroupKey(g, i) =>
         \/ \E x \in groups : x.key = g
         \/ \E a \in accepted : a.request.kind = "submit" /\ row.id \in a.runs

(* An event starts its missions once: whatever copies of it arrive together *)
(* it has one record, and every mission of the event is in this record.     *)
EventOnce ==
  /\ \A x, y \in inbox : x.key = y.key => x = y
  /\ \A row \in runs : \A e \in Events, p \in Clients, r \in DOMAIN RuleOwner :
       row.id[2] = EventKey(e, p, r) => \E x \in inbox : x.key = e /\ x.by = p /\ row.id \in x.runs

=============================================================================
