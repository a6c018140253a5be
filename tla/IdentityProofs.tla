--------------------------- MODULE IdentityProofs ---------------------------
(***************************************************************************)
(* Theorems about Identity, for any members, inputs, threads and limits:   *)
(* type correctness, that workspaces keep an administrator, that a counter *)
(* admits its limit for every success, that access rises knowingly, and    *)
(* that nobody comes by the platform's grant.                              *)
(*                                                                         *)
(* Rows are never deleted but sessions, so that what a thread has read     *)
(* about other rows still holds when it writes; OpHolds says what it has.  *)
(***************************************************************************)
EXTENDS Identity, TLAPS

(* What a thread may rely on, given its operation and the tables.          *)
OpHolds(o, places, persons, rows, counts) ==
  /\ o.pc \in {"load access", "store access", "store sync", "load user", "store user",
               "store workspace", "store membership"} =>
       o.place \in Places /\ o.input \in Member
  /\ o.pc \in {"load access", "store access"} => o.by \in Users /\ o.place[2] # o.by
  /\ o.pc \in {"store access", "store sync"} => o.found \in Member /\ rows[o.place] # None
  /\ o.pc = "store sync" => o.input.role = o.found.role /\ o.input.enabled = o.found.enabled
  /\ o.pc \in {"load user", "store user", "store membership"} => o.place[1] \in places
  /\ o.pc \in {"store workspace", "store membership"} => o.place[2] \in persons
  /\ o.pc = "store workspace" => o.input = Founder
  /\ o.pc \in {"find", "insert", "reset", "count"} =>
       /\ o.key \in Keys
       /\ o.place = None \/ (o.place \in Accounts /\ o.key = <<"login", o.place>>)
  /\ o.pc \in {"reset", "count"} => counts[o.key] # None
  /\ o.pc \in {"verify", "issue"} => o.place \in Accounts /\ counts[<<"login", o.place>>] # None
  /\ o.pc = "store logout" => o.session \in Session

OpsHold == \A t \in Threads : OpHolds(op[t], workspaces, people, member, counter)

IInv == TypeOK /\ OpsHold

(* Rows stay once they are there.                                          *)
RowsStay ==
  /\ workspaces \subseteq workspaces' /\ people \subseteq people'
  /\ \A p \in Places : member[p] # None => member'[p] # None
  /\ \A k \in Keys : counter[k] # None => counter'[k] # None
-----------------------------------------------------------------------------
(* An idle thread is an operation, and relies on nothing.                  *)
LEMMA IdleHolds ==
  /\ Idle \in Operation
  /\ \A places, persons, rows, counts : OpHolds(Idle, places, persons, rows, counts)
<1>1. Idle \in Operation
  <2>1. 0 \in 0 .. MaxRequests BY IdentityAssumption
  <2> QED BY <2>1 DEF Idle, Operation
<1>2. Idle.pc = "idle" BY DEF Idle
<1> QED BY <1>1, <1>2 DEF OpHolds

(* A login's key is one of the keys.                                       *)
LEMMA LoginKey == \A p \in Accounts : <<"login", p>> \in Keys
BY DEF Keys

(* What one thread does next does not disturb what the others rely on.     *)
LEMMA OpsStep ==
  ASSUME IInv, RowsStay, NEW t \in Threads, NEW next \in Operation, Goes(t, next),
         OpHolds(next, workspaces', people', member', counter')
  PROVE  op' \in [Threads -> Operation] /\ OpsHold'
<1>1. op \in [Threads -> Operation] BY DEF IInv, TypeOK
<1>2. op' = [op EXCEPT ![t] = next] BY DEF Goes
<1>3. op' \in [Threads -> Operation] BY <1>1, <1>2
<1>4. ASSUME NEW u \in Threads
      PROVE  OpHolds(op'[u], workspaces', people', member', counter')
  <2>1. CASE u = t BY <2>1, <1>1, <1>2
  <2>2. CASE u # t
    <3>1. op'[u] = op[u] BY <2>2, <1>1, <1>2
    <3>2. OpHolds(op[u], workspaces, people, member, counter) BY DEF IInv, OpsHold
    <3>3. \A p \in Accounts : <<"login", p>> \in Keys BY LoginKey
    <3> QED BY <3>1, <3>2, <3>3, ZenonT(40) DEF OpHolds, RowsStay
  <2> QED BY <2>1, <2>2
<1> QED BY <1>3, <1>4 DEF OpsHold

(* The initial state satisfies the invariant.                              *)
LEMMA InitInv == Init => IInv
<1> SUFFICES ASSUME Init PROVE IInv OBVIOUS
<1>1. Idle \in Operation /\ OpHolds(Idle, workspaces, people, member, counter) BY IdleHolds
<1>2. OpsHold BY <1>1 DEF Init, OpsHold
<1>3. TypeOK
  <2>1. people \subseteq Users /\ workspaces \subseteq Workspaces BY DEF Init, Places
  <2>2. member \in [Places -> Member \union {None}] BY IdentityAssumption DEF Init
  <2>3. \A p \in Places : member[p] # None => p[1] \in workspaces /\ p[2] \in people
    BY DEF Init
  <2>4. sessions \subseteq Session BY IdentityAssumption DEF Init, Session
  <2>5. counter \in [Keys -> Counter \union {None}] BY DEF Init
  <2>6. op \in [Threads -> Operation] BY <1>1 DEF Init
  <2>7. requests \in 0 .. MaxRequests /\ late \subseteq Workspaces
    BY IdentityAssumption DEF Init
  <2>8. tried \in [Keys -> Nat] /\ wins \in [Keys -> Nat] BY DEF Init
  <2> QED BY <2>1, <2>2, <2>3, <2>4, <2>5, <2>6, <2>7, <2>8 DEF TypeOK
<1> QED BY <1>2, <1>3 DEF IInv
-----------------------------------------------------------------------------
(* Steps that only move a thread on keep the invariant.                     *)
LEMMA MovesOn ==
  ASSUME IInv, NEW t \in Threads, NEW next \in Operation, Goes(t, next),
         OpHolds(next, workspaces, people, member, counter),
         requests' \in 0 .. MaxRequests, UNCHANGED <<directory, sessions, counters>>
  PROVE  IInv'
<1>1. /\ people' = people /\ workspaces' = workspaces /\ member' = member /\ late' = late
      /\ sessions' = sessions /\ counter' = counter /\ tried' = tried /\ wins' = wins
  BY DEF directory, counters
<1>2. RowsStay BY <1>1 DEF RowsStay
<1>3. OpHolds(next, workspaces', people', member', counter') BY <1>1
<1>4. op' \in [Threads -> Operation] /\ OpsHold' BY <1>2, <1>3, OpsStep
<1> QED BY <1>1, <1>4 DEF IInv, TypeOK

(* So do requests and commands that start.                                  *)
LEMMA StartKeeps ==
  ASSUME IInv, NEW t \in Threads, NEW next \in Operation, Starts(t, next),
         OpHolds(next, workspaces, people, member, counter)
  PROVE  IInv'
<1> DEFINE numbered == [next EXCEPT !.id = requests + 1]
<1>1. requests \in 0 .. MaxRequests /\ requests < MaxRequests /\ MaxRequests \in Nat
  BY IdentityAssumption DEF IInv, TypeOK, Starts
<1>2. requests + 1 \in 0 .. MaxRequests BY <1>1
<1>3. numbered \in Operation BY <1>2 DEF Operation
<1>4. /\ numbered.pc = next.pc /\ numbered.by = next.by /\ numbered.place = next.place
      /\ numbered.input = next.input /\ numbered.found = next.found /\ numbered.key = next.key
      /\ numbered.session = next.session
  BY DEF Operation
<1>5. Goes(t, numbered) /\ requests' = requests + 1 BY DEF Starts
<1>6. UNCHANGED <<directory, sessions, counters>> BY DEF Starts
<1> HIDE DEF numbered
<1>7. OpHolds(numbered, workspaces, people, member, counter) BY <1>4, ZenonT(40) DEF OpHolds
<1> QED BY <1>2, <1>3, <1>5, <1>6, <1>7, MovesOn

(* A session's bearer is a member of a workspace that is there.             *)
LEMMA SessionMember ==
  ASSUME IInv, NEW s \in sessions, Authenticated(s)
  PROVE  /\ s \in Session /\ s.place \in Places /\ s.place = <<s.place[1], s.place[2]>>
         /\ s.place[1] \in Workspaces /\ s.place[2] \in Users
         /\ s.place[1] \in workspaces /\ s.place[2] \in people
         /\ member[s.place] \in Member
<1>1. s \in Session BY DEF IInv, TypeOK
<1>2. s.place \in Places BY <1>1 DEF Session
<1>3. member[s.place] # None BY DEF Authenticated, Active
<1>4. member[s.place] \in Member BY <1>2, <1>3 DEF IInv, TypeOK
<1>5. s.place[1] \in workspaces /\ s.place[2] \in people BY <1>2, <1>3 DEF IInv, TypeOK
<1> QED BY <1>1, <1>2, <1>4, <1>5 DEF Places

(* An administrator asks to change another member's access.                 *)
LEMMA AskAccessKeeps == ASSUME IInv, NEW t \in Threads, AskAccess(t) PROVE IInv'
<1>1. PICK s \in sessions, u \in Users, input \in Inputs :
        /\ Administrator(s) /\ MayChange(s, <<s.place[1], u>>, input)
        /\ Starts(t, [Idle EXCEPT !.pc = "load access", !.by = s.place[2],
                                  !.place = <<s.place[1], u>>, !.input = input])
  BY DEF AskAccess
<1> DEFINE next == [Idle EXCEPT !.pc = "load access", !.by = s.place[2],
                                !.place = <<s.place[1], u>>, !.input = input]
<1>2. /\ s.place = <<s.place[1], s.place[2]>> /\ s.place[1] \in Workspaces /\ s.place[2] \in Users
  BY <1>1, SessionMember DEF Administrator
<1>3. u # s.place[2] BY <1>1, <1>2 DEF MayChange
<1>4. input \in Member BY IdentityAssumption
<1>5. next \in Operation BY <1>2, <1>4, IdleHolds DEF Operation, Places
<1>6. /\ next.pc = "load access" /\ next.by = s.place[2] /\ next.place = <<s.place[1], u>>
      /\ next.input = input
  BY DEF Idle
<1>7. OpHolds(next, workspaces, people, member, counter)
  BY <1>2, <1>3, <1>4, <1>6 DEF OpHolds, Places
<1> QED BY <1>1, <1>5, <1>7, StartKeeps

(* The access is read.                                                      *)
LEMMA LoadAccessKeeps == ASSUME IInv, NEW t \in Threads, LoadAccess(t) PROVE IInv'
<1>1. op[t] \in Operation /\ OpHolds(op[t], workspaces, people, member, counter) /\ op[t].pc = "load access"
  BY DEF IInv, TypeOK, OpsHold, LoadAccess, At
<1>2. requests' \in 0 .. MaxRequests /\ UNCHANGED <<directory, sessions, counters>>
  BY DEF LoadAccess, IInv, TypeOK
<1>3. CASE member[op[t].place] = None
  BY <1>2, <1>3, IdleHolds, MovesOn DEF LoadAccess, Ends
<1>4. CASE member[op[t].place] # None
  <2> DEFINE next == [op[t] EXCEPT !.pc = "store access", !.found = member[op[t].place]]
  <2>1. op[t].place \in Places BY <1>1 DEF OpHolds
  <2>2. member[op[t].place] \in Member BY <1>4, <2>1 DEF IInv, TypeOK
  <2>3. next \in Operation BY <1>1, <2>2 DEF Operation
  <2>4. /\ next.pc = "store access" /\ next.by = op[t].by /\ next.place = op[t].place
        /\ next.input = op[t].input /\ next.found = member[op[t].place]
    BY <1>1 DEF Operation
  <2>5. OpHolds(next, workspaces, people, member, counter)
    BY <1>1, <1>4, <2>1, <2>2, <2>4 DEF OpHolds
  <2>6. Goes(t, next) BY <1>4 DEF LoadAccess
  <2> QED BY <1>2, <2>3, <2>5, <2>6, MovesOn
<1> QED BY <1>3, <1>4

(* An administrator asks for a new user.                                    *)
LEMMA AskUserKeeps == ASSUME IInv, NEW t \in Threads, AskUser(t) PROVE IInv'
<1>1. PICK s \in sessions, u \in Users, input \in Inputs :
        /\ Administrator(s)
        /\ Starts(t, [Idle EXCEPT !.pc = "load user", !.place = <<s.place[1], u>>, !.input = input])
  BY DEF AskUser
<1> DEFINE next == [Idle EXCEPT !.pc = "load user", !.place = <<s.place[1], u>>, !.input = input]
<1>2. s.place[1] \in Workspaces /\ s.place[1] \in workspaces
  BY <1>1, SessionMember DEF Administrator
<1>3. input \in Member BY IdentityAssumption
<1>4. next \in Operation BY <1>2, <1>3, IdleHolds DEF Operation, Places
<1>5. next.pc = "load user" /\ next.place = <<s.place[1], u>> /\ next.input = input BY DEF Idle
<1>6. OpHolds(next, workspaces, people, member, counter)
  BY <1>2, <1>3, <1>5 DEF OpHolds, Places
<1> QED BY <1>1, <1>4, <1>6, StartKeeps

(* A founder may join.                                                      *)
LEMMA FounderIsMember == Founder \in Member
BY IdentityAssumption DEF Founder, Member

(* An administrator with the platform's grant asks for a workspace.         *)
LEMMA AskWorkspaceKeeps == ASSUME IInv, NEW t \in Threads, AskWorkspace(t) PROVE IInv'
<1>1. PICK s \in sessions, w \in Workspaces :
        /\ Administrator(s)
        /\ Starts(t, [Idle EXCEPT !.pc = "store workspace", !.place = <<w, s.place[2]>>,
                                  !.input = Founder])
  BY DEF AskWorkspace
<1> DEFINE next == [Idle EXCEPT !.pc = "store workspace", !.place = <<w, s.place[2]>>,
                                !.input = Founder]
<1>2. s.place[2] \in Users /\ s.place[2] \in people
  BY <1>1, SessionMember DEF Administrator
<1>3. next \in Operation BY <1>2, FounderIsMember, IdleHolds DEF Operation, Places
<1>4. next.pc = "store workspace" /\ next.place = <<w, s.place[2]>> /\ next.input = Founder BY DEF Idle
<1>5. OpHolds(next, workspaces, people, member, counter)
  BY <1>2, <1>4, FounderIsMember DEF OpHolds, Places
<1> QED BY <1>1, <1>3, <1>5, StartKeeps

(* The local operator asks for a workspace.                                 *)
LEMMA CreateWorkspaceKeeps == ASSUME IInv, NEW t \in Threads, CreateWorkspace(t) PROVE IInv'
<1>1. PICK p \in Targets :
        /\ p[2] \in people
        /\ Starts(t, [Idle EXCEPT !.pc = "store workspace", !.place = p, !.input = Founder])
  BY DEF CreateWorkspace
<1> DEFINE next == [Idle EXCEPT !.pc = "store workspace", !.place = p, !.input = Founder]
<1>2. p \in Places BY IdentityAssumption
<1>3. next \in Operation BY <1>2, FounderIsMember, IdleHolds DEF Operation
<1>4. next.pc = "store workspace" /\ next.place = p /\ next.input = Founder BY DEF Idle
<1>5. OpHolds(next, workspaces, people, member, counter)
  BY <1>1, <1>2, <1>4, FounderIsMember DEF OpHolds
<1> QED BY <1>1, <1>3, <1>5, StartKeeps

(* The local operator adds a membership.                                    *)
LEMMA AddMembershipKeeps == ASSUME IInv, NEW t \in Threads, AddMembership(t) PROVE IInv'
<1>1. PICK p \in Targets, role \in Roles :
        /\ p[2] \in people /\ p[1] \in workspaces
        /\ Starts(t, [Idle EXCEPT !.pc = "store membership", !.place = p,
                                  !.input = [role |-> role, grants |-> {}, enabled |-> TRUE]])
  BY DEF AddMembership
<1> DEFINE input == [role |-> role, grants |-> {}, enabled |-> TRUE]
           next == [Idle EXCEPT !.pc = "store membership", !.place = p, !.input = input]
<1>2. p \in Places BY IdentityAssumption
<1>3. input \in Member BY DEF Member
<1>4. next \in Operation BY <1>2, <1>3, IdleHolds DEF Operation
<1>5. next.pc = "store membership" /\ next.place = p /\ next.input = input BY DEF Idle
<1> HIDE DEF input
<1>6. OpHolds(next, workspaces, people, member, counter)
  BY <1>1, <1>2, <1>3, <1>5 DEF OpHolds
<1> QED BY <1>1, <1>4, <1>6, StartKeeps DEF input

(* The local operator adds the catalog's grants: role and enabled are those *)
(* that were read.                                                          *)
LEMMA SyncKeeps == ASSUME IInv, NEW t \in Threads, Sync(t) PROVE IInv'
<1>1. PICK p \in Targets :
        /\ Admin(member[p])
        /\ Starts(t, [Idle EXCEPT !.pc = "store sync", !.place = p, !.found = member[p],
                                  !.input = [member[p] EXCEPT !.grants = @ \union Tools]])
  BY DEF Sync
<1> DEFINE input == [member[p] EXCEPT !.grants = @ \union Tools]
           next == [Idle EXCEPT !.pc = "store sync", !.place = p, !.found = member[p], !.input = input]
<1>2. p \in Places BY IdentityAssumption
<1>3. member[p] \in Member /\ member[p] # None
  BY <1>1, <1>2 DEF Admin, Active, IInv, TypeOK
<1>4. input \in Member /\ input.role = member[p].role /\ input.enabled = member[p].enabled
  BY <1>3, IdentityAssumption DEF Member
<1>5. next \in Operation BY <1>2, <1>3, <1>4, IdleHolds DEF Operation
<1>6. /\ next.pc = "store sync" /\ next.place = p /\ next.input = input /\ next.found = member[p]
  BY DEF Idle
<1> HIDE DEF input
<1>7. OpHolds(next, workspaces, people, member, counter)
  BY <1>2, <1>3, <1>4, <1>6 DEF OpHolds
<1> QED BY <1>1, <1>5, <1>7, StartKeeps DEF input

(* A login begins.                                                          *)
LEMMA AskLoginKeeps == ASSUME IInv, NEW t \in Threads, AskLogin(t) PROVE IInv'
<1>1. PICK p \in Accounts :
        Starts(t, [Idle EXCEPT !.pc = "find", !.place = p, !.key = <<"login", p>>])
  BY DEF AskLogin
<1> DEFINE next == [Idle EXCEPT !.pc = "find", !.place = p, !.key = <<"login", p>>]
<1>2. p \in Places BY IdentityAssumption
<1>3. <<"login", p>> \in Keys BY LoginKey
<1>4. next \in Operation BY <1>2, <1>3, IdleHolds DEF Operation
<1>5. next.pc = "find" /\ next.place = p /\ next.key = <<"login", p>> BY DEF Idle
<1>6. OpHolds(next, workspaces, people, member, counter) BY <1>3, <1>5 DEF OpHolds
<1> QED BY <1>1, <1>4, <1>6, StartKeeps

(* A request that has a quota begins.                                       *)
LEMMA UseQuotaKeeps == ASSUME IInv, NEW t \in Threads, UseQuota(t) PROVE IInv'
<1>1. PICK s \in sessions :
        s.place \in Callers /\ Starts(t, [Idle EXCEPT !.pc = "find", !.key = <<"quota", s.place>>])
  BY DEF UseQuota
<1> DEFINE next == [Idle EXCEPT !.pc = "find", !.key = <<"quota", s.place>>]
<1>2. <<"quota", s.place>> \in Keys BY <1>1 DEF Keys
<1>3. next \in Operation BY <1>2, IdleHolds DEF Operation
<1>4. next.pc = "find" /\ next.place = None /\ next.key = <<"quota", s.place>> BY DEF Idle
<1>5. OpHolds(next, workspaces, people, member, counter) BY <1>2, <1>4 DEF OpHolds
<1> QED BY <1>1, <1>3, <1>5, StartKeeps

(* A logout begins.                                                         *)
LEMMA AskLogoutKeeps == ASSUME IInv, NEW t \in Threads, AskLogout(t) PROVE IInv'
<1>1. PICK s \in sessions : Starts(t, [Idle EXCEPT !.pc = "store logout", !.session = s])
  BY DEF AskLogout
<1> DEFINE next == [Idle EXCEPT !.pc = "store logout", !.session = s]
<1>2. s \in Session BY DEF IInv, TypeOK
<1>3. next \in Operation BY <1>2, IdleHolds DEF Operation
<1>4. next.pc = "store logout" /\ next.session = s BY DEF Idle
<1>5. OpHolds(next, workspaces, people, member, counter) BY <1>2, <1>4 DEF OpHolds
<1> QED BY <1>1, <1>3, <1>5, StartKeeps

(* Whatever starts keeps the invariant.                                     *)
LEMMA AskKeeps == ASSUME IInv, NEW t \in Threads, Ask(t) PROVE IInv'
BY AskAccessKeeps, AskUserKeeps, AskWorkspaceKeeps, AskLoginKeeps, UseQuotaKeeps, AskLogoutKeeps,
   SyncKeeps, CreateWorkspaceKeeps, AddMembershipKeeps DEF Ask
-----------------------------------------------------------------------------
(* What a thread that has started may rely on.                              *)
LEMMA Relies ==
  ASSUME IInv, NEW t \in Threads
  PROVE  op[t] \in Operation /\ OpHolds(op[t], workspaces, people, member, counter)
BY DEF IInv, TypeOK, OpsHold

(* A user of the name is looked for.                                        *)
LEMMA LoadUserKeeps == ASSUME IInv, NEW t \in Threads, LoadUser(t) PROVE IInv'
<1>1. op[t] \in Operation /\ OpHolds(op[t], workspaces, people, member, counter) /\ op[t].pc = "load user"
  BY Relies DEF LoadUser, At
<1>2. requests' \in 0 .. MaxRequests /\ UNCHANGED <<directory, sessions, counters>>
  BY DEF LoadUser, IInv, TypeOK
<1>3. CASE op[t].place[2] \in people
  BY <1>2, <1>3, IdleHolds, MovesOn DEF LoadUser, Ends
<1>4. CASE op[t].place[2] \notin people
  <2> DEFINE next == [op[t] EXCEPT !.pc = "store user"]
  <2>1. next \in Operation BY <1>1 DEF Operation
  <2>2. next.pc = "store user" /\ next.place = op[t].place /\ next.input = op[t].input
    BY <1>1 DEF Operation
  <2>3. OpHolds(next, workspaces, people, member, counter) BY <1>1, <2>2 DEF OpHolds
  <2>4. Goes(t, next) BY <1>4 DEF LoadUser
  <2> QED BY <1>2, <2>1, <2>3, <2>4, MovesOn
<1> QED BY <1>3, <1>4

(* A counter is looked for.                                                 *)
LEMMA FindCounterKeeps == ASSUME IInv, NEW t \in Threads, FindCounter(t) PROVE IInv'
<1> DEFINE where == IF counter[op[t].key] = None THEN "insert" ELSE "reset"
           next == [op[t] EXCEPT !.pc = where]
<1>1. op[t] \in Operation /\ OpHolds(op[t], workspaces, people, member, counter) /\ op[t].pc = "find"
  BY Relies DEF FindCounter, At
<1>2. requests' \in 0 .. MaxRequests /\ UNCHANGED <<directory, sessions, counters>> /\ Goes(t, next)
  BY DEF FindCounter, IInv, TypeOK
<1>3. where \in {"insert", "reset"} /\ (where = "reset" => counter[op[t].key] # None) OBVIOUS
<1> HIDE DEF where
<1>4. next \in Operation BY <1>1, <1>3 DEF Operation
<1>5. next.pc = where /\ next.place = op[t].place /\ next.key = op[t].key BY <1>1 DEF Operation
<1>6. OpHolds(next, workspaces, people, member, counter) BY <1>1, <1>3, <1>5 DEF OpHolds
<1> QED BY <1>2, <1>4, <1>6, MovesOn

(* The password is judged.                                                  *)
LEMMA VerifyKeeps == ASSUME IInv, NEW t \in Threads, Verify(t) PROVE IInv'
<1>1. op[t] \in Operation /\ OpHolds(op[t], workspaces, people, member, counter) /\ op[t].pc = "verify"
  BY Relies DEF Verify, At
<1>2. requests' \in 0 .. MaxRequests /\ UNCHANGED <<directory, sessions, counters>>
  BY DEF Verify, IInv, TypeOK
<1> DEFINE next == [op[t] EXCEPT !.pc = "issue"]
<1>3. next \in Operation BY <1>1 DEF Operation
<1>4. next.pc = "issue" /\ next.place = op[t].place BY <1>1 DEF Operation
<1>5. OpHolds(next, workspaces, people, member, counter) BY <1>1, <1>4 DEF OpHolds
<1>6. CASE Goes(t, next) BY <1>2, <1>3, <1>5, <1>6, MovesOn
<1>7. CASE Ends(t) BY <1>2, <1>7, IdleHolds, MovesOn DEF Ends
<1> QED BY <1>6, <1>7 DEF Verify

(* A request fails.                                                         *)
LEMMA AbandonKeeps == ASSUME IInv, NEW t \in Threads, Abandon(t) PROVE IInv'
BY IdleHolds, MovesOn DEF Abandon, Ends, IInv, TypeOK
-----------------------------------------------------------------------------
(* A thread that ends leaves the others what they rely on.                  *)
LEMMA EndsKeeps ==
  ASSUME IInv, RowsStay, NEW t \in Threads, Ends(t)
  PROVE  op' \in [Threads -> Operation] /\ OpsHold'
BY IdleHolds, OpsStep DEF Ends

(* What is written is a member.                                             *)
LEMMA MergedMember ==
  ASSUME NEW now \in Member, NEW found \in Member, NEW input \in Member,
         NEW row \in Merged(now, found, input)
  PROVE  /\ row \in Member
         /\ input.role = found.role => row.role = now.role
         /\ input.enabled = found.enabled => row.enabled = now.enabled
BY DEF Merged, Member

(* A row that is there is written: other rows and those who rely on any     *)
(* are not disturbed.                                                       *)
LEMMA RowWritten ==
  ASSUME IInv, NEW t \in Threads, NEW place \in Places, NEW row \in Member,
         member[place] # None, member' = [member EXCEPT ![place] = row],
         late' \subseteq Workspaces, Ends(t),
         UNCHANGED <<people, workspaces, sessions, counters, requests>>
  PROVE  IInv'
<1>1. /\ people' = people /\ workspaces' = workspaces /\ sessions' = sessions /\ requests' = requests
      /\ counter' = counter /\ tried' = tried /\ wins' = wins
  BY DEF counters
<1>2. member' \in [Places -> Member \union {None}] BY DEF IInv, TypeOK
<1>3. row # None BY IdentityAssumption
<1>4. \A p \in Places : (member'[p] # None) <=> (member[p] # None) BY <1>3 DEF IInv, TypeOK
<1>5. RowsStay BY <1>1, <1>4 DEF RowsStay
<1>6. op' \in [Threads -> Operation] /\ OpsHold' BY <1>5, EndsKeeps
<1> QED BY <1>1, <1>2, <1>4, <1>6 DEF IInv, TypeOK

(* The change of access is stored.                                          *)
LEMMA StoreAccessKeeps == ASSUME IInv, NEW t \in Threads, StoreAccess(t) PROVE IInv'
<1>1. op[t] \in Operation /\ OpHolds(op[t], workspaces, people, member, counter) /\ op[t].pc = "store access"
  BY Relies DEF StoreAccess, At
<1> DEFINE place == op[t].place
<1>2. place \in Places /\ op[t].input \in Member /\ op[t].found \in Member /\ member[place] # None
  BY <1>1 DEF OpHolds
<1>3. member[place] \in Member BY <1>2 DEF IInv, TypeOK
<1>4. PICK row \in Merged(member[place], op[t].found, op[t].input) : member' = [member EXCEPT ![place] = row]
  BY DEF StoreAccess
<1>5. row \in Member BY <1>2, <1>3, MergedMember
<1>6. late' \subseteq Workspaces BY <1>2 DEF StoreAccess, IInv, TypeOK, Places
<1>7. Ends(t) /\ UNCHANGED <<people, workspaces, sessions, counters, requests>> BY DEF StoreAccess
<1> HIDE DEF place
<1> QED BY <1>2, <1>4, <1>5, <1>6, <1>7, RowWritten

(* The sync is stored.                                                      *)
LEMMA StoreSyncKeeps == ASSUME IInv, NEW t \in Threads, StoreSync(t) PROVE IInv'
<1>1. op[t] \in Operation /\ OpHolds(op[t], workspaces, people, member, counter) /\ op[t].pc = "store sync"
  BY Relies DEF StoreSync, At
<1> DEFINE place == op[t].place
<1>2. place \in Places /\ op[t].input \in Member /\ op[t].found \in Member /\ member[place] # None
  BY <1>1 DEF OpHolds
<1>3. member[place] \in Member BY <1>2 DEF IInv, TypeOK
<1>4. PICK row \in Merged(member[place], op[t].found, op[t].input) : member' = [member EXCEPT ![place] = row]
  BY DEF StoreSync
<1>5. row \in Member BY <1>2, <1>3, MergedMember
<1>6. late' \subseteq Workspaces BY DEF StoreSync, IInv, TypeOK
<1>7. Ends(t) /\ UNCHANGED <<people, workspaces, sessions, counters, requests>> BY DEF StoreSync
<1> HIDE DEF place
<1> QED BY <1>2, <1>4, <1>5, <1>6, <1>7, RowWritten

(* A row is inserted beside its user and its workspace.                     *)
LEMMA RowInserted ==
  ASSUME IInv, NEW t \in Threads, NEW place \in Places, NEW row \in Member,
         member' = [member EXCEPT ![place] = row],
         people \subseteq people', people' \subseteq Users, place[2] \in people',
         workspaces \subseteq workspaces', workspaces' \subseteq Workspaces, place[1] \in workspaces',
         Ends(t), UNCHANGED <<late, sessions, counters, requests>>
  PROVE  IInv'
<1>1. /\ late' = late /\ sessions' = sessions /\ requests' = requests
      /\ counter' = counter /\ tried' = tried /\ wins' = wins
  BY DEF counters
<1>2. member' \in [Places -> Member \union {None}] BY DEF IInv, TypeOK
<1>3. row # None BY IdentityAssumption
<1>4. \A p \in Places : member[p] # None => member'[p] # None BY <1>3 DEF IInv, TypeOK
<1>5. RowsStay BY <1>1, <1>4 DEF RowsStay
<1>6. op' \in [Threads -> Operation] /\ OpsHold' BY <1>5, EndsKeeps
<1>7. \A p \in Places : member'[p] # None => p[1] \in workspaces' /\ p[2] \in people'
  BY DEF IInv, TypeOK
<1> QED BY <1>1, <1>2, <1>6, <1>7 DEF IInv, TypeOK

(* Nothing is inserted.                                                     *)
LEMMA NothingInserted ==
  ASSUME IInv, NEW t \in Threads, Ends(t),
         UNCHANGED <<member, people, workspaces, late, sessions, counters, requests>>
  PROVE  IInv'
BY IdleHolds, MovesOn DEF Ends, directory, IInv, TypeOK

(* The user and the first membership are inserted.                          *)
LEMMA StoreUserKeeps == ASSUME IInv, NEW t \in Threads, StoreUser(t) PROVE IInv'
<1>1. op[t] \in Operation /\ OpHolds(op[t], workspaces, people, member, counter) /\ op[t].pc = "store user"
  BY Relies DEF StoreUser, At
<1> DEFINE place == op[t].place
<1>2. place \in Places /\ op[t].input \in Member /\ place[1] \in workspaces BY <1>1 DEF OpHolds
<1>3. place[2] \in Users BY <1>2 DEF Places
<1>4. Ends(t) /\ UNCHANGED <<workspaces, late, sessions, counters, requests>> BY DEF StoreUser
<1>5. CASE place[2] \in people BY <1>4, <1>5, NothingInserted DEF StoreUser
<1>6. CASE place[2] \notin people
  <2>1. people' = people \union {place[2]} /\ member' = [member EXCEPT ![place] = op[t].input]
    BY <1>6 DEF StoreUser, Inserts
  <2>2. people' \subseteq Users /\ workspaces' \subseteq Workspaces /\ workspaces' = workspaces
    BY <1>3, <1>4, <2>1 DEF IInv, TypeOK
  <2> HIDE DEF place
  <2> QED BY <1>2, <1>4, <2>1, <2>2, RowInserted
<1> QED BY <1>5, <1>6

(* The workspace and its founder are inserted.                              *)
LEMMA StoreWorkspaceKeeps == ASSUME IInv, NEW t \in Threads, StoreWorkspace(t) PROVE IInv'
<1>1. op[t] \in Operation /\ OpHolds(op[t], workspaces, people, member, counter) /\ op[t].pc = "store workspace"
  BY Relies DEF StoreWorkspace, At
<1> DEFINE place == op[t].place
<1>2. place \in Places /\ op[t].input \in Member /\ place[2] \in people BY <1>1 DEF OpHolds
<1>3. place[1] \in Workspaces BY <1>2 DEF Places
<1>4. Ends(t) /\ UNCHANGED <<people, late, sessions, counters, requests>> BY DEF StoreWorkspace
<1>5. CASE place[1] \in workspaces BY <1>4, <1>5, NothingInserted DEF StoreWorkspace
<1>6. CASE place[1] \notin workspaces
  <2>1. workspaces' = workspaces \union {place[1]} /\ member' = [member EXCEPT ![place] = op[t].input]
    BY <1>6 DEF StoreWorkspace, Inserts
  <2>2. workspaces' \subseteq Workspaces /\ people' \subseteq Users /\ people' = people
    BY <1>3, <1>4, <2>1 DEF IInv, TypeOK
  <2> HIDE DEF place
  <2> QED BY <1>2, <1>4, <2>1, <2>2, RowInserted
<1> QED BY <1>5, <1>6

(* The membership is inserted.                                              *)
LEMMA StoreMembershipKeeps == ASSUME IInv, NEW t \in Threads, StoreMembership(t) PROVE IInv'
<1>1. op[t] \in Operation /\ OpHolds(op[t], workspaces, people, member, counter) /\ op[t].pc = "store membership"
  BY Relies DEF StoreMembership, At
<1> DEFINE place == op[t].place
<1>2. /\ place \in Places /\ op[t].input \in Member
      /\ place[1] \in workspaces /\ place[2] \in people
  BY <1>1 DEF OpHolds
<1>3. Ends(t) /\ UNCHANGED <<people, workspaces, late, sessions, counters, requests>>
  BY DEF StoreMembership
<1>4. CASE member[place] # None BY <1>3, <1>4, NothingInserted DEF StoreMembership
<1>5. CASE member[place] = None
  <2>1. member' = [member EXCEPT ![place] = op[t].input] BY <1>5 DEF StoreMembership, Inserts
  <2>2. /\ workspaces' \subseteq Workspaces /\ people' \subseteq Users
        /\ people' = people /\ workspaces' = workspaces
    BY <1>3 DEF IInv, TypeOK
  <2> HIDE DEF place
  <2> QED BY <1>2, <1>3, <2>1, <2>2, RowInserted
<1> QED BY <1>4, <1>5

(* Whatever reads and then writes memberships keeps the invariant.          *)
LEMMA ChangeKeeps == ASSUME IInv, NEW t \in Threads, Change(t) PROVE IInv'
BY LoadAccessKeeps, StoreAccessKeeps, StoreSyncKeeps, LoadUserKeeps, StoreUserKeeps,
   StoreWorkspaceKeeps, StoreMembershipKeeps DEF Change
-----------------------------------------------------------------------------
(* A counter is set.                                                        *)
LEMMA CounterSet ==
  ASSUME IInv, NEW k \in Keys, NEW c \in Counter, counter' = [counter EXCEPT ![k] = c],
         tried' \in [Keys -> Nat], wins' \in [Keys -> Nat], sessions' \subseteq Session,
         NEW t \in Threads, NEW next \in Operation, Goes(t, next),
         OpHolds(next, workspaces, people, member, counter'),
         UNCHANGED <<directory, requests>>
  PROVE  IInv'
<1>1. /\ people' = people /\ workspaces' = workspaces /\ member' = member /\ late' = late
      /\ requests' = requests
  BY DEF directory
<1>2. c # None BY IdentityAssumption
<1>3. counter' \in [Keys -> Counter \union {None}] BY DEF IInv, TypeOK
<1>4. \A j \in Keys : counter[j] # None => counter'[j] # None BY <1>2 DEF IInv, TypeOK
<1>5. RowsStay BY <1>1, <1>4 DEF RowsStay
<1>6. OpHolds(next, workspaces', people', member', counter') BY <1>1
<1>7. op' \in [Threads -> Operation] /\ OpsHold' BY <1>5, <1>6, OpsStep
<1> QED BY <1>1, <1>3, <1>7 DEF IInv, TypeOK

(* An admitted login goes on to its password, an admitted request its way.  *)
LEMMA AdmittedHolds ==
  ASSUME IInv, NEW t \in Threads, op[t].pc \in {"find", "insert", "reset", "count"}, Admitted(t),
         NEW counts, counts[op[t].key] # None
  PROVE  \E next \in Operation : Goes(t, next) /\ OpHolds(next, workspaces, people, member, counts)
<1>1. op[t] \in Operation /\ OpHolds(op[t], workspaces, people, member, counter) BY Relies
<1>2. CASE op[t].place = None
  <2>1. Goes(t, Idle) BY <1>2 DEF Admitted
  <2> QED BY <2>1, IdleHolds
<1>3. CASE op[t].place # None
  <2> DEFINE next == [op[t] EXCEPT !.pc = "verify", !.key = None]
  <2>1. op[t].place \in Accounts /\ op[t].key = <<"login", op[t].place>> BY <1>1, <1>3 DEF OpHolds
  <2>2. next \in Operation BY <1>1 DEF Operation
  <2>3. next.pc = "verify" /\ next.place = op[t].place BY <1>1 DEF Operation
  <2>4. OpHolds(next, workspaces, people, member, counts) BY <2>1, <2>3 DEF OpHolds
  <2>5. Goes(t, next) BY <1>3 DEF Admitted
  <2> HIDE DEF next
  <2> QED BY <2>2, <2>4, <2>5
<1> QED BY <1>2, <1>3

(* A new window begins.                                                     *)
LEMMA NewWindowKeeps ==
  ASSUME IInv, NEW t \in Threads, op[t].pc \in {"insert", "reset"}, NewWindow(t),
         UNCHANGED <<directory, sessions, requests>>
  PROVE  IInv'
<1> DEFINE k == op[t].key
           c == [count |-> 1, lapsed |-> FALSE]
<1>1. k \in Keys BY Relies DEF OpHolds
<1>2. c \in Counter BY IdentityAssumption DEF Counter
<1>3. counter' = [counter EXCEPT ![k] = c] BY DEF NewWindow
<1>4. tried' \in [Keys -> Nat] /\ wins' \in [Keys -> Nat] BY DEF NewWindow, IInv, TypeOK
<1>5. sessions' \subseteq Session BY DEF IInv, TypeOK
<1> HIDE DEF c
<1>6. counter'[k] # None BY <1>1, <1>2, <1>3, IdentityAssumption DEF IInv, TypeOK
<1>7. PICK next \in Operation : Goes(t, next) /\ OpHolds(next, workspaces, people, member, counter')
  BY <1>6, AdmittedHolds DEF NewWindow
<1> HIDE DEF k
<1> QED BY <1>1, <1>2, <1>3, <1>4, <1>5, <1>7, CounterSet

(* The first attempt inserts the counter, or fails.                         *)
LEMMA InsertCounterKeeps == ASSUME IInv, NEW t \in Threads, InsertCounter(t) PROVE IInv'
<1>1. op[t].pc = "insert" /\ UNCHANGED <<directory, sessions, requests>> BY DEF InsertCounter, At
<1>2. CASE counter[op[t].key] = None BY <1>1, <1>2, NewWindowKeeps DEF InsertCounter
<1>3. CASE counter[op[t].key] # None
  <2>1. Ends(t) /\ UNCHANGED counters BY <1>3 DEF InsertCounter
  <2>2. requests' \in 0 .. MaxRequests BY <1>1 DEF IInv, TypeOK
  <2> QED BY <1>1, <2>1, <2>2, IdleHolds, MovesOn DEF Ends
<1> QED BY <1>2, <1>3

(* A window that is over is followed by another.                            *)
LEMMA ResetCounterKeeps == ASSUME IInv, NEW t \in Threads, ResetCounter(t) PROVE IInv'
<1>1. op[t].pc = "reset" /\ UNCHANGED <<directory, sessions, requests>> BY DEF ResetCounter, At
<1>2. CASE counter[op[t].key].lapsed BY <1>1, <1>2, NewWindowKeeps DEF ResetCounter
<1>3. CASE ~counter[op[t].key].lapsed
  <2> DEFINE next == [op[t] EXCEPT !.pc = "count"]
  <2>1. op[t] \in Operation /\ OpHolds(op[t], workspaces, people, member, counter) BY Relies
  <2>2. Goes(t, next) /\ UNCHANGED counters BY <1>3 DEF ResetCounter
  <2>3. next \in Operation BY <2>1 DEF Operation
  <2>4. next.pc = "count" /\ next.key = op[t].key /\ next.place = op[t].place BY <2>1 DEF Operation
  <2>5. OpHolds(next, workspaces, people, member, counter) BY <1>1, <2>1, <2>4 DEF OpHolds
  <2>6. requests' \in 0 .. MaxRequests BY <1>1 DEF IInv, TypeOK
  <2> HIDE DEF next
  <2> QED BY <1>1, <2>2, <2>3, <2>5, <2>6, MovesOn
<1> QED BY <1>2, <1>3

(* An attempt is counted while there is room.                               *)
LEMMA CountUpKeeps == ASSUME IInv, NEW t \in Threads, CountUp(t) PROVE IInv'
<1> DEFINE k == op[t].key
           c == [counter[k] EXCEPT !.count = @ + 1]
<1>1. op[t].pc = "count" /\ UNCHANGED <<directory, sessions, requests>> BY DEF CountUp, At
<1>2. CASE ~Below(counter[k])
  <2>1. Ends(t) /\ UNCHANGED counters BY <1>2 DEF CountUp
  <2>2. requests' \in 0 .. MaxRequests BY <1>1 DEF IInv, TypeOK
  <2> QED BY <1>1, <2>1, <2>2, IdleHolds, MovesOn DEF Ends
<1>3. CASE Below(counter[k])
  <2>1. k \in Keys /\ counter[k] # None BY <1>1, Relies DEF OpHolds
  <2>2. counter[k] \in Counter BY <2>1 DEF IInv, TypeOK
  <2>3. counter[k].count \in Nat /\ counter[k].count < Limit /\ Limit \in Nat
    BY <1>3, <2>2, IdentityAssumption DEF Below, Counter
  <2>4. c \in Counter BY <2>2, <2>3 DEF Counter
  <2>5. counter' = [counter EXCEPT ![k] = c] BY <1>3 DEF CountUp
  <2>6. tried' \in [Keys -> Nat] /\ wins' \in [Keys -> Nat]
    BY <1>3, <2>1 DEF CountUp, IInv, TypeOK
  <2>7. sessions' \subseteq Session BY <1>1 DEF IInv, TypeOK
  <2> HIDE DEF c
  <2>8. counter'[k] # None BY <2>1, <2>4, <2>5, IdentityAssumption DEF IInv, TypeOK
  <2>9. PICK next \in Operation : Goes(t, next) /\ OpHolds(next, workspaces, people, member, counter')
    BY <1>1, <1>3, <2>8, AdmittedHolds DEF CountUp
  <2> HIDE DEF k
  <2> QED BY <1>1, <2>1, <2>4, <2>5, <2>6, <2>7, <2>9, CounterSet
<1> QED BY <1>2, <1>3

(* A session is issued and the counter set to zero.                         *)
LEMMA IssueKeeps == ASSUME IInv, NEW t \in Threads, Issue(t) PROVE IInv'
<1> DEFINE k == <<"login", op[t].place>>
           c == [counter[k] EXCEPT !.count = 0]
<1>1. op[t].pc = "issue" /\ UNCHANGED <<directory, tried, requests>> BY DEF Issue, At
<1>2. op[t] \in Operation /\ op[t].place \in Accounts /\ counter[k] # None BY <1>1, Relies DEF OpHolds
<1>3. k \in Keys BY <1>2, LoginKey
<1>4. counter[k] \in Counter BY <1>2, <1>3 DEF IInv, TypeOK
<1>5. c \in Counter BY <1>4, IdentityAssumption DEF Counter
<1>6. counter' = [counter EXCEPT ![k] = c] BY DEF Issue
<1>7. tried' \in [Keys -> Nat] BY <1>1 DEF IInv, TypeOK
<1>8. wins' \in [Keys -> Nat] BY <1>3 DEF Issue, IInv, TypeOK
<1>9. sessions' \subseteq Session
  <2>1. op[t].place \in Places /\ op[t].id \in 0 .. MaxRequests
    BY <1>2, IdentityAssumption DEF Operation
  <2>2. [place |-> op[t].place, id |-> op[t].id] \in Session BY <2>1 DEF Session
  <2> QED BY <2>2 DEF Issue, IInv, TypeOK
<1>10. Goes(t, Idle) BY DEF Issue, Ends
<1> HIDE DEF k, c
<1> QED BY <1>1, <1>3, <1>5, <1>6, <1>7, <1>8, <1>9, <1>10, IdleHolds, CounterSet

(* Only sessions and threads change.                                        *)
LEMMA SessionsChange ==
  ASSUME IInv, sessions' \subseteq Session, op' = op,
         UNCHANGED <<directory, counters, requests>>
  PROVE  IInv'
BY DEF IInv, TypeOK, OpsHold, directory, counters

(* A session ends.                                                          *)
LEMMA LogoutKeeps == ASSUME IInv, NEW t \in Threads, Logout(t) PROVE IInv'
<1>1. /\ people' = people /\ workspaces' = workspaces /\ member' = member /\ late' = late
      /\ counter' = counter /\ tried' = tried /\ wins' = wins /\ requests' = requests
  BY DEF Logout, directory, counters
<1>2. Ends(t) /\ sessions' \subseteq sessions BY DEF Logout
<1>3. RowsStay BY <1>1 DEF RowsStay
<1>4. op' \in [Threads -> Operation] /\ OpsHold' BY <1>2, <1>3, EndsKeeps
<1> QED BY <1>1, <1>2, <1>4 DEF IInv, TypeOK

(* Whatever counts, logs in or out keeps the invariant.                     *)
LEMMA EnterKeeps == ASSUME IInv, NEW t \in Threads, Enter(t) PROVE IInv'
BY FindCounterKeeps, InsertCounterKeeps, ResetCounterKeeps, CountUpKeeps, VerifyKeeps,
   IssueKeeps, LogoutKeeps DEF Enter

(* A window is over.                                                        *)
LEMMA WindowLapsesKeeps == ASSUME IInv, NEW k \in Keys, WindowLapses(k) PROVE IInv'
<1> DEFINE c == [counter[k] EXCEPT !.lapsed = TRUE]
<1>1. /\ people' = people /\ workspaces' = workspaces /\ member' = member /\ late' = late
      /\ sessions' = sessions /\ tried' = tried /\ wins' = wins /\ requests' = requests /\ op' = op
  BY DEF WindowLapses, directory
<1>2. counter[k] \in Counter BY DEF WindowLapses, IInv, TypeOK
<1>3. c \in Counter BY <1>2 DEF Counter
<1>4. counter' = [counter EXCEPT ![k] = c] BY DEF WindowLapses
<1> HIDE DEF c
<1>5. counter' \in [Keys -> Counter \union {None}] BY <1>3, <1>4 DEF IInv, TypeOK
<1>6. \A j \in Keys : counter[j] # None => counter'[j] # None
  BY <1>3, <1>4, IdentityAssumption DEF IInv, TypeOK
<1>7. ASSUME NEW t \in Threads
      PROVE  OpHolds(op[t], workspaces, people, member, counter')
  <2>1. OpHolds(op[t], workspaces, people, member, counter) BY Relies
  <2> QED BY <1>6, <2>1, LoginKey DEF OpHolds
<1>8. OpsHold' BY <1>1, <1>7 DEF OpsHold
<1> QED BY <1>1, <1>5, <1>8 DEF IInv, TypeOK

(* Every step keeps the invariant.                                          *)
LEMMA NextInv == IInv /\ [Next]_vars => IInv'
<1> SUFFICES ASSUME IInv, [Next]_vars PROVE IInv' OBVIOUS
<1>1. ASSUME NEW t \in Threads, Ask(t) \/ Change(t) \/ Enter(t) \/ Abandon(t) PROVE IInv'
  BY <1>1, AskKeeps, ChangeKeeps, EnterKeeps, AbandonKeeps
<1>2. ASSUME NEW s \in sessions, Expire(s) PROVE IInv'
  BY <1>2, SessionsChange DEF Expire, IInv, TypeOK
<1>3. ASSUME NEW k \in Keys, WindowLapses(k) PROVE IInv'
  BY <1>3, WindowLapsesKeeps
<1>4. CASE UNCHANGED vars
  BY <1>4, SessionsChange DEF vars, directory, counters, IInv, TypeOK
<1> QED BY <1>1, <1>2, <1>3, <1>4 DEF Next

(* The invariant holds throughout.                                          *)
LEMMA Invariant == Spec => []IInv
BY InitInv, NextInv, PTL DEF Spec

(* Rows, sessions, counters and operations keep their types, and a          *)
(* membership has its user and its workspace.                               *)
THEOREM TypeCorrect == Spec => []TypeOK
<1>1. IInv => TypeOK BY DEF IInv
<1> QED BY <1>1, Invariant, PTL
-----------------------------------------------------------------------------
(* Memberships, workspaces and their lateness change in five steps only.    *)
LEMMA DirectoryChanges ==
  ASSUME [Next]_vars
  PROVE  \/ UNCHANGED directory
         \/ \E t \in Threads : \/ StoreAccess(t) \/ StoreSync(t)
                               \/ StoreUser(t) \/ StoreWorkspace(t) \/ StoreMembership(t)
<1>1. ASSUME NEW t \in Threads, Ask(t) PROVE UNCHANGED directory
  BY <1>1 DEF Ask, AskAccess, AskUser, AskWorkspace, AskLogin, UseQuota, AskLogout, Sync,
              CreateWorkspace, AddMembership, Starts
<1>2. ASSUME NEW t \in Threads, Change(t)
      PROVE  \/ UNCHANGED directory
             \/ StoreAccess(t) \/ StoreSync(t) \/ StoreUser(t) \/ StoreWorkspace(t) \/ StoreMembership(t)
  BY <1>2 DEF Change, LoadAccess, LoadUser
<1>3. ASSUME NEW t \in Threads, Enter(t) PROVE UNCHANGED directory
  BY <1>3 DEF Enter, FindCounter, InsertCounter, ResetCounter, CountUp, Verify, Issue, Logout
<1>4. ASSUME NEW t \in Threads, Abandon(t) PROVE UNCHANGED directory BY <1>4 DEF Abandon
<1>5. ASSUME NEW s \in sessions, Expire(s) PROVE UNCHANGED directory BY <1>5 DEF Expire
<1>6. ASSUME NEW k \in Keys, WindowLapses(k) PROVE UNCHANGED directory BY <1>6 DEF WindowLapses
<1>7. CASE UNCHANGED vars BY <1>7 DEF vars, directory
<1> QED BY <1>1, <1>2, <1>3, <1>4, <1>5, <1>6, <1>7 DEF Next

(* Every first workspace has an administrator.                              *)
LEMMA InitAdmins == Init => AdminsRemain
<1> SUFFICES ASSUME Init, NEW w \in workspaces PROVE \E u \in Users : Admin(member[<<w, u>>])
  BY DEF AdminsRemain
<1>1. PICK p \in Places : Members[p] # None /\ w = p[1] BY DEF Init
<1>2. PICK v \in Workspaces, u \in Users : p = <<v, u>> BY DEF Places
<1> QED BY <1>1, <1>2, IdentityAssumption DEF Init

(* A workspace keeps an administrator when its rows of administrators stay  *)
(* such rows.                                                               *)
LEMMA AdminStays ==
  ASSUME AdminsRemain, NEW w \in workspaces, late \subseteq late',
         \A u \in Users : Admin(member[<<w, u>>]) => Admin(member'[<<w, u>>])
  PROVE  w \in late' \/ \E u \in Users : Admin(member'[<<w, u>>])
<1>1. w \in late \/ \E u \in Users : Admin(member[<<w, u>>]) BY DEF AdminsRemain
<1> QED BY <1>1

(* No administrator's own row is written by him, so that he remains; and    *)
(* when he is none any more, the workspace is late.                         *)
LEMMA StoreAccessAdmins ==
  ASSUME IInv, AdminsRemain, NEW t \in Threads, StoreAccess(t)
  PROVE  AdminsRemain'
<1> DEFINE place == op[t].place
<1>1. OpHolds(op[t], workspaces, people, member, counter) /\ op[t].pc = "store access"
  BY Relies DEF StoreAccess, At
<1>2. place \in Places /\ op[t].by \in Users /\ place[2] # op[t].by BY <1>1 DEF OpHolds
<1>3. /\ workspaces' = workspaces
      /\ \E row \in Merged(member[place], op[t].found, op[t].input) : member' = [member EXCEPT ![place] = row]
  BY DEF StoreAccess
<1>4. late' = IF Admin(member[<<place[1], op[t].by>>]) THEN late ELSE late \union {place[1]}
  BY DEF StoreAccess
<1> HIDE DEF place
<1>5. place[1] \in Workspaces /\ place[2] \in Users /\ place = <<place[1], place[2]>>
  BY <1>2 DEF Places
<1>6. \A p \in Places : p # place => member'[p] = member[p] BY <1>3 DEF IInv, TypeOK
<1>7. ASSUME NEW w \in workspaces PROVE w \in late' \/ \E u \in Users : Admin(member'[<<w, u>>])
  <2>1. w \in Workspaces BY DEF IInv, TypeOK
  <2>2. CASE w = place[1]
    <3>1. CASE Admin(member[<<w, op[t].by>>])
      <4>1. <<w, op[t].by>> \in Places BY <1>2, <2>1 DEF Places
      <4>2. <<w, op[t].by>> # place BY <1>2, <1>5
      <4>3. member'[<<w, op[t].by>>] = member[<<w, op[t].by>>] BY <1>6, <4>1, <4>2
      <4> QED BY <1>2, <3>1, <4>3
    <3>2. CASE ~Admin(member[<<w, op[t].by>>]) BY <1>4, <2>2, <3>2
    <3> QED BY <3>1, <3>2
  <2>3. CASE w # place[1]
    <3>1. ASSUME NEW u \in Users PROVE member'[<<w, u>>] = member[<<w, u>>]
      <4>1. <<w, u>> \in Places BY <2>1 DEF Places
      <4>2. <<w, u>> # place BY <1>5, <2>3
      <4> QED BY <1>6, <4>1, <4>2
    <3>2. late \subseteq late' BY <1>4
    <3> QED BY <3>1, <3>2, AdminStays
  <2> QED BY <2>2, <2>3
<1> QED BY <1>3, <1>7 DEF AdminsRemain, Admin, Active

(* A sync writes the role and "enabled" that are there.                     *)
LEMMA StoreSyncAdmins ==
  ASSUME IInv, AdminsRemain, NEW t \in Threads, StoreSync(t)
  PROVE  AdminsRemain'
<1> DEFINE place == op[t].place
<1>1. OpHolds(op[t], workspaces, people, member, counter) /\ op[t].pc = "store sync"
  BY Relies DEF StoreSync, At
<1>2. /\ place \in Places /\ op[t].input \in Member /\ op[t].found \in Member /\ member[place] # None
      /\ op[t].input.role = op[t].found.role /\ op[t].input.enabled = op[t].found.enabled
  BY <1>1 DEF OpHolds
<1>3. member[place] \in Member BY <1>2 DEF IInv, TypeOK
<1>4. PICK row \in Merged(member[place], op[t].found, op[t].input) : member' = [member EXCEPT ![place] = row]
  BY DEF StoreSync
<1>5. workspaces' = workspaces /\ late' = late
  BY DEF StoreSync
<1>9. row \in Member /\ row.role = member[place].role /\ row.enabled = member[place].enabled
  BY <1>2, <1>3, MergedMember
<1> HIDE DEF place
<1>6. row # None BY <1>9, IdentityAssumption
<1>7. ASSUME NEW p \in Places, Admin(member[p]) PROVE Admin(member'[p])
  <2>1. CASE p = place BY <1>2, <1>4, <1>6, <1>7, <1>9, <2>1 DEF IInv, TypeOK, Admin, Active
  <2>2. CASE p # place BY <1>4, <1>7, <2>2 DEF IInv, TypeOK
  <2> QED BY <2>1, <2>2
<1>8. ASSUME NEW w \in workspaces PROVE w \in late' \/ \E u \in Users : Admin(member'[<<w, u>>])
  <2>1. \A u \in Users : <<w, u>> \in Places BY DEF Places, IInv, TypeOK
  <2> QED BY <1>5, <1>7, <2>1, AdminStays
<1> QED BY <1>5, <1>8 DEF AdminsRemain, Admin, Active

(* A row inserted beside the others takes nobody's right away.              *)
LEMMA InsertedAdmins ==
  ASSUME IInv, AdminsRemain, NEW place \in Places, NEW row \in Member, member[place] = None,
         member' = [member EXCEPT ![place] = row], late' = late,
         NEW w \in workspaces
  PROVE  w \in late' \/ \E u \in Users : Admin(member'[<<w, u>>])
<1>1. ~Admin(member[place]) BY DEF Admin, Active
<1>2. \A p \in Places : Admin(member[p]) => member'[p] = member[p] BY <1>1 DEF IInv, TypeOK
<1>3. \A u \in Users : <<w, u>> \in Places BY DEF Places, IInv, TypeOK
<1> QED BY <1>2, <1>3, AdminStays

(* A new user or membership takes nobody's right away.                      *)
LEMMA StoreMemberAdmins ==
  ASSUME IInv, AdminsRemain, NEW t \in Threads, StoreUser(t) \/ StoreMembership(t)
  PROVE  AdminsRemain'
<1> DEFINE place == op[t].place
<1>1. place \in Places /\ op[t].input \in Member
  BY Relies DEF StoreUser, StoreMembership, At, OpHolds
<1>2. workspaces' = workspaces /\ late' = late BY DEF StoreUser, StoreMembership
<1>3. CASE member' = member BY <1>2, <1>3 DEF AdminsRemain, Admin, Active
<1>4. CASE member' # member
  <2>1. member' = [member EXCEPT ![place] = op[t].input] BY <1>4 DEF StoreUser, StoreMembership, Inserts
  <2>2. member[place] = None
    BY <1>1, <1>4 DEF StoreUser, StoreMembership, IInv, TypeOK
  <2> HIDE DEF place
  <2>3. \A w \in workspaces : w \in late' \/ \E u \in Users : Admin(member'[<<w, u>>])
    BY <1>1, <1>2, <2>1, <2>2, InsertedAdmins
  <2> QED BY <1>2, <2>3 DEF AdminsRemain, Admin, Active
<1> QED BY <1>3, <1>4

(* A new workspace comes with its founder.                                  *)
LEMMA StoreWorkspaceAdmins ==
  ASSUME IInv, AdminsRemain, NEW t \in Threads, StoreWorkspace(t)
  PROVE  AdminsRemain'
<1> DEFINE place == op[t].place
<1>1. place \in Places /\ op[t].input = Founder
  BY Relies DEF StoreWorkspace, At, OpHolds
<1>2. late' = late BY DEF StoreWorkspace
<1>3. CASE place[1] \in workspaces
  BY <1>2, <1>3 DEF StoreWorkspace, AdminsRemain, Admin, Active
<1>4. CASE place[1] \notin workspaces
  <2>1. member' = [member EXCEPT ![place] = Founder] /\ workspaces' = workspaces \union {place[1]}
    BY <1>1, <1>4 DEF StoreWorkspace, Inserts
  <2>2. member[place] = None BY <1>1, <1>4 DEF IInv, TypeOK
  <2> HIDE DEF place
  <2>3. \A w \in workspaces : w \in late' \/ \E u \in Users : Admin(member'[<<w, u>>])
    BY <1>1, <1>2, <2>1, <2>2, FounderIsMember, InsertedAdmins
  <2>4. place[2] \in Users /\ place = <<place[1], place[2]>> BY <1>1 DEF Places
  <2>5. member'[place] = Founder BY <1>1, <2>1 DEF IInv, TypeOK
  <2>6. Admin(Founder) BY FounderIsMember, IdentityAssumption DEF Admin, Active, Founder
  <2>7. \E u \in Users : Admin(member'[<<place[1], u>>]) BY <2>4, <2>5, <2>6
  <2> QED BY <2>1, <2>3, <2>7 DEF AdminsRemain, Admin, Active
<1> QED BY <1>3, <1>4

(* Workspaces keep an active administrator, unless one who had lost the     *)
(* right stored a change.  Who is authenticated as administrator never      *)
(* writes his own row, so that of those with the right the last remains.    *)
THEOREM AdministratorsRemain == Spec => []AdminsRemain
<1>1. AdminsRemain /\ IInv /\ [Next]_vars => AdminsRemain'
  <2> SUFFICES ASSUME AdminsRemain, IInv, [Next]_vars PROVE AdminsRemain' OBVIOUS
  <2>1. CASE UNCHANGED directory BY <2>1 DEF directory, AdminsRemain, Admin, Active
  <2>2. ASSUME NEW t \in Threads, \/ StoreAccess(t) \/ StoreSync(t)
                                  \/ StoreUser(t) \/ StoreWorkspace(t) \/ StoreMembership(t)
        PROVE  AdminsRemain'
    BY <2>2, StoreAccessAdmins, StoreSyncAdmins, StoreMemberAdmins, StoreWorkspaceAdmins
  <2> QED BY <2>1, <2>2, DirectoryChanges
<1> QED BY <1>1, InitAdmins, Invariant, PTL DEF Spec
-----------------------------------------------------------------------------
(* What a row gains it gains from an operation that found it without.       *)
LEMMA WrittenKnowingly ==
  ASSUME IInv, NEW t \in Threads, StoreAccess(t) \/ StoreSync(t),
         NEW p \in Places, member[p] # None
  PROVE  /\ member'[p].enabled /\ ~member[p].enabled =>
              op[t].place = p /\ op[t].found # None /\ ~op[t].found.enabled
         /\ member'[p].role = "admin" /\ member[p].role # "admin" =>
              op[t].place = p /\ op[t].found # None /\ op[t].found.role # "admin"
<1> DEFINE place == op[t].place
<1>1. place \in Places /\ op[t].found \in Member /\ op[t].input \in Member
  BY Relies DEF StoreAccess, StoreSync, At, OpHolds
<1>2. PICK row \in Merged(member[place], op[t].found, op[t].input) : member' = [member EXCEPT ![place] = row]
  BY DEF StoreAccess, StoreSync
<1>3. op[t].found # None BY <1>1, IdentityAssumption
<1>4. CASE p # place BY <1>2, <1>4 DEF IInv, TypeOK
<1>5. CASE p = place
  <2>1. member'[p] = row BY <1>1, <1>2, <1>5 DEF IInv, TypeOK
  <2>2. row.role = IF op[t].input.role = op[t].found.role THEN member[p].role ELSE op[t].input.role
    BY <1>2, <1>5 DEF Merged
  <2>3. row.enabled = IF op[t].input.enabled = op[t].found.enabled
                      THEN member[p].enabled ELSE op[t].input.enabled
    BY <1>2, <1>5 DEF Merged
  <2>4. op[t].found.enabled \in BOOLEAN /\ op[t].input.enabled \in BOOLEAN BY <1>1 DEF Member
  <2> QED BY <1>3, <1>5, <2>1, <2>2, <2>3, <2>4
<1> QED BY <1>4, <1>5

(* An inserted row changes none that was there.                             *)
LEMMA InsertedBeside ==
  ASSUME IInv, NEW t \in Threads, StoreUser(t) \/ StoreWorkspace(t) \/ StoreMembership(t),
         NEW p \in Places, member[p] # None
  PROVE  member'[p] = member[p]
<1>1. op[t].place \in Places BY Relies DEF StoreUser, StoreWorkspace, StoreMembership, At, OpHolds
<1>2. member' = member \/ (member' = [member EXCEPT ![op[t].place] = op[t].input] /\ p # op[t].place)
  BY <1>1 DEF StoreUser, StoreWorkspace, StoreMembership, Inserts, IInv, TypeOK
<1> QED BY <1>1, <1>2 DEF IInv, TypeOK

(* A membership that is there is enabled again, or made an administrator's, *)
(* only by a request that found it disabled, or not one.                    *)
THEOREM RisesKnowingly == Spec => AccessRisesKnowingly
<1> DEFINE Rise(p) ==
      member[p] # None =>
        /\ member'[p].enabled /\ ~member[p].enabled =>
             \E t \in Threads : op[t].place = p /\ op[t].found # None /\ ~op[t].found.enabled
        /\ member'[p].role = "admin" /\ member[p].role # "admin" =>
             \E t \in Threads : op[t].place = p /\ op[t].found # None /\ op[t].found.role # "admin"
<1>1. IInv /\ [Next]_vars => \A p \in Places : Rise(p)
  <2> SUFFICES ASSUME IInv, [Next]_vars, NEW p \in Places, member[p] # None PROVE Rise(p)
    OBVIOUS
  <2>1. CASE UNCHANGED directory BY <2>1 DEF directory
  <2>2. ASSUME NEW t \in Threads, StoreAccess(t) \/ StoreSync(t) PROVE Rise(p)
    BY <2>2, WrittenKnowingly
  <2>3. ASSUME NEW t \in Threads, StoreUser(t) \/ StoreWorkspace(t) \/ StoreMembership(t)
        PROVE  Rise(p)
    BY <2>3, InsertedBeside
  <2> QED BY <2>1, <2>2, <2>3, DirectoryChanges
<1> QED BY <1>1, Invariant, PTL DEF Spec, AccessRisesKnowingly
-----------------------------------------------------------------------------
(* Counters change in four ways only.                                       *)
LEMMA CountersChange ==
  ASSUME IInv, [Next]_vars
  PROVE  \/ UNCHANGED counters
         \/ \E k \in Keys : WindowLapses(k)
         \/ \E t \in Threads :
              \/ op[t].key \in Keys /\ NewWindow(t)
              \/ CountUp(t) \/ Issue(t)
<1>1. ASSUME NEW t \in Threads, Ask(t) PROVE UNCHANGED counters
  BY <1>1 DEF Ask, AskAccess, AskUser, AskWorkspace, AskLogin, UseQuota, AskLogout, Sync,
              CreateWorkspace, AddMembership, Starts
<1>2. ASSUME NEW t \in Threads, Change(t) PROVE UNCHANGED counters
  BY <1>2 DEF Change, LoadAccess, StoreAccess, StoreSync, LoadUser, StoreUser, StoreWorkspace,
              StoreMembership
<1>3. ASSUME NEW t \in Threads, InsertCounter(t) \/ ResetCounter(t)
      PROVE  UNCHANGED counters \/ (op[t].key \in Keys /\ NewWindow(t))
  <2>1. op[t].key \in Keys BY <1>3, Relies DEF InsertCounter, ResetCounter, At, OpHolds
  <2> QED BY <1>3, <2>1 DEF InsertCounter, ResetCounter
<1>4. ASSUME NEW t \in Threads, Enter(t)
      PROVE  \/ UNCHANGED counters
             \/ op[t].key \in Keys /\ NewWindow(t)
             \/ CountUp(t) \/ Issue(t)
  BY <1>3, <1>4 DEF Enter, FindCounter, Verify, Logout
<1>5. ASSUME NEW t \in Threads, Abandon(t) PROVE UNCHANGED counters BY <1>5 DEF Abandon
<1>6. ASSUME NEW s \in sessions, Expire(s) PROVE UNCHANGED counters BY <1>6 DEF Expire
<1>7. CASE UNCHANGED vars BY <1>7 DEF vars, counters
<1> QED BY <1>1, <1>2, <1>4, <1>5, <1>6, <1>7 DEF Next

(* What was let through is counted, or was before a success.                *)
CountCovers(c, n, won) == IF c = None THEN n = 0 ELSE n <= c.count + Limit * won

CountsCover == \A k \in Keys : CountCovers(counter[k], tried[k], wins[k])

(* The counters of the first state cover what was let through.              *)
LEMMA InitCover == Init => CountsCover
BY DEF Init, CountsCover, CountCovers

(* So do those of every later one.                                          *)
LEMMA NextCover == CountsCover /\ IInv /\ [Next]_vars => CountsCover'
<1> SUFFICES ASSUME CountsCover, IInv, [Next]_vars PROVE CountsCover' OBVIOUS
<1>1. /\ counter \in [Keys -> Counter \union {None}] /\ tried \in [Keys -> Nat]
      /\ wins \in [Keys -> Nat] /\ Limit \in Nat
  BY IdentityAssumption DEF IInv, TypeOK
<1>2. CASE UNCHANGED counters BY <1>2 DEF counters, CountsCover
<1>3. ASSUME NEW k \in Keys, WindowLapses(k) PROVE CountsCover'
  <2>1. counter[k] \in Counter BY <1>1, <1>3 DEF WindowLapses
  <2>2. counter' = [counter EXCEPT ![k].lapsed = TRUE] /\ tried' = tried /\ wins' = wins
    BY <1>3 DEF WindowLapses
  <2>3. counter'[k].count = counter[k].count BY <1>1, <2>1, <2>2 DEF Counter
  <2>4. counter[k] # None BY <1>3 DEF WindowLapses
  <2>5. ASSUME NEW j \in Keys PROVE CountCovers(counter'[j], tried'[j], wins'[j])
    <3>1. CountCovers(counter[j], tried[j], wins[j]) BY DEF CountsCover
    <3>2. CASE j = k
      <4>1. counter'[k] \in Counter BY <1>1, <2>1, <2>2 DEF Counter
      <4>2. counter'[k] # None BY <4>1, IdentityAssumption
      <4> QED BY <2>2, <2>3, <2>4, <3>1, <3>2, <4>2 DEF CountCovers
    <3>3. CASE j # k BY <1>1, <2>2, <3>1, <3>3
    <3> QED BY <3>2, <3>3
  <2> QED BY <2>5 DEF CountsCover
<1>4. ASSUME NEW t \in Threads, op[t].key \in Keys, NewWindow(t) PROVE CountsCover'
  <2> DEFINE k == op[t].key
             c == [count |-> 1, lapsed |-> FALSE]
  <2>1. /\ counter' = [counter EXCEPT ![k] = c] /\ tried' = [tried EXCEPT ![k] = 1]
        /\ wins' = [wins EXCEPT ![k] = 0]
    BY <1>4 DEF NewWindow
  <2>2. c \in Counter BY IdentityAssumption DEF Counter
  <2>3. c # None /\ c.count = 1 BY <2>2, IdentityAssumption
  <2>4. k \in Keys BY <1>4
  <2> HIDE DEF c, k
  <2>5. ASSUME NEW j \in Keys PROVE CountCovers(counter'[j], tried'[j], wins'[j])
    <3>1. CASE j = k
      <4>1. counter'[j] = c /\ tried'[j] = 1 /\ wins'[j] = 0 BY <1>1, <2>1, <3>1
      <4>2. Limit * 0 = 0 BY <1>1
      <4> QED BY <2>3, <4>1, <4>2 DEF CountCovers
    <3>2. CASE j # k
      <4>1. counter'[j] = counter[j] /\ tried'[j] = tried[j] /\ wins'[j] = wins[j]
        BY <1>1, <2>1, <3>2
      <4> QED BY <4>1 DEF CountsCover
    <3> QED BY <3>1, <3>2
  <2> QED BY <2>5 DEF CountsCover
<1>5. ASSUME NEW t \in Threads, CountUp(t) PROVE CountsCover'
  <2> DEFINE k == op[t].key
  <2>1. k \in Keys /\ counter[k] # None BY <1>5, Relies DEF CountUp, At, OpHolds
  <2>2. counter[k] \in Counter BY <1>1, <2>1
  <2>3. CASE ~Below(counter[k]) BY <1>5, <2>3 DEF CountUp, counters, CountsCover
  <2>4. CASE Below(counter[k])
    <3> DEFINE c == [counter[k] EXCEPT !.count = @ + 1]
    <3>1. counter' = [counter EXCEPT ![k] = c] /\ tried' = [tried EXCEPT ![k] = @ + 1] /\ wins' = wins
      BY <1>5, <2>4 DEF CountUp
    <3>2. counter[k].count \in Nat /\ counter[k].count < Limit
      BY <1>1, <2>2, <2>4 DEF Counter, Below
    <3>3. c \in Counter /\ c.count = counter[k].count + 1 BY <1>1, <2>2, <3>2 DEF Counter
    <3>4. c # None BY <3>3, IdentityAssumption
    <3> HIDE DEF c, k
    <3>5. ASSUME NEW j \in Keys PROVE CountCovers(counter'[j], tried'[j], wins'[j])
      <4>1. CountCovers(counter[j], tried[j], wins[j]) BY DEF CountsCover
      <4>2. CASE j = k
        <5>1. counter'[j] = c /\ tried'[j] = tried[j] + 1 /\ wins'[j] = wins[j]
          BY <1>1, <3>1, <4>2
        <5>2. tried[j] <= counter[j].count + Limit * wins[j] BY <2>1, <4>1, <4>2 DEF CountCovers
        <5>3. Limit * wins[j] \in Nat /\ tried[j] \in Nat BY <1>1
        <5>4. tried[j] + 1 <= counter[j].count + 1 + Limit * wins[j]
          BY <3>2, <4>2, <5>2, <5>3
        <5> QED BY <3>3, <3>4, <4>2, <5>1, <5>4 DEF CountCovers
      <4>3. CASE j # k
        <5>1. counter'[j] = counter[j] /\ tried'[j] = tried[j] /\ wins'[j] = wins[j]
          BY <1>1, <3>1, <4>3
        <5> QED BY <4>1, <5>1
      <4> QED BY <4>2, <4>3
    <3> QED BY <3>5 DEF CountsCover
  <2> QED BY <2>3, <2>4
<1>6. ASSUME NEW t \in Threads, Issue(t) PROVE CountsCover'
  <2> DEFINE k == <<"login", op[t].place>>
             c == [counter[k] EXCEPT !.count = 0]
  <2>1. op[t].place \in Accounts /\ counter[k] # None BY <1>6, Relies DEF Issue, At, OpHolds
  <2>2. k \in Keys BY <2>1, LoginKey
  <2>3. counter[k] \in Counter BY <1>1, <2>1, <2>2
  <2>4. c \in Counter /\ c.count = 0 BY <1>1, <2>3 DEF Counter
  <2>5. counter' = [counter EXCEPT ![k] = c] /\ wins' = [wins EXCEPT ![k] = @ + 1] /\ tried' = tried
    BY <1>6 DEF Issue
  <2>6. counter[k].count \in Nat /\ counter[k].count <= Limit BY <1>1, <2>3 DEF Counter
  <2>7. c # None BY <2>4, IdentityAssumption
  <2> HIDE DEF c, k
  <2>8. ASSUME NEW j \in Keys PROVE CountCovers(counter'[j], tried'[j], wins'[j])
    <3>1. CountCovers(counter[j], tried[j], wins[j]) BY DEF CountsCover
    <3>2. CASE j = k
      <4>1. counter'[j] = c /\ tried'[j] = tried[j] /\ wins'[j] = wins[j] + 1 BY <1>1, <2>5, <3>2
      <4>2. tried[j] <= counter[j].count + Limit * wins[j] BY <2>1, <3>1, <3>2 DEF CountCovers
      <4>3. Limit * wins[j] \in Nat /\ tried[j] \in Nat /\ wins[j] \in Nat BY <1>1
      <4>4. Limit * (wins[j] + 1) = Limit * wins[j] + Limit BY <1>1, <4>3
      <4>5. tried[j] <= 0 + Limit * (wins[j] + 1) BY <1>1, <2>6, <3>2, <4>2, <4>3, <4>4
      <4> QED BY <2>4, <2>7, <4>1, <4>5 DEF CountCovers
    <3>3. CASE j # k
      <4>1. counter'[j] = counter[j] /\ tried'[j] = tried[j] /\ wins'[j] = wins[j]
        BY <1>1, <2>5, <3>3
      <4> QED BY <3>1, <4>1
    <3> QED BY <3>2, <3>3
  <2> QED BY <2>8 DEF CountsCover
<1> QED BY <1>2, <1>3, <1>4, <1>5, <1>6, CountersChange

(* In one window at most Limit attempts are let through, and Limit more for *)
(* every login that succeeds in it.                                         *)
THEOREM AttemptsBounded == Spec => []GuessesBounded
<1>1. CountsCover /\ IInv => GuessesBounded
  <2> SUFFICES ASSUME CountsCover, IInv, NEW k \in Keys
               PROVE  tried[k] <= Limit * (wins[k] + 1)
    BY DEF GuessesBounded
  <2>1. CountCovers(counter[k], tried[k], wins[k]) BY DEF CountsCover
  <2>2. Limit \in Nat /\ wins[k] \in Nat /\ tried[k] \in Nat
    BY IdentityAssumption DEF IInv, TypeOK
  <2>3. Limit * wins[k] \in Nat /\ Limit * (wins[k] + 1) = Limit * wins[k] + Limit BY <2>2
  <2>4. CASE counter[k] = None BY <2>1, <2>2, <2>3, <2>4 DEF CountCovers
  <2>5. CASE counter[k] # None
    <3>1. counter[k].count \in Nat /\ counter[k].count <= Limit
      BY <2>2, <2>5 DEF IInv, TypeOK, Counter
    <3> QED BY <2>1, <2>2, <2>3, <2>5, <3>1 DEF CountCovers
  <2> QED BY <2>4, <2>5
<1> QED BY <1>1, InitCover, NextCover, Invariant, PTL DEF Spec
-----------------------------------------------------------------------------
(* The platform's grant is not given by anybody: whoever has it has had it  *)
(* from the first.                                                          *)
Elevated(m) == m # None /\ Platform \in m.grants

PlatformIsNotGiven == \A p \in Places : Elevated(member[p]) => Elevated(Members[p])

(* What a thread is about to write carries the grant only if a sync read it *)
(* in the membership that it writes.                                        *)
Writing == {"load access", "store access", "load user", "store user", "store workspace",
            "store membership", "store sync"}

OpPlain(o) ==
  o.pc \in Writing /\ Platform \in o.input.grants =>
    o.pc = "store sync" /\ Elevated(Members[o.place])

OpsPlain == \A t \in Threads : OpPlain(op[t])

PlatformHolds == PlatformIsNotGiven /\ OpsPlain

(* What a thread does next leaves the others as they are.                   *)
LEMMA GoesPlain ==
  ASSUME IInv, OpsPlain, NEW t \in Threads, NEW next, Goes(t, next), OpPlain(next)
  PROVE  OpsPlain'
<1>1. op \in [Threads -> Operation] BY DEF IInv, TypeOK
<1>2. \A u \in Threads : op'[u] = IF u = t THEN next ELSE op[u] BY <1>1 DEF Goes
<1>3. ASSUME NEW u \in Threads PROVE OpPlain(op'[u]) BY <1>2 DEF OpsPlain
<1> QED BY <1>3 DEF OpsPlain

(* So does a request or a command that starts.                              *)
LEMMA StartPlain ==
  ASSUME IInv, OpsPlain, NEW t \in Threads, NEW next \in Operation, Starts(t, next), OpPlain(next)
  PROVE  OpsPlain'
<1> DEFINE numbered == [next EXCEPT !.id = requests + 1]
<1>1. /\ numbered.pc = next.pc /\ numbered.place = next.place /\ numbered.input = next.input
  BY DEF Operation
<1>2. Goes(t, numbered) BY DEF Starts
<1> HIDE DEF numbered
<1>3. OpPlain(numbered) BY <1>1 DEF OpPlain
<1> QED BY <1>2, <1>3, GoesPlain

(* An idle thread, and one that counts or ends a session, writes no member. *)
LEMMA IdlePlain == OpPlain(Idle)
BY DEF Idle, OpPlain, Writing

(* Requests ask for members without the grant, and a sync keeps the one it  *)
(* has read.                                                                *)
LEMMA AskPlain ==
  ASSUME IInv, PlatformHolds, NEW t \in Threads, Ask(t) PROVE OpsPlain'
<1>0. OpsPlain BY DEF PlatformHolds
<1>1. CASE AskAccess(t)
  <2>1. PICK s \in sessions, u \in Users, input \in Inputs :
          /\ Administrator(s) /\ MayChange(s, <<s.place[1], u>>, input)
          /\ Starts(t, [Idle EXCEPT !.pc = "load access", !.by = s.place[2],
                                    !.place = <<s.place[1], u>>, !.input = input])
    BY <1>1 DEF AskAccess
  <2> DEFINE next == [Idle EXCEPT !.pc = "load access", !.by = s.place[2],
                                  !.place = <<s.place[1], u>>, !.input = input]
  <2>2. next \in Operation
    BY <2>1, SessionMember, IdentityAssumption, IdleHolds DEF Administrator, Operation, Places
  <2>3. next.input = input /\ Platform \notin input.grants BY <2>1 DEF Idle, MayChange
  <2>4. OpPlain(next) BY <2>3 DEF OpPlain
  <2> QED BY <1>0, <2>1, <2>2, <2>4, StartPlain
<1>2. CASE AskUser(t)
  <2>1. PICK s \in sessions, u \in Users, input \in Inputs :
          /\ Administrator(s) /\ Platform \notin input.grants
          /\ Starts(t, [Idle EXCEPT !.pc = "load user", !.place = <<s.place[1], u>>, !.input = input])
    BY <1>2 DEF AskUser
  <2> DEFINE next == [Idle EXCEPT !.pc = "load user", !.place = <<s.place[1], u>>, !.input = input]
  <2>2. next \in Operation
    BY <2>1, SessionMember, IdentityAssumption, IdleHolds DEF Administrator, Operation, Places
  <2>3. next.input = input BY DEF Idle
  <2>4. OpPlain(next) BY <2>1, <2>3 DEF OpPlain
  <2> QED BY <1>0, <2>1, <2>2, <2>4, StartPlain
<1>3. ASSUME NEW p \in Places, NEW pc \in {"store workspace", "store membership"}, NEW input \in Member,
             input.grants = {},
             Starts(t, [Idle EXCEPT !.pc = pc, !.place = p, !.input = input])
      PROVE  OpsPlain'
  <2> DEFINE next == [Idle EXCEPT !.pc = pc, !.place = p, !.input = input]
  <2>1. next \in Operation BY IdleHolds DEF Operation
  <2>2. next.input = input BY DEF Idle
  <2>3. OpPlain(next) BY <1>3, <2>2 DEF OpPlain
  <2> QED BY <1>0, <1>3, <2>1, <2>3, StartPlain
<1>4. CASE AskWorkspace(t)
  <2>1. PICK s \in sessions, w \in Workspaces :
          /\ Administrator(s)
          /\ Starts(t, [Idle EXCEPT !.pc = "store workspace", !.place = <<w, s.place[2]>>,
                                    !.input = Founder])
    BY <1>4 DEF AskWorkspace
  <2>2. <<w, s.place[2]>> \in Places /\ Founder.grants = {}
    BY <2>1, SessionMember DEF Administrator, Places, Founder
  <2> QED BY <1>3, <2>1, <2>2, FounderIsMember
<1>5. CASE CreateWorkspace(t)
  <2>1. Founder.grants = {} BY DEF Founder
  <2> QED BY <1>3, <1>5, <2>1, FounderIsMember, IdentityAssumption DEF CreateWorkspace
<1>6. CASE AddMembership(t)
  <2>1. PICK p \in Targets, role \in Roles :
          Starts(t, [Idle EXCEPT !.pc = "store membership", !.place = p,
                                 !.input = [role |-> role, grants |-> {}, enabled |-> TRUE]])
    BY <1>6 DEF AddMembership
  <2> DEFINE input == [role |-> role, grants |-> {}, enabled |-> TRUE]
  <2>2. p \in Places /\ input \in Member /\ input.grants = {} BY IdentityAssumption DEF Member
  <2> HIDE DEF input
  <2> QED BY <1>3, <2>1, <2>2 DEF input
<1>7. CASE Sync(t)
  <2>1. PICK p \in Targets :
          /\ Admin(member[p])
          /\ Starts(t, [Idle EXCEPT !.pc = "store sync", !.place = p, !.found = member[p],
                                    !.input = [member[p] EXCEPT !.grants = @ \union Tools]])
    BY <1>7 DEF Sync
  <2> DEFINE input == [member[p] EXCEPT !.grants = @ \union Tools]
             next == [Idle EXCEPT !.pc = "store sync", !.place = p, !.found = member[p], !.input = input]
  <2>2. p \in Places BY IdentityAssumption
  <2>3. member[p] \in Member /\ member[p] # None
    BY <2>1, <2>2 DEF Admin, Active, IInv, TypeOK
  <2>4. input \in Member /\ input.grants = member[p].grants \union Tools
    BY <2>3, IdentityAssumption DEF Member
  <2>5. next \in Operation BY <2>2, <2>3, <2>4, IdleHolds DEF Operation
  <2>6. next.pc = "store sync" /\ next.place = p /\ next.input = input BY DEF Idle
  <2>7. Platform \in input.grants => Elevated(Members[p])
    BY <2>2, <2>3, <2>4, IdentityAssumption DEF PlatformHolds, PlatformIsNotGiven, Elevated
  <2> HIDE DEF input
  <2>8. OpPlain(next) BY <2>6, <2>7 DEF OpPlain
  <2> QED BY <1>0, <2>1, <2>5, <2>8, StartPlain DEF input
<1>8. ASSUME NEW next \in Operation, next.pc \in {"find", "store logout"}, Starts(t, next)
      PROVE  OpsPlain'
  <2>1. OpPlain(next) BY <1>8 DEF OpPlain, Writing
  <2> QED BY <1>0, <1>8, <2>1, StartPlain
<1>9. CASE AskLogin(t)
  <2>1. PICK p \in Accounts :
          Starts(t, [Idle EXCEPT !.pc = "find", !.place = p, !.key = <<"login", p>>])
    BY <1>9 DEF AskLogin
  <2> DEFINE next == [Idle EXCEPT !.pc = "find", !.place = p, !.key = <<"login", p>>]
  <2>2. next \in Operation BY IdentityAssumption, LoginKey, IdleHolds DEF Operation
  <2>3. next.pc = "find" BY DEF Idle
  <2> QED BY <1>8, <2>1, <2>2, <2>3
<1>10. CASE UseQuota(t)
  <2>1. PICK s \in sessions :
          s.place \in Callers /\ Starts(t, [Idle EXCEPT !.pc = "find", !.key = <<"quota", s.place>>])
    BY <1>10 DEF UseQuota
  <2> DEFINE next == [Idle EXCEPT !.pc = "find", !.key = <<"quota", s.place>>]
  <2>2. <<"quota", s.place>> \in Keys BY <2>1 DEF Keys
  <2>3. next \in Operation /\ next.pc = "find" BY <2>2, IdleHolds DEF Operation, Idle
  <2> QED BY <1>8, <2>1, <2>3
<1>11. CASE AskLogout(t)
  <2>1. PICK s \in sessions : Starts(t, [Idle EXCEPT !.pc = "store logout", !.session = s])
    BY <1>11 DEF AskLogout
  <2> DEFINE next == [Idle EXCEPT !.pc = "store logout", !.session = s]
  <2>2. s \in Session BY DEF IInv, TypeOK
  <2>3. next \in Operation /\ next.pc = "store logout" BY <2>2, IdleHolds DEF Operation, Idle
  <2> QED BY <1>8, <2>1, <2>3
<1> QED BY <1>1, <1>2, <1>4, <1>5, <1>6, <1>7, <1>9, <1>10, <1>11 DEF Ask

(* A row that is written as read and asked for has the grant only if it, or *)
(* what was read of it, had it.                                             *)
LEMMA MergedPlain ==
  ASSUME NEW now \in Member, NEW found \in Member, NEW input \in Member,
         NEW row \in Merged(now, found, input), Platform \in row.grants
  PROVE  Platform \in now.grants \/ Platform \in input.grants
BY DEF Merged, Member

(* What is stored is a member without the grant, or one that had it.        *)
LEMMA StorePlain ==
  ASSUME IInv, PlatformHolds, NEW t \in Threads,
         StoreAccess(t) \/ StoreSync(t) \/ StoreUser(t) \/ StoreWorkspace(t) \/ StoreMembership(t)
  PROVE  PlatformIsNotGiven'
<1> DEFINE place == op[t].place
<1>1. OpHolds(op[t], workspaces, people, member, counter) /\ OpPlain(op[t]) BY Relies DEF PlatformHolds, OpsPlain
<1>2. op[t].pc \in Writing
  BY DEF Writing, At, StoreAccess, StoreSync, StoreUser, StoreWorkspace, StoreMembership
<1>3. place \in Places /\ op[t].input \in Member BY <1>1, <1>2 DEF OpHolds, Writing
<1>4. Platform \in op[t].input.grants => Elevated(Members[place]) BY <1>1, <1>2 DEF OpPlain
<1>5. member \in [Places -> Member \union {None}] BY DEF IInv, TypeOK
<1>6. ASSUME NEW row \in Member, member' = [member EXCEPT ![place] = row],
             Platform \in row.grants => Elevated(member[place]) \/ Platform \in op[t].input.grants
      PROVE  PlatformIsNotGiven'
  <2>1. ASSUME NEW p \in Places, Elevated(member'[p]) PROVE Elevated(Members[p])
    <3>1. CASE p = place
      <4>1. Platform \in row.grants BY <1>3, <1>5, <1>6, <2>1, <3>1 DEF Elevated
      <4> QED BY <1>4, <1>6, <3>1, <4>1 DEF PlatformHolds, PlatformIsNotGiven
    <3>2. CASE p # place
      <4>1. member'[p] = member[p] BY <1>5, <1>6, <3>2
      <4> QED BY <2>1, <4>1 DEF PlatformHolds, PlatformIsNotGiven
    <3> QED BY <3>1, <3>2
  <2> QED BY <2>1 DEF PlatformIsNotGiven, Elevated
<1>7. CASE StoreAccess(t) \/ StoreSync(t)
  <2>1. op[t].pc \in {"store access", "store sync"} BY <1>7 DEF StoreAccess, StoreSync, At
  <2>2. op[t].found \in Member /\ member[place] # None BY <1>1, <2>1 DEF OpHolds
  <2>3. member[place] \in Member BY <1>3, <1>5, <2>2
  <2>4. PICK row \in Merged(member[place], op[t].found, op[t].input) : member' = [member EXCEPT ![place] = row]
    BY <1>7 DEF StoreAccess, StoreSync
  <2>5. row \in Member BY <1>3, <2>2, <2>3, MergedMember
  <2>6. Platform \in row.grants => Elevated(member[place]) \/ Platform \in op[t].input.grants
    BY <1>3, <2>2, <2>3, MergedPlain DEF Elevated
  <2> HIDE DEF place
  <2> QED BY <1>6, <2>4, <2>5, <2>6
<1>8. CASE StoreUser(t) \/ StoreWorkspace(t) \/ StoreMembership(t)
  <2>1. UNCHANGED member \/ member' = [member EXCEPT ![place] = op[t].input]
    BY <1>8 DEF StoreUser, StoreWorkspace, StoreMembership, Inserts
  <2>2. CASE UNCHANGED member BY <2>2 DEF PlatformHolds, PlatformIsNotGiven, Elevated
  <2>3. CASE member' = [member EXCEPT ![place] = op[t].input]
    BY <1>3, <1>6, <2>3
  <2> QED BY <2>1, <2>2, <2>3
<1> QED BY <1>7, <1>8

(* Every other step writes no row and keeps what its thread was asked.      *)
LEMMA NextPlain ==
  ASSUME IInv, PlatformHolds, [Next]_vars PROVE PlatformHolds'
<1>0. OpsPlain BY DEF PlatformHolds
<1>1. PlatformIsNotGiven'
  <2>1. CASE UNCHANGED directory BY <2>1 DEF directory, PlatformHolds, PlatformIsNotGiven, Elevated
  <2> QED BY <2>1, StorePlain, DirectoryChanges
<1>2. ASSUME NEW t \in Threads, Ends(t) PROVE OpsPlain'
  BY <1>0, <1>2, IdlePlain, GoesPlain DEF Ends
<1>3. ASSUME NEW t \in Threads, NEW pc, pc \notin Writing, Goes(t, [op[t] EXCEPT !.pc = pc])
      PROVE  OpsPlain'
  <2>1. [op[t] EXCEPT !.pc = pc].pc = pc BY Relies DEF Operation
  <2>2. OpPlain([op[t] EXCEPT !.pc = pc]) BY <1>3, <2>1 DEF OpPlain
  <2> QED BY <1>0, <1>3, <2>2, GoesPlain
<1>4. ASSUME NEW t \in Threads, Change(t) PROVE OpsPlain'
  <2>1. CASE LoadAccess(t)
    <3> DEFINE next == [op[t] EXCEPT !.pc = "store access", !.found = member[op[t].place]]
    <3>1. next.pc = "store access" /\ next.input = op[t].input /\ next.place = op[t].place
      BY Relies DEF Operation
    <3>2. op[t].pc = "load access" /\ OpPlain(op[t]) BY <1>0, <2>1 DEF LoadAccess, At, OpsPlain
    <3> HIDE DEF next
    <3>3. OpPlain(next) BY <3>1, <3>2 DEF OpPlain, Writing
    <3> QED BY <1>0, <1>2, <2>1, <3>3, GoesPlain DEF LoadAccess, next
  <2>2. CASE LoadUser(t)
    <3> DEFINE next == [op[t] EXCEPT !.pc = "store user"]
    <3>1. next.pc = "store user" /\ next.input = op[t].input /\ next.place = op[t].place
      BY Relies DEF Operation
    <3>2. op[t].pc = "load user" /\ OpPlain(op[t]) BY <1>0, <2>2 DEF LoadUser, At, OpsPlain
    <3> HIDE DEF next
    <3>3. OpPlain(next) BY <3>1, <3>2 DEF OpPlain, Writing
    <3> QED BY <1>0, <1>2, <2>2, <3>3, GoesPlain DEF LoadUser, next
  <2> QED
    BY <1>2, <1>4, <2>1, <2>2
       DEF Change, StoreAccess, StoreSync, StoreUser, StoreWorkspace, StoreMembership
<1>5. ASSUME NEW t \in Threads, Admitted(t) PROVE OpsPlain'
  <2>1. CASE op[t].place = None BY <1>0, <1>5, <2>1, IdlePlain, GoesPlain DEF Admitted
  <2>2. CASE op[t].place # None
    <3> DEFINE next == [op[t] EXCEPT !.pc = "verify", !.key = None]
    <3>1. next.pc = "verify" BY Relies DEF Operation
    <3>2. Goes(t, next) BY <1>5, <2>2 DEF Admitted
    <3> HIDE DEF next
    <3>3. OpPlain(next) BY <3>1 DEF OpPlain, Writing
    <3> QED BY <1>0, <3>2, <3>3, GoesPlain
  <2> QED BY <2>1, <2>2
<1>6. ASSUME NEW t \in Threads, Enter(t) PROVE OpsPlain'
  <2>1. {"insert", "reset", "count", "issue"} \cap Writing = {} BY DEF Writing
  <2>2. CASE FindCounter(t)
    <3>1. PICK pc \in {"insert", "reset"} : Goes(t, [op[t] EXCEPT !.pc = pc]) BY <2>2 DEF FindCounter
    <3> QED BY <1>3, <2>1, <3>1
  <2>3. CASE InsertCounter(t) BY <1>2, <1>5, <2>3 DEF InsertCounter, NewWindow
  <2>4. CASE ResetCounter(t) BY <1>3, <1>5, <2>1, <2>4 DEF ResetCounter, NewWindow
  <2>5. CASE CountUp(t) BY <1>2, <1>5, <2>5 DEF CountUp
  <2>6. CASE Verify(t) BY <1>2, <1>3, <2>1, <2>6 DEF Verify
  <2> QED BY <1>2, <1>6, <2>2, <2>3, <2>4, <2>5, <2>6 DEF Enter, Issue, Logout
<1>7. ASSUME UNCHANGED op PROVE OpsPlain' BY <1>0, <1>7 DEF OpsPlain
<1>8. OpsPlain'
  <2>1. ASSUME NEW s \in sessions, Expire(s) PROVE OpsPlain' BY <1>7, <2>1 DEF Expire
  <2>2. ASSUME NEW k \in Keys, WindowLapses(k) PROVE OpsPlain' BY <1>7, <2>2 DEF WindowLapses
  <2>3. ASSUME UNCHANGED vars PROVE OpsPlain' BY <1>7, <2>3 DEF vars
  <2>4. ASSUME NEW t \in Threads, Ask(t) PROVE OpsPlain' BY <1>0, <2>4, AskPlain
  <2>5. ASSUME NEW t \in Threads, Abandon(t) PROVE OpsPlain' BY <1>2, <2>5 DEF Abandon
  <2> QED BY <1>4, <1>6, <2>1, <2>2, <2>3, <2>4, <2>5 DEF Next
<1> QED BY <1>1, <1>8 DEF PlatformHolds

(* No request gives the platform's grant: an administrator's are refused    *)
(* it, founders and new members get none, and a sync of the catalog's       *)
(* grants, however late it writes, restores it only to who has had it.      *)
THEOREM PlatformStays == Spec => []PlatformIsNotGiven
<1>1. Init => PlatformHolds
  BY IdlePlain DEF Init, PlatformHolds, PlatformIsNotGiven, OpsPlain
<1>2. PlatformHolds => PlatformIsNotGiven BY DEF PlatformHolds
<1>3. IInv /\ PlatformHolds /\ [Next]_vars => PlatformHolds' BY NextPlain
<1> QED BY <1>1, <1>2, <1>3, Invariant, PTL DEF Spec

=============================================================================
