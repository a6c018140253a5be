------------------------------ MODULE Identity ------------------------------
(* Who may act: memberships, sessions, the login counter and the quotas of  *)
(* platform/identity.py, changed by the user and workspace endpoints of     *)
(* api.py and extensions.py and by the local operator's commands of cli.py. *)
(*                                                                          *)
(* A request is authenticated in one transaction and acts in another, with  *)
(* the Actor it was given.  A transaction reads, without a lock, and then   *)
(* writes and commits: each half is an action.                              *)
EXTENDS Naturals, FiniteSets

CONSTANTS
  Users, Workspaces,
  Roles, Grants, Platform,   \* Platform: the grant that only the database's owner gives
  Tools,        \* the grants a sync adds
  Members,      \* the first members, workspaces and users
  Inputs,       \* roles, grants and enabled as administrators put them
  Accounts,     \* workspace and user of the logins tried
  Callers,      \* workspace and user of those who use a request quota
  Targets,      \* memberships the local operator's commands are about
  Limit,        \* attempts and requests per window
  Threads,      \* API handlers and commands
  MaxRequests,  \* bound on requests and commands
  None

Counter == [count : 0 .. Limit, lapsed : BOOLEAN]
Member == [role : Roles, grants : SUBSET Grants, enabled : BOOLEAN]
Places == Workspaces \X Users
Keys == {<<"login", p>> : p \in Accounts} \union {<<"quota", p>> : p \in Callers}

Active(m) == m # None /\ m.enabled
Admin(m) == Active(m) /\ m.role = "admin"

ASSUME IdentityAssumption ==
  /\ "admin" \in Roles /\ Platform \in Grants /\ Tools \subseteq Grants \ {Platform}
  /\ None \notin Member /\ None \notin Places /\ None \notin Keys /\ None \notin Counter
  /\ Members \in [Places -> Member \union {None}]
  /\ \A w \in Workspaces : \A u \in Users :
       Members[<<w, u>>] # None => \E v \in Users : Admin(Members[<<w, v>>])
  /\ Inputs \subseteq Member
  /\ Accounts \subseteq Places /\ Callers \subseteq Places /\ Targets \subseteq Places
  /\ Limit \in Nat \ {0} /\ MaxRequests \in Nat

VARIABLES
  people,      \* nx_users
  workspaces,  \* nx_workspaces
  member,      \* nx_memberships
  sessions,    \* nx_sessions that have not expired
  counter,     \* nx_login_attempts and nx_rate_buckets
  op,          \* the request or command of each thread
  requests,    \* requests and commands so far
  late,        \* workspaces somebody changed who had just lost the right to
  tried,       \* admissions in the present window of each counter
  wins         \* successful logins in the present window

vars == <<people, workspaces, member, sessions, counter, op, requests, late, tried, wins>>

Session == [place : Places, id : 0 .. MaxRequests]

Operation ==
  [pc : {"idle", "load access", "store access", "load user", "store user", "store sync",
         "store workspace", "store membership", "store logout", "find", "insert", "reset", "count", "verify", "issue"},
   id : 0 .. MaxRequests,
   by : Users \union {None},        \* the administrator; None for the local operator
   place : Places \union {None},    \* the membership it is about
   input : Member \union {None}, found : Member \union {None},
   key : Keys \union {None}, session : Session \union {None}]

Idle == [pc |-> "idle", id |-> 0, by |-> None, place |-> None, input |-> None, found |-> None,
         key |-> None, session |-> None]

TypeOK ==
  /\ people \subseteq Users /\ workspaces \subseteq Workspaces
  /\ member \in [Places -> Member \union {None}]
  /\ \A p \in Places : member[p] # None => p[1] \in workspaces /\ p[2] \in people
  /\ sessions \subseteq Session
  /\ counter \in [Keys -> Counter \union {None}]
  /\ op \in [Threads -> Operation]
  /\ requests \in 0 .. MaxRequests
  /\ late \subseteq Workspaces
  /\ tried \in [Keys -> Nat] /\ wins \in [Keys -> Nat]

Init ==
  /\ people = {p[2] : p \in {q \in Places : Members[q] # None}}
  /\ workspaces = {p[1] : p \in {q \in Places : Members[q] # None}}
  /\ member = Members
  /\ sessions = {[place |-> p, id |-> 0] : p \in {q \in Places : Members[q] # None}}
  /\ counter = [k \in Keys |-> None]
  /\ op = [t \in Threads |-> Idle]
  /\ requests = 0 /\ late = {}
  /\ tried = [k \in Keys |-> 0] /\ wins = [k \in Keys |-> 0]

directory == <<people, workspaces, member, late>>
counters == <<counter, tried, wins>>

At(t, pc) == op[t].pc = pc
Goes(t, next) == op' = [op EXCEPT ![t] = next]
Ends(t) == Goes(t, Idle)

(* A request comes in or a command is started.                              *)
Starts(t, next) ==
  /\ At(t, "idle") /\ requests < MaxRequests
  /\ requests' = requests + 1
  /\ Goes(t, [next EXCEPT !.id = requests + 1])
  /\ UNCHANGED <<directory, sessions, counters>>

(* authenticate(): the bearer of a live session whose membership is active. *)
Authenticated(s) == s \in sessions /\ Active(member[s.place])
Administrator(s) == Authenticated(s) /\ Admin(member[s.place])
-----------------------------------------------------------------------------
(* PUT /v1/users/{id}/access.                                               *)
MayChangeAnyone(s, place, input) == Platform \notin input.grants

MayChange(s, place, input) == Platform \notin input.grants /\ place # s.place

AskAccess(t) ==
  \E s \in sessions, u \in Users, input \in Inputs :
    LET place == <<s.place[1], u>> IN
    /\ Administrator(s) /\ MayChange(s, place, input)
    /\ Starts(t, [Idle EXCEPT !.pc = "load access", !.by = s.place[2], !.place = place, !.input = input])

LoadAccess(t) ==
  /\ At(t, "load access")
  /\ IF member[op[t].place] = None THEN Ends(t)
     ELSE Goes(t, [op[t] EXCEPT !.pc = "store access", !.found = member[op[t].place]])
  /\ UNCHANGED <<directory, sessions, counters, requests>>

MergedAll(now, found, input) == {input}

(* The session writes the columns that differ from what it read: the rows   *)
(* that may come of it.  The same grants in another order differ too.       *)
Merged(now, found, input) ==
  {[role |-> IF input.role = found.role THEN now.role ELSE input.role,
    grants |-> grants,
    enabled |-> IF input.enabled = found.enabled THEN now.enabled ELSE input.enabled] :
   grants \in IF input.grants = found.grants THEN {now.grants, input.grants} ELSE {input.grants}}

StoreAccess(t) ==
  LET place == op[t].place IN
  /\ At(t, "store access")
  /\ \E row \in Merged(member[place], op[t].found, op[t].input) : member' = [member EXCEPT ![place] = row]
  /\ late' = IF Admin(member[<<place[1], op[t].by>>]) THEN late ELSE late \union {place[1]}
  /\ Ends(t)
  /\ UNCHANGED <<people, workspaces, sessions, counters, requests>>

(* sync-admin-grants: the local operator adds the catalog's grants to those *)
(* of an active administrator.                                              *)
Sync(t) ==
  \E p \in Targets :
    /\ Admin(member[p])
    /\ Starts(t, [Idle EXCEPT !.pc = "store sync", !.place = p, !.found = member[p],
                              !.input = [member[p] EXCEPT !.grants = @ \union Tools]])

StoreSync(t) ==
  LET place == op[t].place IN
  /\ At(t, "store sync")
  /\ \E row \in Merged(member[place], op[t].found, op[t].input) : member' = [member EXCEPT ![place] = row]
  /\ Ends(t)
  /\ UNCHANGED <<people, workspaces, late, sessions, counters, requests>>
-----------------------------------------------------------------------------
(* Rows that are looked for and then inserted, where the constraint decides *)
(* between two who both found none: users with their first membership,      *)
(* workspaces with their founder, and memberships.                          *)
AskUser(t) ==
  \E s \in sessions, u \in Users, input \in Inputs :
    /\ Administrator(s) /\ Platform \notin input.grants /\ input.enabled
    /\ Starts(t, [Idle EXCEPT !.pc = "load user", !.place = <<s.place[1], u>>, !.input = input])

LoadUser(t) ==
  /\ At(t, "load user")
  /\ IF op[t].place[2] \in people THEN Ends(t) ELSE Goes(t, [op[t] EXCEPT !.pc = "store user"])
  /\ UNCHANGED <<directory, sessions, counters, requests>>

Inserts(t, place, input) == member' = [member EXCEPT ![place] = input]

StoreUser(t) ==
  LET place == op[t].place IN
  /\ At(t, "store user")
  /\ IF place[2] \in people THEN UNCHANGED <<people, member>>
     ELSE people' = people \union {place[2]} /\ Inserts(t, place, op[t].input)
  /\ Ends(t)
  /\ UNCHANGED <<workspaces, late, sessions, counters, requests>>

Founder == [role |-> "admin", grants |-> {}, enabled |-> TRUE]

(* POST /v2/workspaces inserts at once; the command create-workspace first  *)
(* looks whether the workspace exists and the user is active.               *)
AskWorkspace(t) ==
  \E s \in sessions, w \in Workspaces :
    /\ Administrator(s) /\ Platform \in member[s.place].grants
    /\ Starts(t, [Idle EXCEPT !.pc = "store workspace", !.place = <<w, s.place[2]>>, !.input = Founder])

CreateWorkspace(t) ==
  \E p \in Targets :
    /\ p[2] \in people /\ p[1] \notin workspaces
    /\ Starts(t, [Idle EXCEPT !.pc = "store workspace", !.place = p, !.input = Founder])

StoreWorkspace(t) ==
  LET place == op[t].place IN
  /\ At(t, "store workspace")
  /\ IF place[1] \in workspaces THEN UNCHANGED <<workspaces, member>>
     ELSE workspaces' = workspaces \union {place[1]} /\ Inserts(t, place, op[t].input)
  /\ Ends(t)
  /\ UNCHANGED <<people, late, sessions, counters, requests>>

(* Mutant: the workspace is not looked for.                                 *)
AddMembershipAnywhere(t) ==
  \E p \in Targets, role \in Roles :
    /\ p[2] \in people /\ member[p] = None
    /\ Starts(t, [Idle EXCEPT !.pc = "store membership", !.place = p,
                              !.input = [role |-> role, grants |-> {}, enabled |-> TRUE]])

AddMembership(t) ==
  \E p \in Targets, role \in Roles :
    /\ p[2] \in people /\ p[1] \in workspaces /\ member[p] = None
    /\ Starts(t, [Idle EXCEPT !.pc = "store membership", !.place = p,
                              !.input = [role |-> role, grants |-> {}, enabled |-> TRUE]])

StoreMembership(t) ==
  LET place == op[t].place IN
  /\ At(t, "store membership")
  /\ IF member[place] # None THEN UNCHANGED member ELSE Inserts(t, place, op[t].input)
  /\ Ends(t)
  /\ UNCHANGED <<people, workspaces, late, sessions, counters, requests>>
-----------------------------------------------------------------------------
(* login() and consume_quota() count first, in the same way.                *)
AskLogin(t) ==
  \E p \in Accounts : Starts(t, [Idle EXCEPT !.pc = "find", !.place = p, !.key = <<"login", p>>])

UseQuota(t) ==
  \E s \in sessions :
    /\ Authenticated(s) /\ s.place \in Callers
    /\ Starts(t, [Idle EXCEPT !.pc = "find", !.key = <<"quota", s.place>>])

FindCounter(t) ==
  /\ At(t, "find")
  /\ Goes(t, [op[t] EXCEPT !.pc = IF counter[op[t].key] = None THEN "insert" ELSE "reset"])
  /\ UNCHANGED <<directory, sessions, counters, requests>>

(* What was counted goes on: a login to its password, a request its way.    *)
Admitted(t) ==
  Goes(t, IF op[t].place = None THEN Idle ELSE [op[t] EXCEPT !.pc = "verify", !.key = None])

NewWindow(t) ==
  LET k == op[t].key IN
  /\ counter' = [counter EXCEPT ![k] = [count |-> 1, lapsed |-> FALSE]]
  /\ tried' = [tried EXCEPT ![k] = 1] /\ wins' = [wins EXCEPT ![k] = 0]
  /\ Admitted(t)

(* Of two first attempts one inserts the counter and counts itself; the     *)
(* other fails on the primary key and is answered 409, or 429.              *)
InsertCounter(t) ==
  /\ At(t, "insert")
  /\ IF counter[op[t].key] = None THEN NewWindow(t) ELSE Ends(t) /\ UNCHANGED counters
  /\ UNCHANGED <<directory, sessions, requests>>

(* The first update begins a new window once the old one is over, and keeps *)
(* the row for the second one; otherwise the second one comes by itself.    *)
ResetCounter(t) ==
  /\ At(t, "reset")
  /\ IF counter[op[t].key].lapsed THEN NewWindow(t)
     ELSE Goes(t, [op[t] EXCEPT !.pc = "count"]) /\ UNCHANGED counters
  /\ UNCHANGED <<directory, sessions, requests>>

BelowOrAt(c) == c.count <= Limit

Below(c) == c.count < Limit

CountUp(t) ==
  LET k == op[t].key IN
  /\ At(t, "count")
  /\ IF Below(counter[k])
     THEN /\ counter' = [counter EXCEPT ![k].count = @ + 1]
          /\ tried' = [tried EXCEPT ![k] = @ + 1]
          /\ Admitted(t) /\ UNCHANGED wins
     ELSE Ends(t) /\ UNCHANGED counters
  /\ UNCHANGED <<directory, sessions, requests>>

(* The password is right and the membership active, or the login is refused.*)
Verify(t) ==
  /\ At(t, "verify")
  /\ \/ Active(member[op[t].place]) /\ Goes(t, [op[t] EXCEPT !.pc = "issue"])
     \/ Ends(t)
  /\ UNCHANGED <<directory, sessions, counters, requests>>

(* The session is stored and the account's counter set to zero.             *)
Issue(t) ==
  LET k == <<"login", op[t].place>> IN
  /\ At(t, "issue")
  /\ sessions' = sessions \union {[place |-> op[t].place, id |-> op[t].id]}
  /\ counter' = [counter EXCEPT ![k].count = 0]
  /\ wins' = [wins EXCEPT ![k] = @ + 1]
  /\ Ends(t)
  /\ UNCHANGED <<directory, tried, requests>>

AskLogout(t) ==
  \E s \in sessions :
    Authenticated(s) /\ Starts(t, [Idle EXCEPT !.pc = "store logout", !.session = s])

Logout(t) ==
  /\ At(t, "store logout")
  /\ sessions' = sessions \ {op[t].session}
  /\ Ends(t)
  /\ UNCHANGED <<directory, counters, requests>>

(* Time passes, and a process dies before it commits.                       *)
Expire(s) ==
  /\ sessions' = sessions \ {s}
  /\ UNCHANGED <<directory, counters, op, requests>>

WindowLapses(k) ==
  /\ counter[k] # None /\ ~counter[k].lapsed
  /\ counter' = [counter EXCEPT ![k].lapsed = TRUE]
  /\ UNCHANGED <<directory, sessions, tried, wins, op, requests>>

Abandon(t) ==
  /\ ~At(t, "idle") /\ Ends(t)
  /\ UNCHANGED <<directory, sessions, counters, requests>>

Ask(t) ==
  \/ AskAccess(t) \/ AskUser(t) \/ AskWorkspace(t) \/ AskLogin(t) \/ UseQuota(t) \/ AskLogout(t)
  \/ Sync(t) \/ CreateWorkspace(t) \/ AddMembership(t)

Change(t) ==
  \/ LoadAccess(t) \/ StoreAccess(t) \/ StoreSync(t)
  \/ LoadUser(t) \/ StoreUser(t) \/ StoreWorkspace(t) \/ StoreMembership(t)

Enter(t) ==
  \/ FindCounter(t) \/ InsertCounter(t) \/ ResetCounter(t) \/ CountUp(t)
  \/ Verify(t) \/ Issue(t) \/ Logout(t)

Next ==
  \/ \E t \in Threads : Ask(t) \/ Change(t) \/ Enter(t) \/ Abandon(t)
  \/ \E s \in sessions : Expire(s)
  \/ \E k \in Keys : WindowLapses(k)

Spec == Init /\ [][Next]_vars
-----------------------------------------------------------------------------
(* A workspace keeps an active administrator, since nobody may change his   *)
(* own access: unless one stored a change whose own access was taken away   *)
(* after he was authenticated, as when two of them disable each other.      *)
AdminsRemain ==
  \A w \in workspaces : w \in late \/ \E u \in Users : Admin(member[<<w, u>>])

(* In one window at most Limit attempts are let through, and Limit more for *)
(* every login that succeeds in it: for several processes that find, reset  *)
(* and count at the same time, and late successes that set it to zero.      *)
GuessesBounded == \A k \in Keys : tried[k] <= Limit * (wins[k] + 1)

(* Access rises knowingly: a membership is enabled again, or made an        *)
(* administrator's, only by a request that found it disabled, or not one.   *)
(* A change of grants that leaves "enabled" at its default does not undo    *)
(* another administrator's revocation that it has not seen.                 *)
AccessRisesKnowingly ==
  [][\A p \in Places : member[p] # None =>
       /\ member'[p].enabled /\ ~member[p].enabled =>
            \E t \in Threads : op[t].place = p /\ op[t].found # None /\ ~op[t].found.enabled
       /\ member'[p].role = "admin" /\ member[p].role # "admin" =>
            \E t \in Threads : op[t].place = p /\ op[t].found # None /\ op[t].found.role # "admin"]_vars
=============================================================================
