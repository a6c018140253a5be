---------------------------- MODULE Registration ----------------------------
(* The capability catalog: rows in the database, a copy of them in every    *)
(* process, and the requests and ticks that use the copies.  Registry and   *)
(* its refresh() of platform/adapters.py, register() of extensions.py,      *)
(* Platform.snapshot() of service.py and the check of a plan's fingerprint  *)
(* in Worker.prepare() of runtime.py.                                       *)
(*                                                                          *)
(* An API process serves its requests on several threads, which share one   *)
(* Registry; a worker has a Registry of its own and is a thread by itself.  *)
(* refresh() takes three steps because the others run in between: it reads  *)
(* the rows, overlays the specs the process has by then, and assigns.       *)
EXTENDS Naturals, FiniteSets

CONSTANTS
  Workers,      \* worker processes, each of one thread
  Handlers,     \* threads of API processes
  Processes, ProcessOf,   \* processes, and the one each thread belongs to
  Workspaces, Anyone,     \* what a contract may be bound to; Anyone is unbound
  Names,        \* capability names
  Versions,
  Contents,     \* what a contract's digest tells apart beyond the version
  Disabled,     \* the contents of a contract whose mode is "disabled"
  Base,         \* the contracts of the manifest every process starts with
  Registered,   \* contracts that may have been registered before
  Offers,       \* contracts that administrators ask to register
  MaxRequests,  \* bound on requests and restarts
  None

Threads == Workers \union Handlers

(* A contract as its digest sees it.                                        *)
Contract == [name : Names, home : Workspaces \union {Anyone}, version : Versions, content : Contents]

UniqueNames(S) == \A c, d \in S : c.name = d.name => c = d

ASSUME RegistrationAssumption ==
  /\ Workers \cap Handlers = {} /\ ProcessOf \in [Threads -> Processes]
  /\ \A w \in Workers : \A t \in Threads : ProcessOf[t] = ProcessOf[w] => t = w
  /\ Anyone \notin Workspaces /\ None \notin Contract /\ Disabled \in Contents
  /\ Base \subseteq Contract /\ UniqueNames(Base)
  /\ Registered \subseteq Contract /\ UniqueNames(Registered)
  /\ \A c \in Registered : c.home # Anyone
  /\ \A c \in Registered, d \in Base : c.name = d.name => c.home = d.home
  /\ Offers \subseteq Contract /\ \A c \in Offers : c.home # Anyone
  /\ MaxRequests \in Nat

VARIABLES
  rows,      \* nx_capability_registrations
  specs,     \* Registry.specs of each process
  op,        \* the request or the tick of each thread
  plans,     \* steps of submitted missions
  called,    \* the plan and the spec of each call a worker dispatched
  requests   \* requests and restarts so far

vars == <<rows, specs, op, plans, called, requests>>

Specs == [Names -> Contract \union {None}]
Plan == [ws : Workspaces, contract : Contract, fingerprint : Contract]

(* Where a thread is, what follows its refresh, whom and what it serves,    *)
(* and its local variables.                                                 *)
Operation ==
  [pc : {"idle", "select", "merge", "assign", "check", "read", "write", "get", "fingerprint", "dispatch"},
   then : {"check", "get", "end"},
   ws : Workspaces \union {None}, name : Names \union {None}, offer : Contract \union {None},
   found : SUBSET Contract, fresh : Specs, seen : Contract \union {None},
   stored : Contract \union {None}]

NoSpecs == [n \in Names |-> None]

Idle == [pc |-> "idle", then |-> "end", ws |-> None, name |-> None, offer |-> None,
         found |-> {}, fresh |-> NoSpecs, seen |-> None, stored |-> None]

Refresh == [Idle EXCEPT !.pc = "select"]

(* merged[item["name"]] = item, for every item.                             *)
OverlaidBelow(items, below) ==
  [n \in Names |-> IF below[n] = None /\ \E c \in items : c.name = n
                   THEN CHOOSE c \in items : c.name = n ELSE below[n]]

Overlaid(items, below) ==
  [n \in Names |-> IF \E c \in items : c.name = n THEN CHOOSE c \in items : c.name = n
                   ELSE below[n]]

TypeOK ==
  /\ rows \subseteq Contract
  /\ specs \in [Processes -> Specs]
  /\ op \in [Threads -> Operation]
  /\ \A t \in Threads :
       /\ op[t].pc \in {"check", "read", "write"} \/ op[t].then = "check" =>
            op[t].offer \in Offers
       /\ op[t].pc \in {"get", "fingerprint"} \/ op[t].then = "get" =>
            op[t].ws \in Workspaces /\ op[t].name \in Names
       /\ op[t].pc = "fingerprint" => op[t].seen \in Contract
       /\ t \in Workers => op[t].pc \in {"idle", "dispatch"}
  /\ plans \subseteq Plan
  /\ called \subseteq [plan : Plan, spec : Contract]
  /\ requests \in 0 .. MaxRequests

Init ==
  /\ rows \in SUBSET Registered
  /\ specs = [p \in Processes |-> Overlaid(Base, NoSpecs)]
  /\ op = [t \in Threads |-> Idle]
  /\ plans = {} /\ called = {} /\ requests = 0

At(t, pc) == op[t].pc = pc
Known(t) == specs[ProcessOf[t]]
Goes(t, next) == op' = [op EXCEPT ![t] = next]
Ends(t) == Goes(t, Idle)
Counted == requests < MaxRequests /\ requests' = requests + 1
-----------------------------------------------------------------------------
(* A listing, a registration or a submission arrives, or a tick begins:     *)
(* each begins with a refresh.  register() has checked that the contract is *)
(* bound to the administrator's workspace.                                  *)
List(t) == Goes(t, Refresh)

AskToRegister(t) ==
  \E c \in Offers : Goes(t, [Refresh EXCEPT !.then = "check", !.offer = c])

Submit(t) ==
  \E w \in Workspaces, n \in Names : Goes(t, [Refresh EXCEPT !.then = "get", !.ws = w, !.name = n])

Arrive(t) ==
  /\ At(t, "idle") /\ Counted
  /\ List(t) \/ AskToRegister(t) \/ Submit(t)
  /\ UNCHANGED <<rows, specs, plans, called>>

(* Nobody else uses a worker's registry: its refresh is one step.           *)
Tick(w) ==
  /\ At(w, "idle") /\ Goes(w, [Idle EXCEPT !.pc = "dispatch"])
  /\ specs' = [specs EXCEPT ![ProcessOf[w]] = Overlaid(rows, @)]
  /\ UNCHANGED <<rows, plans, called, requests>>

SelectRows(t) ==
  /\ At(t, "select")
  /\ Goes(t, [op[t] EXCEPT !.pc = "merge", !.found = rows])
  /\ UNCHANGED <<rows, specs, plans, called, requests>>

Merge(t) ==
  /\ At(t, "merge")
  /\ Goes(t, [op[t] EXCEPT !.pc = "assign", !.found = {}, !.fresh = Overlaid(op[t].found, Known(t))])
  /\ UNCHANGED <<rows, specs, plans, called, requests>>

Assign(t) ==
  /\ At(t, "assign")
  /\ specs' = [specs EXCEPT ![ProcessOf[t]] = op[t].fresh]
  /\ Goes(t, IF op[t].then = "end" THEN Idle
             ELSE [op[t] EXCEPT !.pc = op[t].then, !.then = "end", !.fresh = NoSpecs])
  /\ UNCHANGED <<rows, plans, called, requests>>
-----------------------------------------------------------------------------
AllowsAnyScope(c, d) == TRUE

(* A name that another scope holds, the manifest's or a workspace's, is     *)
(* reserved.                                                                *)
SameScope(c, d) == c.home = d.home

CheckScope(t) ==
  LET existing == Known(t)[op[t].offer.name] IN
  /\ At(t, "check")
  /\ IF existing = None \/ SameScope(existing, op[t].offer)
     THEN Goes(t, [op[t] EXCEPT !.pc = "read", !.seen = existing])
     ELSE Ends(t)
  /\ UNCHANGED <<rows, specs, plans, called, requests>>

(* "changed contracts require a new version"                                *)
NewVersion(existing, c) == existing.version = c.version => existing = c

(* The transaction reads its own workspace's row of the name.               *)
ReadRow(t) ==
  LET c == op[t].offer
      own == {r \in rows : r.name = c.name /\ r.home = c.home} IN
  /\ At(t, "read")
  /\ IF op[t].seen # None /\ ~NewVersion(op[t].seen, c) THEN Ends(t)
     ELSE \/ own = {} /\ Goes(t, [op[t] EXCEPT !.pc = "write"])
          \/ \E r \in own : Goes(t, [op[t] EXCEPT !.pc = "write", !.stored = r])
  /\ UNCHANGED <<rows, specs, plans, called, requests>>

(* The unique constraint on the name, whatever the workspace.               *)
Insertable(c) == \A r \in rows : r.name # c.name

(* Insert, or overwrite the row by its key; a spec that equals the one read *)
(* is not written at all.  Then the process refreshes again to answer.      *)
Commits(t, new) == rows' = new /\ Goes(t, Refresh)

WriteRow(t) ==
  LET c == op[t].offer
      own == {r \in rows : r.name = c.name /\ r.home = c.home} IN
  /\ At(t, "write")
  /\ IF op[t].stored # None
     THEN Commits(t, IF op[t].stored = c THEN rows ELSE (rows \ own) \union {c})
     ELSE IF Insertable(c) THEN Commits(t, rows \union {c})
     ELSE Ends(t) /\ UNCHANGED rows
  /\ UNCHANGED <<specs, plans, called, requests>>
-----------------------------------------------------------------------------
Usable(c) == c # None /\ c.content # Disabled

(* A contract that is bound to a workspace is for no other's missions.      *)
Serves(c, w) == c.home \in {Anyone, w}

(* Mutant: a name that is unknown is not refused.                           *)
GetContractUnchecked(t) ==
  /\ At(t, "get")
  /\ Goes(t, [op[t] EXCEPT !.pc = "fingerprint", !.seen = Known(t)[op[t].name]])
  /\ UNCHANGED <<rows, specs, plans, called, requests>>

(* snapshot() gets the contract of a step ...                               *)
GetContract(t) ==
  LET c == Known(t)[op[t].name] IN
  /\ At(t, "get")
  /\ IF Usable(c) /\ Serves(c, op[t].ws)
     THEN Goes(t, [op[t] EXCEPT !.pc = "fingerprint", !.seen = c])
     ELSE Ends(t)
  /\ UNCHANGED <<rows, specs, plans, called, requests>>

(* ... and then, from the specs as they are by then, its fingerprint.       *)
GetFingerprint(t) ==
  LET c == Known(t)[op[t].name] IN
  /\ At(t, "fingerprint")
  /\ plans' = IF Usable(c)
              THEN plans \union {[ws |-> op[t].ws, contract |-> op[t].seen, fingerprint |-> c]}
              ELSE plans
  /\ Ends(t)
  /\ UNCHANGED <<rows, specs, called, requests>>

(* prepare(): the step's capability is called as the worker's own registry  *)
(* has it, if that has the plan's fingerprint; and execute() refuses one    *)
(* that is bound to another workspace than the mission's.                   *)
Dispatch(w) ==
  /\ At(w, "dispatch")
  /\ \/ \E plan \in plans :
          LET c == Known(w)[plan.contract.name] IN
          /\ Usable(c) /\ c = plan.fingerprint /\ Serves(c, plan.ws)
          /\ called' = called \union {[plan |-> plan, spec |-> c]}
     \/ UNCHANGED called
  /\ Ends(w)
  /\ UNCHANGED <<rows, specs, plans, requests>>

(* A request fails, or a process dies and starts again with the manifest.   *)
Abandon(t) ==
  /\ ~At(t, "idle") /\ Ends(t)
  /\ UNCHANGED <<rows, specs, plans, called, requests>>

Restart(p) ==
  /\ Counted
  /\ specs' = [specs EXCEPT ![p] = Overlaid(Base, NoSpecs)]
  /\ op' = [t \in Threads |-> IF ProcessOf[t] = p THEN Idle ELSE op[t]]
  /\ UNCHANGED <<rows, plans, called>>

Handle(t) ==
  SelectRows(t) \/ Merge(t) \/ Assign(t) \/ CheckScope(t) \/ ReadRow(t) \/ WriteRow(t)
    \/ GetContract(t) \/ GetFingerprint(t)

Work(w) == Tick(w) \/ Dispatch(w)

Next ==
  \/ \E t \in Handlers : Arrive(t) \/ Handle(t) \/ Abandon(t)
  \/ \E w \in Workers : Work(w)
  \/ \E p \in Processes : Restart(p)

Spec == Init /\ [][Next]_vars

(* A worker's loop does not stop by itself.  Nobody need ask for anything,  *)
(* and a request need not end.                                              *)
FairSpec == Spec /\ \A w \in Workers : WF_vars(Work(w))
-----------------------------------------------------------------------------
(* A name belongs to one scope for ever, the manifest's or the workspace    *)
(* that registered it first: no process, request or plan ever sees it as    *)
(* another's, whoever else registers it at the same time, and a plan holds  *)
(* no contract that is bound to another workspace.                          *)
Everywhere ==
  Base \union rows \union (UNION {op[t].found : t \in Threads})
    \union {specs[p][n] : p \in Processes, n \in Names}
    \union {op[t].fresh[n] : t \in Threads, n \in Names}
    \union {op[t].seen : t \in Threads}
    \union {plan.contract : plan \in plans} \union {plan.fingerprint : plan \in plans}

NamesHaveOneHome ==
  /\ \A c, d \in Everywhere \ {None} : c.name = d.name => c.home = d.home
  /\ \A plan \in plans : Serves(plan.contract, plan.ws)

(* "Changed contracts require a new version": no registration ever puts     *)
(* another contract under the name and the version of the row it replaces,  *)
(* whoever else registers the name at the same time.                        *)
ContractsChangeVersion ==
  [][\A old \in rows, new \in rows' :
       old.name = new.name /\ old # new => old.version # new.version]_vars

(* "Contract drift blocks execution": what is called is the contract that   *)
(* the mission was planned, validated and is recovered by.                  *)
DriftBlocksExecution == \A c \in called : c.plan.contract = c.spec

(* Every worker comes to know the registered contracts, although processes  *)
(* start from the manifest and refreshes run while rows change.             *)
WorkersCatchUp ==
  \A w \in Workers : <>[](\A r \in rows : specs[ProcessOf[w]][r.name] = r)
=============================================================================
