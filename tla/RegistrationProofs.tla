-------------------------- MODULE RegistrationProofs --------------------------
(* Theorems about Registration, for any processes, names, contracts and     *)
(* requests: type correctness, and that a name has one home.                *)
(*                                                                          *)
(* Rows are replaced by rows of their name and home, and never deleted:     *)
(* that a contract "has a home", the one of a row or of the manifest, stays *)
(* true wherever a copy of it is.                                           *)
EXTENDS Registration, TLAPS

(* What a thread's place in the program says of its local variables.        *)
Typed(t, o) ==
  /\ o.pc \in {"check", "read", "write"} \/ o.then = "check" => o.offer \in Offers
  /\ o.pc \in {"get", "fingerprint"} \/ o.then = "get" => o.ws \in Workspaces /\ o.name \in Names
  /\ o.pc = "fingerprint" => o.seen \in Contract
  /\ t \in Workers => o.pc \in {"idle", "dispatch"}

(* A row or a contract of the manifest has the contract's name and home.    *)
HasHome(c, R) == \E d \in Base \union R : d.name = c.name /\ d.home = c.home

(* Specs are held under their names, those of the manifest among them.      *)
SpecsHold(s, R) ==
  /\ \A n \in Names : s[n] # None => s[n].name = n /\ HasHome(s[n], R)
  /\ \A b \in Base : s[b.name] # None

(* What a thread has read has a home; what it offers has the manifest's, if *)
(* the manifest has the name; what it overwrites is there.                  *)
HomeHolds(o, R) ==
  /\ \A c \in o.found : HasHome(c, R)
  /\ o.pc = "assign" => SpecsHold(o.fresh, R)
  /\ \A n \in Names : o.fresh[n] # None => o.fresh[n].name = n /\ HasHome(o.fresh[n], R)
  /\ o.seen # None => HasHome(o.seen, R)
  /\ o.pc \in {"read", "write"} => \A b \in Base : b.name = o.offer.name => b.home = o.offer.home
  /\ o.stored # None => \E r \in R : r.name = o.offer.name /\ r.home = o.offer.home
  /\ o.pc = "fingerprint" => Serves(o.seen, o.ws)

(* A name is one row's, of the manifest's home if the manifest has it.      *)
RowsHold(R) ==
  /\ R \subseteq Contract /\ UniqueNames(R)
  /\ \A r \in R, b \in Base : r.name = b.name => r.home = b.home

PlanHolds(plan, R) ==
  HasHome(plan.contract, R) /\ HasHome(plan.fingerprint, R) /\ Serves(plan.contract, plan.ws)

IInv ==
  /\ rows \subseteq Contract /\ specs \in [Processes -> Specs] /\ op \in [Threads -> Operation]
  /\ plans \subseteq Plan /\ called \subseteq [plan : Plan, spec : Contract]
  /\ requests \in 0 .. MaxRequests
  /\ RowsHold(rows)
  /\ \A p \in Processes : SpecsHold(specs[p], rows)
  /\ \A t \in Threads : Typed(t, op[t]) /\ HomeHolds(op[t], rows)
  /\ \A plan \in plans : PlanHolds(plan, rows)

(* Every row keeps a row of its name and home.                              *)
RowsKeep == \A r \in rows : \E d \in rows' : d.name = r.name /\ d.home = r.home
-----------------------------------------------------------------------------
(* No specs are specs, and an idle thread relies on nothing.                *)
LEMMA IdleHolds ==
  /\ NoSpecs \in Specs /\ Idle \in Operation
  /\ \A t : Typed(t, Idle)
  /\ \A R : HomeHolds(Idle, R)
<1>1. NoSpecs \in Specs BY DEF NoSpecs, Specs
<1>2. Idle \in Operation BY <1>1 DEF Idle, Operation
<1>3. /\ Idle.pc = "idle" /\ Idle.then = "end" /\ Idle.found = {} /\ Idle.fresh = NoSpecs
      /\ Idle.seen = None /\ Idle.stored = None
  BY DEF Idle
<1>4. \A t : Typed(t, Idle) BY <1>3 DEF Typed
<1>5. \A n \in Names : NoSpecs[n] = None BY DEF NoSpecs
<1>6. \A R : HomeHolds(Idle, R) BY <1>3, <1>5 DEF HomeHolds
<1> QED BY <1>1, <1>2, <1>4, <1>6

(* Overlaid items are items or what is below; those below stay known.       *)
LEMMA OverlaidHolds ==
  ASSUME NEW items \in SUBSET Contract, NEW below \in Specs
  PROVE  /\ Overlaid(items, below) \in Specs
         /\ \A n \in Names : \/ /\ Overlaid(items, below)[n] \in items
                                /\ Overlaid(items, below)[n].name = n
                             \/ /\ Overlaid(items, below)[n] = below[n]
                                /\ \A c \in items : c.name # n
<1> DEFINE made == [n \in Names |-> IF \E c \in items : c.name = n
                                     THEN CHOOSE c \in items : c.name = n ELSE below[n]]
<1>1. ASSUME NEW n \in Names
      PROVE  \/ made[n] \in items /\ made[n].name = n
             \/ made[n] = below[n] /\ \A c \in items : c.name # n
  <2>1. CASE \E c \in items : c.name = n
    <3>1. made[n] = CHOOSE c \in items : c.name = n BY <2>1
    <3> HIDE DEF made
    <3> QED BY <2>1, <3>1
  <2>2. CASE ~\E c \in items : c.name = n BY <2>2
  <2> QED BY <2>1, <2>2
<1>2. made = [n \in Names |-> made[n]] OBVIOUS
<1>3. Overlaid(items, below) = made BY DEF Overlaid
<1> HIDE DEF made
<1>4. \A n \in Names : made[n] \in Contract \union {None} BY <1>1 DEF Specs
<1>5. made \in Specs BY <1>2, <1>4 DEF Specs
<1> QED BY <1>1, <1>3, <1>5

(* Overlaid with what has a home, specs that hold still do.                 *)
LEMMA OverlaidKeeps ==
  ASSUME NEW items \in SUBSET Contract, NEW below \in Specs, NEW R,
         \A c \in items : HasHome(c, R), SpecsHold(below, R), None \notin Contract,
         Base \subseteq Contract
  PROVE  Overlaid(items, below) \in Specs /\ SpecsHold(Overlaid(items, below), R)
<1> DEFINE made == Overlaid(items, below)
<1>1. /\ made \in Specs
      /\ \A n \in Names : \/ made[n] \in items /\ made[n].name = n
                          \/ made[n] = below[n]
  BY OverlaidHolds
<1> HIDE DEF made
<1>2. ASSUME NEW n \in Names, made[n] # None PROVE made[n].name = n /\ HasHome(made[n], R)
  BY <1>1, <1>2 DEF SpecsHold
<1>3. ASSUME NEW b \in Base PROVE made[b.name] # None
  <2>1. b.name \in Names BY DEF Contract
  <2>2. CASE made[b.name] \in items BY <2>2
  <2>3. CASE made[b.name] = below[b.name] BY <2>3 DEF SpecsHold
  <2> QED BY <1>1, <2>1, <2>2, <2>3
<1> QED BY <1>1, <1>2, <1>3 DEF SpecsHold, made

(* The manifest's specs hold, whatever the rows.                            *)
LEMMA ManifestHolds ==
  /\ Overlaid(Base, NoSpecs) \in Specs
  /\ \A R : SpecsHold(Overlaid(Base, NoSpecs), R)
<1> DEFINE made == Overlaid(Base, NoSpecs)
<1>1. Base \subseteq Contract /\ None \notin Contract BY RegistrationAssumption
<1>2. NoSpecs \in Specs BY IdleHolds
<1>3. /\ made \in Specs
      /\ \A n \in Names : \/ made[n] \in Base /\ made[n].name = n
                          \/ made[n] = NoSpecs[n] /\ \A c \in Base : c.name # n
  BY <1>1, <1>2, OverlaidHolds
<1> HIDE DEF made
<1>4. ASSUME NEW R PROVE SpecsHold(made, R)
  <2>1. ASSUME NEW n \in Names, made[n] # None PROVE made[n].name = n /\ HasHome(made[n], R)
    <3>1. NoSpecs[n] = None BY DEF NoSpecs
    <3> QED BY <1>3, <2>1, <3>1 DEF HasHome
  <2>2. ASSUME NEW b \in Base PROVE made[b.name] # None
    <3>1. b.name \in Names BY <1>1 DEF Contract
    <3> QED BY <1>1, <1>3, <3>1
  <2> QED BY <2>1, <2>2 DEF SpecsHold
<1> QED BY <1>3, <1>4 DEF made

(* The invariant says what TypeOK says.                                     *)
LEMMA InvTypes == IInv => TypeOK
BY DEF IInv, TypeOK, Typed

(* The initial state satisfies the invariant.                               *)
LEMMA InitInv == Init => IInv
<1> SUFFICES ASSUME Init PROVE IInv OBVIOUS
<1>1. rows \subseteq Registered /\ Registered \subseteq Contract BY RegistrationAssumption DEF Init
<1>2. RowsHold(rows) BY <1>1, RegistrationAssumption DEF RowsHold, UniqueNames
<1>3. specs \in [Processes -> Specs] BY ManifestHolds DEF Init
<1>4. \A p \in Processes : SpecsHold(specs[p], rows) BY ManifestHolds DEF Init
<1>5. op \in [Threads -> Operation] BY IdleHolds DEF Init
<1>6. \A t \in Threads : Typed(t, op[t]) /\ HomeHolds(op[t], rows)
  BY IdleHolds DEF Init
<1>7. plans = {} /\ called = {} /\ requests \in 0 .. MaxRequests
  BY RegistrationAssumption DEF Init
<1> QED BY <1>1, <1>2, <1>3, <1>4, <1>5, <1>6, <1>7 DEF IInv
-----------------------------------------------------------------------------
(* What has a home keeps it.                                                *)
LEMMA HomeStays == ASSUME RowsKeep, NEW c, HasHome(c, rows) PROVE HasHome(c, rows')
BY DEF RowsKeep, HasHome

(* So do specs.                                                             *)
LEMMA SpecsStay == ASSUME RowsKeep, NEW s, SpecsHold(s, rows) PROVE SpecsHold(s, rows')
<1>1. \A n \in Names : s[n] # None => s[n].name = n /\ HasHome(s[n], rows') BY HomeStays DEF SpecsHold
<1> QED BY <1>1 DEF SpecsHold

(* A step that leaves a thread alone leaves it what it relies on.           *)
LEMMA OtherHolds ==
  ASSUME IInv, RowsKeep, NEW u \in Threads, op'[u] = op[u]
  PROVE  op'[u] \in Operation /\ Typed(u, op'[u]) /\ HomeHolds(op'[u], rows')
<1>1. op[u] \in Operation /\ Typed(u, op[u]) /\ HomeHolds(op[u], rows) BY DEF IInv
<1>2. \A c \in op[u].found : HasHome(c, rows') BY <1>1, HomeStays DEF HomeHolds
<1>3. op[u].pc = "assign" => SpecsHold(op[u].fresh, rows') BY <1>1, SpecsStay DEF HomeHolds
<1>4. \A n \in Names : op[u].fresh[n] # None => op[u].fresh[n].name = n /\ HasHome(op[u].fresh[n], rows')
  BY <1>1, HomeStays DEF HomeHolds
<1>5. op[u].seen # None => HasHome(op[u].seen, rows') BY <1>1, HomeStays DEF HomeHolds
<1>6. op[u].stored # None => \E r \in rows' : r.name = op[u].offer.name /\ r.home = op[u].offer.home
  BY <1>1 DEF HomeHolds, RowsKeep
<1>7. HomeHolds(op[u], rows') BY <1>1, <1>2, <1>3, <1>4, <1>5, <1>6 DEF HomeHolds
<1> QED BY <1>1, <1>7

(* What must be shown of a step of thread t that goes to next.              *)
LEMMA ThreadStep ==
  ASSUME IInv, NEW t \in Threads, NEW next \in Operation, Typed(t, next),
         HomeHolds(next, rows'), RowsKeep, RowsHold(rows'), Goes(t, next),
         specs' \in [Processes -> Specs], \A p \in Processes : SpecsHold(specs'[p], rows'),
         plans' \subseteq Plan, \A plan \in plans' : PlanHolds(plan, rows'),
         called' \subseteq [plan : Plan, spec : Contract], requests' \in 0 .. MaxRequests
  PROVE  IInv'
<1>1. rows' \subseteq Contract BY DEF RowsHold
<1>2. op \in [Threads -> Operation] /\ op' = [op EXCEPT ![t] = next] BY DEF IInv, Goes
<1>3. ASSUME NEW u \in Threads
      PROVE  op'[u] \in Operation /\ Typed(u, op'[u]) /\ HomeHolds(op'[u], rows')
  <2>1. CASE u = t BY <1>2, <2>1
  <2>2. CASE u # t
    <3>1. op'[u] = op[u] BY <1>2, <2>2
    <3> QED BY <3>1, OtherHolds
  <2> QED BY <2>1, <2>2
<1>4. op' \in [Threads -> Operation] BY <1>2
<1> QED BY <1>1, <1>3, <1>4 DEF IInv

(* Plans stay as good as they are.                                          *)
LEMMA PlansStay == ASSUME IInv, RowsKeep PROVE \A plan \in plans : PlanHolds(plan, rows')
BY HomeStays DEF IInv, PlanHolds

(* A step of one thread that leaves the rows and the others alone.          *)
LEMMA MovesOn ==
  ASSUME IInv, NEW t \in Threads, NEW next \in Operation, Typed(t, next), HomeHolds(next, rows),
         Goes(t, next), UNCHANGED <<rows, specs>>,
         plans' \subseteq Plan, \A plan \in plans' : PlanHolds(plan, rows),
         called' \subseteq [plan : Plan, spec : Contract], requests' \in 0 .. MaxRequests
  PROVE  IInv'
<1>1. rows' = rows /\ specs' = specs OBVIOUS
<1>2. RowsKeep BY <1>1 DEF RowsKeep
<1>3. /\ RowsHold(rows') /\ specs' \in [Processes -> Specs]
      /\ \A p \in Processes : SpecsHold(specs'[p], rows')
  BY <1>1 DEF IInv
<1>4. HomeHolds(next, rows') /\ \A plan \in plans' : PlanHolds(plan, rows') BY <1>1
<1> QED BY <1>2, <1>3, <1>4, ThreadStep

(* What an invariant state holds of a thread.                               *)
LEMMA Relies ==
  ASSUME IInv, NEW t \in Threads
  PROVE  /\ op[t] \in Operation /\ Typed(t, op[t]) /\ HomeHolds(op[t], rows)
         /\ ProcessOf[t] \in Processes /\ specs[ProcessOf[t]] \in Specs
         /\ SpecsHold(specs[ProcessOf[t]], rows)
BY RegistrationAssumption DEF IInv

(* A thread that ends leaves nothing behind.                                *)
LEMMA EndKeeps ==
  ASSUME IInv, NEW t \in Threads, Ends(t), UNCHANGED <<rows, specs>>,
         plans' \subseteq Plan, \A plan \in plans' : PlanHolds(plan, rows),
         called' \subseteq [plan : Plan, spec : Contract], requests' \in 0 .. MaxRequests
  PROVE  IInv'
BY IdleHolds, MovesOn DEF Ends

(* Nothing but the thread changes.                                          *)
LEMMA Unmoved ==
  ASSUME IInv, UNCHANGED <<plans, called>>
  PROVE  /\ plans' \subseteq Plan /\ \A plan \in plans' : PlanHolds(plan, rows)
         /\ called' \subseteq [plan : Plan, spec : Contract]
BY DEF IInv
-----------------------------------------------------------------------------
(* A thread that begins to refresh has read nothing yet.                    *)
LEMMA RefreshHolds ==
  /\ Refresh \in Operation /\ Refresh.pc = "select" /\ Refresh.then = "end"
  /\ \A t \in Handlers : Typed(t, Refresh)
  /\ \A R : HomeHolds(Refresh, R)
<1>1. Refresh \in Operation BY IdleHolds DEF Refresh, Operation
<1>2. /\ Refresh.pc = "select" /\ Refresh.then = "end" /\ Refresh.found = {}
      /\ Refresh.fresh = NoSpecs /\ Refresh.seen = None /\ Refresh.stored = None
  BY DEF Refresh, Idle
<1>3. \A t \in Handlers : Typed(t, Refresh) BY <1>2, RegistrationAssumption DEF Typed
<1>4. \A n \in Names : NoSpecs[n] = None BY DEF NoSpecs
<1>5. \A R : HomeHolds(Refresh, R) BY <1>2, <1>4 DEF HomeHolds
<1> QED BY <1>1, <1>2, <1>3, <1>5

(* A request begins.                                                        *)
LEMMA ArriveKeeps == ASSUME IInv, NEW t \in Handlers, Arrive(t) PROVE IInv'
<1>1. t \in Threads /\ t \notin Workers BY RegistrationAssumption DEF Threads
<1>2. requests' \in 0 .. MaxRequests
  BY RegistrationAssumption DEF Arrive, Counted, IInv
<1>3. UNCHANGED <<rows, specs, plans, called>> BY DEF Arrive
<1>4. CASE List(t) BY <1>1, <1>2, <1>3, <1>4, RefreshHolds, Unmoved, MovesOn DEF List
<1>5. CASE AskToRegister(t)
  <2>1. PICK c \in Offers : Goes(t, [Refresh EXCEPT !.then = "check", !.offer = c])
    BY <1>5 DEF AskToRegister
  <2> DEFINE next == [Refresh EXCEPT !.then = "check", !.offer = c]
  <2>2. next \in Operation BY RefreshHolds, RegistrationAssumption DEF Operation
  <2>3. /\ next.pc = "select" /\ next.then = "check" /\ next.offer = c /\ next.found = {}
        /\ next.fresh = NoSpecs /\ next.seen = None /\ next.stored = None
    BY DEF Refresh, Idle
  <2> HIDE DEF next
  <2>4. Typed(t, next) BY <1>1, <2>3 DEF Typed
  <2>5. \A n \in Names : NoSpecs[n] = None BY DEF NoSpecs
  <2>6. HomeHolds(next, rows) BY <2>3, <2>5 DEF HomeHolds
  <2> QED BY <1>1, <1>2, <1>3, <2>1, <2>2, <2>4, <2>6, Unmoved, MovesOn DEF next
<1>6. CASE Submit(t)
  <2>1. PICK w \in Workspaces, n \in Names : Goes(t, [Refresh EXCEPT !.then = "get", !.ws = w, !.name = n])
    BY <1>6 DEF Submit
  <2> DEFINE next == [Refresh EXCEPT !.then = "get", !.ws = w, !.name = n]
  <2>2. next \in Operation BY RefreshHolds DEF Operation
  <2>3. /\ next.pc = "select" /\ next.then = "get" /\ next.ws = w /\ next.name = n /\ next.found = {}
        /\ next.fresh = NoSpecs /\ next.seen = None /\ next.stored = None
    BY DEF Refresh, Idle
  <2> HIDE DEF next
  <2>4. Typed(t, next) BY <1>1, <2>3 DEF Typed
  <2>5. \A m \in Names : NoSpecs[m] = None BY DEF NoSpecs
  <2>6. HomeHolds(next, rows) BY <2>3, <2>5 DEF HomeHolds
  <2> QED BY <1>1, <1>2, <1>3, <2>1, <2>2, <2>4, <2>6, Unmoved, MovesOn DEF next
<1> QED BY <1>4, <1>5, <1>6 DEF Arrive

(* The rows are read.                                                       *)
LEMMA SelectRowsKeeps == ASSUME IInv, NEW t \in Handlers, SelectRows(t) PROVE IInv'
<1>1. t \in Threads /\ t \notin Workers BY RegistrationAssumption DEF Threads
<1>2. /\ op[t] \in Operation /\ Typed(t, op[t]) /\ HomeHolds(op[t], rows)
  BY <1>1, Relies
<1>3. rows \subseteq Contract /\ requests \in 0 .. MaxRequests BY DEF IInv
<1>4. UNCHANGED <<rows, specs, plans, called, requests>> BY DEF SelectRows
<1> DEFINE next == [op[t] EXCEPT !.pc = "merge", !.found = rows]
<1>5. Goes(t, next) BY DEF SelectRows
<1>6. next \in Operation BY <1>2, <1>3 DEF Operation
<1>7. /\ next.pc = "merge" /\ next.then = op[t].then /\ next.ws = op[t].ws /\ next.name = op[t].name
      /\ next.offer = op[t].offer /\ next.found = rows /\ next.fresh = op[t].fresh
      /\ next.seen = op[t].seen /\ next.stored = op[t].stored
  BY <1>2 DEF Operation
<1> HIDE DEF next
<1>8. Typed(t, next) BY <1>1, <1>2, <1>7 DEF Typed
<1>9. \A c \in rows : HasHome(c, rows) BY DEF HasHome
<1>10. HomeHolds(next, rows) BY <1>2, <1>7, <1>9 DEF HomeHolds
<1> QED BY <1>1, <1>3, <1>4, <1>5, <1>6, <1>8, <1>10, Unmoved, MovesOn

(* They are overlaid.                                                       *)
LEMMA MergeKeeps == ASSUME IInv, NEW t \in Handlers, Merge(t) PROVE IInv'
<1>1. t \in Threads /\ t \notin Workers BY RegistrationAssumption DEF Threads
<1>2. /\ op[t] \in Operation /\ Typed(t, op[t]) /\ HomeHolds(op[t], rows)
      /\ Known(t) \in Specs /\ SpecsHold(Known(t), rows)
  BY <1>1, Relies DEF Known
<1>3. rows \subseteq Contract /\ RowsHold(rows) /\ requests \in 0 .. MaxRequests BY DEF IInv
<1>4. UNCHANGED <<rows, specs, plans, called, requests>> /\ op[t].pc = "merge" BY DEF Merge, At
<1> DEFINE made == Overlaid(op[t].found, Known(t))
           next == [op[t] EXCEPT !.pc = "assign", !.found = {}, !.fresh = made]
<1>5. Goes(t, next) BY DEF Merge
<1>6. op[t].found \in SUBSET Contract BY <1>2 DEF Operation
<1>7. made \in Specs /\ SpecsHold(made, rows)
  <2>1. \A c \in op[t].found : HasHome(c, rows) BY <1>2 DEF HomeHolds
  <2>2. None \notin Contract /\ Base \subseteq Contract BY RegistrationAssumption
  <2> QED BY <1>2, <1>6, <2>1, <2>2, OverlaidKeeps
<1> HIDE DEF made
<1>9. next \in Operation BY <1>2, <1>7 DEF Operation
<1>10. /\ next.pc = "assign" /\ next.then = op[t].then /\ next.ws = op[t].ws /\ next.name = op[t].name
       /\ next.offer = op[t].offer /\ next.found = {} /\ next.fresh = made
       /\ next.seen = op[t].seen /\ next.stored = op[t].stored
  BY <1>2 DEF Operation
<1> HIDE DEF next
<1>11. Typed(t, next) BY <1>1, <1>2, <1>10 DEF Typed
<1>12. HomeHolds(next, rows)
  <2>1. \A n \in Names : made[n] # None => made[n].name = n /\ HasHome(made[n], rows)
    BY <1>7 DEF SpecsHold
  <2> QED BY <1>2, <1>7, <1>10, <2>1 DEF HomeHolds
<1> QED BY <1>1, <1>3, <1>4, <1>5, <1>9, <1>11, <1>12, Unmoved, MovesOn

(* What an invariant state holds of a handler.                              *)
LEMMA HandlerRelies ==
  ASSUME IInv, NEW t \in Handlers
  PROVE  /\ t \in Threads /\ t \notin Workers
         /\ op[t] \in Operation /\ Typed(t, op[t]) /\ HomeHolds(op[t], rows)
         /\ ProcessOf[t] \in Processes /\ Known(t) = specs[ProcessOf[t]]
         /\ Known(t) \in Specs /\ SpecsHold(Known(t), rows)
         /\ rows \subseteq Contract /\ RowsHold(rows) /\ requests \in 0 .. MaxRequests
<1>1. t \in Threads /\ t \notin Workers BY RegistrationAssumption DEF Threads
<1> QED BY <1>1, Relies DEF Known, IInv

(* The overlaid specs become the process's.                                 *)
LEMMA AssignKeeps == ASSUME IInv, NEW t \in Handlers, Assign(t) PROVE IInv'
<1> DEFINE p == ProcessOf[t]
           goesOn == [op[t] EXCEPT !.pc = op[t].then, !.then = "end", !.fresh = NoSpecs]
           next == IF op[t].then = "end" THEN Idle ELSE goesOn
<1>1. /\ t \in Threads /\ t \notin Workers /\ op[t] \in Operation /\ Typed(t, op[t])
      /\ HomeHolds(op[t], rows) /\ p \in Processes /\ requests \in 0 .. MaxRequests
  BY HandlerRelies
<1>2. /\ op[t].pc = "assign" /\ specs' = [specs EXCEPT ![p] = op[t].fresh] /\ rows' = rows
      /\ UNCHANGED <<plans, called, requests>> /\ Goes(t, next)
  BY DEF Assign, At
<1>3. op[t].fresh \in Specs /\ SpecsHold(op[t].fresh, rows)
  BY <1>1, <1>2 DEF Operation, HomeHolds
<1>4. specs' \in [Processes -> Specs] /\ \A q \in Processes : SpecsHold(specs'[q], rows')
  BY <1>1, <1>2, <1>3 DEF IInv
<1>5. next \in Operation /\ Typed(t, next) /\ HomeHolds(next, rows')
  <2>1. CASE op[t].then = "end" BY <2>1, IdleHolds
  <2>2. CASE op[t].then # "end"
    <3>1. op[t].then \in {"check", "get"} BY <1>1, <2>2 DEF Operation
    <3>2. goesOn \in Operation BY <1>1, <3>1, IdleHolds DEF Operation
    <3>3. /\ goesOn.pc = op[t].then /\ goesOn.then = "end" /\ goesOn.ws = op[t].ws
          /\ goesOn.name = op[t].name /\ goesOn.offer = op[t].offer /\ goesOn.found = op[t].found
          /\ goesOn.fresh = NoSpecs /\ goesOn.seen = op[t].seen /\ goesOn.stored = op[t].stored
      BY <1>1 DEF Operation
    <3>4. next = goesOn BY <2>2
    <3> HIDE DEF goesOn
    <3>5. Typed(t, goesOn) BY <1>1, <3>1, <3>3 DEF Typed
    <3>6. \A n \in Names : NoSpecs[n] = None BY DEF NoSpecs
    <3>7. HomeHolds(goesOn, rows') BY <1>1, <1>2, <3>1, <3>3, <3>6 DEF HomeHolds
    <3> QED BY <3>2, <3>4, <3>5, <3>7
  <2> QED BY <2>1, <2>2
<1> HIDE DEF next
<1>6. RowsKeep /\ RowsHold(rows') BY <1>2 DEF RowsKeep, IInv
<1>7. /\ plans' \subseteq Plan /\ \A plan \in plans' : PlanHolds(plan, rows')
      /\ called' \subseteq [plan : Plan, spec : Contract] /\ requests' \in 0 .. MaxRequests
  BY <1>1, <1>2 DEF IInv
<1> QED BY <1>1, <1>2, <1>4, <1>5, <1>6, <1>7, ThreadStep

(* The scope is judged.                                                     *)
LEMMA CheckScopeKeeps == ASSUME IInv, NEW t \in Handlers, CheckScope(t) PROVE IInv'
<1> DEFINE c == op[t].offer
           existing == Known(t)[c.name]
           next == [op[t] EXCEPT !.pc = "read", !.seen = existing]
<1>1. /\ t \in Threads /\ t \notin Workers /\ op[t] \in Operation /\ Typed(t, op[t])
      /\ HomeHolds(op[t], rows) /\ Known(t) = specs[ProcessOf[t]]
      /\ Known(t) \in Specs /\ SpecsHold(Known(t), rows) /\ RowsHold(rows)
      /\ rows \subseteq Contract /\ requests \in 0 .. MaxRequests
  BY HandlerRelies
<1>2. op[t].pc = "check" /\ UNCHANGED <<rows, specs, plans, called, requests>> BY DEF CheckScope, At
<1>3. c \in Offers BY <1>1, <1>2 DEF Typed
<1>4. c \in Contract /\ c.name \in Names BY <1>3, RegistrationAssumption DEF Contract
<1>5. existing \in Contract \union {None} BY <1>1, <1>4 DEF Specs
<1>6. CASE ~(existing = None \/ SameScope(existing, c))
  BY <1>1, <1>2, <1>6, Unmoved, EndKeeps DEF CheckScope
<1>7. CASE existing = None \/ SameScope(existing, c)
  <2>1. Goes(t, next) BY <1>7 DEF CheckScope
  <2>2. next \in Operation BY <1>1, <1>5 DEF Operation
  <2>3. /\ next.pc = "read" /\ next.then = op[t].then /\ next.ws = op[t].ws /\ next.name = op[t].name
        /\ next.offer = c /\ next.found = op[t].found /\ next.fresh = op[t].fresh
        /\ next.seen = existing /\ next.stored = op[t].stored
    BY <1>1 DEF Operation
  <2>4. existing # None => existing.name = c.name /\ HasHome(existing, rows)
    BY <1>1, <1>4 DEF SpecsHold
  <2>5. ASSUME NEW b \in Base, b.name = c.name PROVE b.home = c.home
    <3>1. existing # None BY <1>1, <2>5 DEF SpecsHold
    <3>2. existing.home = c.home BY <1>7, <3>1 DEF SameScope
    <3>3. PICK d \in Base \union rows : d.name = existing.name /\ d.home = existing.home
      BY <2>4, <3>1 DEF HasHome
    <3>4. d.home = b.home
      BY <1>1, <2>4, <2>5, <3>1, <3>3, RegistrationAssumption DEF RowsHold, UniqueNames
    <3> QED BY <3>2, <3>3, <3>4
  <2> HIDE DEF existing, next
  <2>7. Typed(t, next) BY <1>1, <1>3, <2>3 DEF Typed
  <2>8. HomeHolds(next, rows) BY <1>1, <2>3, <2>4, <2>5 DEF HomeHolds
  <2> QED BY <1>1, <1>2, <2>1, <2>2, <2>7, <2>8, Unmoved, MovesOn
<1> QED BY <1>6, <1>7

(* The version is judged and the row read.                                  *)
LEMMA ReadRowKeeps == ASSUME IInv, NEW t \in Handlers, ReadRow(t) PROVE IInv'
<1> DEFINE c == op[t].offer
           own == {r \in rows : r.name = c.name /\ r.home = c.home}
<1>1. /\ t \in Threads /\ t \notin Workers /\ op[t] \in Operation /\ Typed(t, op[t])
      /\ HomeHolds(op[t], rows) /\ Known(t) = specs[ProcessOf[t]]
      /\ rows \subseteq Contract /\ requests \in 0 .. MaxRequests
  BY HandlerRelies
<1>2. op[t].pc = "read" /\ UNCHANGED <<rows, specs, plans, called, requests>> BY DEF ReadRow, At
<1>3. c \in Offers /\ c \in Contract BY <1>1, <1>2, RegistrationAssumption DEF Typed
<1>4. CASE op[t].seen # None /\ ~NewVersion(op[t].seen, c)
  BY <1>1, <1>2, <1>4, Unmoved, EndKeeps DEF ReadRow
<1>5. CASE ~(op[t].seen # None /\ ~NewVersion(op[t].seen, c))
  <2>2. ASSUME NEW next \in Operation, Goes(t, next), next.pc = "write", next.then = op[t].then,
               next.ws = op[t].ws, next.name = op[t].name,
               next.offer = c, next.found = op[t].found, next.fresh = op[t].fresh,
               next.seen = op[t].seen,
               next.stored # None => \E r \in rows : r.name = c.name /\ r.home = c.home
        PROVE  IInv'
    <3>1. Typed(t, next) BY <1>1, <1>3, <2>2 DEF Typed
    <3>2. HomeHolds(next, rows) BY <1>1, <1>2, <2>2 DEF HomeHolds
    <3> QED BY <1>1, <1>2, <2>2, <3>1, <3>2, Unmoved, MovesOn
  <2>3. CASE own = {} /\ Goes(t, [op[t] EXCEPT !.pc = "write"])
    <3> DEFINE next == [op[t] EXCEPT !.pc = "write"]
    <3>1. next \in Operation BY <1>1 DEF Operation
    <3>2. /\ next.pc = "write" /\ next.then = op[t].then /\ next.ws = op[t].ws
          /\ next.name = op[t].name /\ next.offer = c /\ next.found = op[t].found
          /\ next.fresh = op[t].fresh /\ next.seen = op[t].seen
          /\ next.stored = op[t].stored
      BY <1>1 DEF Operation
    <3>3. op[t].stored # None => \E r \in rows : r.name = c.name /\ r.home = c.home
      BY <1>1 DEF HomeHolds
    <3> QED BY <2>2, <2>3, <3>1, <3>2, <3>3
  <2>4. CASE \E r \in own : Goes(t, [op[t] EXCEPT !.pc = "write", !.stored = r])
    <3>1. PICK r \in own : Goes(t, [op[t] EXCEPT !.pc = "write", !.stored = r]) BY <2>4
    <3> DEFINE next == [op[t] EXCEPT !.pc = "write", !.stored = r]
    <3>2. r \in rows /\ r.name = c.name /\ r.home = c.home BY <3>1
    <3>3. next \in Operation BY <1>1, <3>2 DEF Operation
    <3>4. /\ next.pc = "write" /\ next.then = op[t].then /\ next.ws = op[t].ws
          /\ next.name = op[t].name /\ next.offer = c /\ next.found = op[t].found
          /\ next.fresh = op[t].fresh /\ next.seen = op[t].seen
      BY <1>1 DEF Operation
    <3> HIDE DEF next
    <3> QED BY <2>2, <3>1, <3>2, <3>3, <3>4 DEF next
  <2> QED BY <1>5, <2>3, <2>4 DEF ReadRow
<1> QED BY <1>4, <1>5

(* Rows change by a commit, and the thread begins to refresh.               *)
LEMMA CommitKeeps ==
  ASSUME IInv, NEW t \in Handlers, NEW new, Commits(t, new), RowsHold(new),
         \A r \in rows : \E d \in new : d.name = r.name /\ d.home = r.home,
         UNCHANGED <<specs, plans, called, requests>>
  PROVE  IInv'
<1>1. t \in Threads /\ requests \in 0 .. MaxRequests BY HandlerRelies
<1>2. rows' = new /\ Goes(t, Refresh) BY DEF Commits
<1>3. RowsKeep /\ RowsHold(rows') BY <1>2 DEF RowsKeep
<1>4. \A p \in Processes : SpecsHold(specs'[p], rows') BY <1>3, SpecsStay DEF IInv
<1>5. \A plan \in plans' : PlanHolds(plan, rows') BY <1>3, PlansStay
<1>6. specs' \in [Processes -> Specs] /\ plans' \subseteq Plan /\ called' \subseteq [plan : Plan, spec : Contract]
      /\ requests' \in 0 .. MaxRequests
  BY DEF IInv
<1> QED BY <1>1, <1>2, <1>3, <1>4, <1>5, <1>6, RefreshHolds, ThreadStep

(* A contract is inserted where its name is free, or overwrites the row of  *)
(* its name and home.                                                       *)
LEMMA WriteRowKeeps == ASSUME IInv, NEW t \in Handlers, WriteRow(t) PROVE IInv'
<1> DEFINE c == op[t].offer
           own == {r \in rows : r.name = c.name /\ r.home = c.home}
<1>1. /\ t \in Threads /\ Typed(t, op[t]) /\ HomeHolds(op[t], rows)
      /\ rows \subseteq Contract /\ RowsHold(rows) /\ requests \in 0 .. MaxRequests
  BY HandlerRelies
<1>2. op[t].pc = "write" /\ UNCHANGED <<specs, plans, called, requests>> BY DEF WriteRow, At
<1>3. c \in Contract BY <1>1, <1>2, RegistrationAssumption DEF Typed
<1>4. \A b \in Base : b.name = c.name => b.home = c.home BY <1>1, <1>2 DEF HomeHolds
<1>5. CASE op[t].stored = None /\ ~Insertable(c)
  <2>1. Ends(t) /\ rows' = rows BY <1>5 DEF WriteRow
  <2> QED BY <1>1, <1>2, <2>1, Unmoved, EndKeeps
<1>6. CASE op[t].stored = None /\ Insertable(c)
  <2>1. Commits(t, rows \union {c}) BY <1>6 DEF WriteRow
  <2>2. RowsHold(rows \union {c}) BY <1>1, <1>3, <1>4, <1>6 DEF RowsHold, UniqueNames, Insertable
  <2> QED BY <1>2, <2>1, <2>2, CommitKeeps
<1>7. CASE op[t].stored # None /\ op[t].stored = c
  <2>1. Commits(t, rows) BY <1>7 DEF WriteRow
  <2> QED BY <1>1, <1>2, <2>1, CommitKeeps
<1>8. CASE op[t].stored # None /\ op[t].stored # c
  <2> DEFINE new == (rows \ own) \union {c}
  <2>1. Commits(t, new) BY <1>8 DEF WriteRow
  <2>2. PICK s \in rows : s.name = c.name /\ s.home = c.home BY <1>1, <1>8 DEF HomeHolds
  <2>3. \A r \in rows : r.name = c.name => r \in own BY <1>1, <2>2 DEF RowsHold, UniqueNames
  <2>4. RowsHold(new) BY <1>1, <1>3, <1>4, <2>3 DEF RowsHold, UniqueNames
  <2>5. ASSUME NEW r \in rows PROVE \E d \in new : d.name = r.name /\ d.home = r.home
    <3>1. CASE r \in own BY <3>1
    <3>2. CASE r \notin own BY <3>2
    <3> QED BY <3>1, <3>2
  <2> HIDE DEF new
  <2> QED BY <1>2, <2>1, <2>4, <2>5, CommitKeeps
<1> QED BY <1>5, <1>6, <1>7, <1>8
-----------------------------------------------------------------------------
(* A submission gets a contract that its workspace may use.                 *)
LEMMA GetContractKeeps == ASSUME IInv, NEW t \in Handlers, GetContract(t) PROVE IInv'
<1> DEFINE c == Known(t)[op[t].name]
           next == [op[t] EXCEPT !.pc = "fingerprint", !.seen = c]
<1>1. /\ t \in Threads /\ t \notin Workers /\ op[t] \in Operation /\ Typed(t, op[t])
      /\ HomeHolds(op[t], rows) /\ Known(t) = specs[ProcessOf[t]]
      /\ Known(t) \in Specs /\ SpecsHold(Known(t), rows) /\ requests \in 0 .. MaxRequests
  BY HandlerRelies
<1>2. op[t].pc = "get" /\ UNCHANGED <<rows, specs, plans, called, requests>> BY DEF GetContract, At
<1>3. op[t].ws \in Workspaces /\ op[t].name \in Names BY <1>1, <1>2 DEF Typed
<1>4. CASE ~(Usable(c) /\ Serves(c, op[t].ws))
  BY <1>1, <1>2, <1>4, Unmoved, EndKeeps DEF GetContract
<1>5. CASE Usable(c) /\ Serves(c, op[t].ws)
  <2>1. c \in Contract /\ HasHome(c, rows) BY <1>1, <1>3, <1>5 DEF Usable, Specs, SpecsHold
  <2>2. Goes(t, next) BY <1>5 DEF GetContract
  <2> HIDE DEF c
  <2>3. next \in Operation BY <1>1, <2>1 DEF Operation
  <2>4. /\ next.pc = "fingerprint" /\ next.then = op[t].then /\ next.ws = op[t].ws
        /\ next.name = op[t].name /\ next.offer = op[t].offer /\ next.found = op[t].found
        /\ next.fresh = op[t].fresh /\ next.seen = c /\ next.stored = op[t].stored
    BY <1>1 DEF Operation
  <2> HIDE DEF next
  <2>5. Typed(t, next) BY <1>1, <1>3, <2>1, <2>4 DEF Typed
  <2>6. HomeHolds(next, rows) BY <1>1, <1>5, <2>1, <2>4 DEF HomeHolds
  <2> QED BY <1>1, <1>2, <2>2, <2>3, <2>5, <2>6, Unmoved, MovesOn
<1> QED BY <1>4, <1>5

(* The plan is stored.                                                      *)
LEMMA GetFingerprintKeeps == ASSUME IInv, NEW t \in Handlers, GetFingerprint(t) PROVE IInv'
<1> DEFINE c == Known(t)[op[t].name]
           plan == [ws |-> op[t].ws, contract |-> op[t].seen, fingerprint |-> c]
<1>1. /\ t \in Threads /\ op[t] \in Operation /\ Typed(t, op[t]) /\ HomeHolds(op[t], rows)
      /\ Known(t) \in Specs /\ SpecsHold(Known(t), rows) /\ requests \in 0 .. MaxRequests
  BY HandlerRelies
<1>2. op[t].pc = "fingerprint" /\ Ends(t) /\ UNCHANGED <<rows, specs, called, requests>>
  BY DEF GetFingerprint, At
<1>3. op[t].ws \in Workspaces /\ op[t].name \in Names /\ op[t].seen \in Contract
  BY <1>1, <1>2 DEF Typed
<1>4. plans' = IF Usable(c) THEN plans \union {plan} ELSE plans BY DEF GetFingerprint
<1>5. ASSUME Usable(c) PROVE plan \in Plan /\ PlanHolds(plan, rows)
  <2>1. c \in Contract /\ HasHome(c, rows) BY <1>1, <1>3, <1>5 DEF Usable, Specs, SpecsHold
  <2>2. HasHome(op[t].seen, rows) /\ Serves(op[t].seen, op[t].ws)
    BY <1>1, <1>2, <1>3, RegistrationAssumption DEF HomeHolds
  <2> HIDE DEF c
  <2>3. plan \in Plan BY <1>3, <2>1 DEF Plan
  <2> QED BY <2>1, <2>2, <2>3 DEF PlanHolds
<1> HIDE DEF plan, c
<1>6. plans' \subseteq Plan /\ \A q \in plans' : PlanHolds(q, rows) BY <1>4, <1>5 DEF IInv
<1>7. called' \subseteq [plan : Plan, spec : Contract] /\ requests' \in 0 .. MaxRequests
  BY <1>2 DEF IInv
<1> QED BY <1>1, <1>2, <1>6, <1>7, EndKeeps

(* A worker overlays its specs with the rows; nobody else has its registry. *)
LEMMA TickKeeps == ASSUME IInv, NEW w \in Workers, Tick(w) PROVE IInv'
<1> DEFINE p == ProcessOf[w]
           made == Overlaid(rows, specs[p])
           next == [Idle EXCEPT !.pc = "dispatch"]
<1>1. /\ w \in Threads /\ p \in Processes /\ specs[p] \in Specs /\ SpecsHold(specs[p], rows)
  BY Relies DEF Threads
<1>2. /\ Goes(w, next) /\ UNCHANGED <<rows, plans, called, requests>>
      /\ specs' = [specs EXCEPT ![p] = made]
  BY DEF Tick
<1>3. made \in Specs /\ SpecsHold(made, rows)
  <2>1. rows \in SUBSET Contract BY DEF IInv
  <2>2. \A c \in rows : HasHome(c, rows) BY DEF HasHome
  <2> QED BY <1>1, <2>1, <2>2, RegistrationAssumption, OverlaidKeeps
<1> HIDE DEF made
<1>4. specs' \in [Processes -> Specs] /\ \A q \in Processes : SpecsHold(specs'[q], rows')
  BY <1>1, <1>2, <1>3 DEF IInv
<1>6. next \in Operation BY IdleHolds DEF Operation
<1>7. /\ next.pc = "dispatch" /\ next.then = "end" /\ next.found = {} /\ next.fresh = NoSpecs
      /\ next.seen = None /\ next.stored = None
  BY DEF Idle
<1> HIDE DEF next
<1>8. Typed(w, next) BY <1>7 DEF Typed
<1>9. \A n \in Names : NoSpecs[n] = None BY DEF NoSpecs
<1>10. HomeHolds(next, rows') BY <1>7, <1>9 DEF HomeHolds
<1>11. Goes(w, next) BY <1>2
<1>12. RowsKeep /\ RowsHold(rows') BY <1>2 DEF RowsKeep, IInv
<1>13. /\ plans' \subseteq Plan /\ \A plan \in plans' : PlanHolds(plan, rows')
       /\ called' \subseteq [plan : Plan, spec : Contract] /\ requests' \in 0 .. MaxRequests
  BY <1>2 DEF IInv
<1> QED BY <1>1, <1>4, <1>6, <1>8, <1>10, <1>11, <1>12, <1>13, ThreadStep

(* A call is of the contract its worker has.                                *)
LEMMA DispatchKeeps == ASSUME IInv, NEW w \in Workers, Dispatch(w) PROVE IInv'
<1>1. w \in Threads /\ Known(w) \in Specs BY Relies DEF Threads, Known
<1>2. Ends(w) /\ UNCHANGED <<rows, specs, plans, requests>> BY DEF Dispatch
<1>3. called' \subseteq [plan : Plan, spec : Contract]
  <2>1. CASE UNCHANGED called BY <2>1 DEF IInv
  <2>2. ASSUME NEW plan \in plans, LET c == Known(w)[plan.contract.name] IN
                 /\ Usable(c) /\ c = plan.fingerprint /\ Serves(c, plan.ws)
                 /\ called' = called \union {[plan |-> plan, spec |-> c]}
        PROVE  called' \subseteq [plan : Plan, spec : Contract]
    <3>1. plan \in Plan BY DEF IInv
    <3>2. plan.fingerprint \in Contract BY <3>1 DEF Plan
    <3> QED BY <2>2, <3>1, <3>2 DEF IInv
  <2> QED BY <2>1, <2>2 DEF Dispatch
<1>4. plans' \subseteq Plan /\ (\A plan \in plans' : PlanHolds(plan, rows)) /\ requests' \in 0 .. MaxRequests
  BY <1>2 DEF IInv
<1> QED BY <1>1, <1>2, <1>3, <1>4, EndKeeps

(* A request fails.                                                         *)
LEMMA AbandonKeeps == ASSUME IInv, NEW t \in Handlers, Abandon(t) PROVE IInv'
<1>1. t \in Threads /\ requests \in 0 .. MaxRequests BY HandlerRelies
<1> QED BY <1>1, Unmoved, EndKeeps DEF Abandon

(* A process starts again: its threads are idle, its specs the manifest's.  *)
LEMMA RestartKeeps == ASSUME IInv, NEW p \in Processes, Restart(p) PROVE IInv'
<1>1. /\ rows' = rows /\ UNCHANGED <<plans, called>>
      /\ specs' = [specs EXCEPT ![p] = Overlaid(Base, NoSpecs)]
      /\ op' = [t \in Threads |-> IF ProcessOf[t] = p THEN Idle ELSE op[t]]
  BY DEF Restart
<1>2. requests' \in 0 .. MaxRequests BY RegistrationAssumption DEF Restart, Counted, IInv
<1>3. specs' \in [Processes -> Specs] /\ \A q \in Processes : SpecsHold(specs'[q], rows')
  BY <1>1, ManifestHolds DEF IInv
<1>4. ASSUME NEW t \in Threads
      PROVE  /\ op'[t] \in Operation /\ Typed(t, op'[t]) /\ HomeHolds(op'[t], rows')
  <2>1. CASE ProcessOf[t] = p BY <1>1, <2>1, IdleHolds
  <2>2. CASE ProcessOf[t] # p
    <3>1. op'[t] = op[t] BY <1>1, <2>2
    <3> QED BY <1>1, <3>1, Relies
  <2> QED BY <2>1, <2>2
<1>5. op' \in [Threads -> Operation] BY <1>1, <1>4
<1> QED BY <1>1, <1>2, <1>3, <1>4, <1>5 DEF IInv

(* Every step keeps the invariant.                                          *)
LEMMA NextInv == IInv /\ [Next]_vars => IInv'
<1> SUFFICES ASSUME IInv, [Next]_vars PROVE IInv' OBVIOUS
<1>1. ASSUME NEW t \in Handlers, Arrive(t) \/ Handle(t) \/ Abandon(t) PROVE IInv'
  BY <1>1, ArriveKeeps, SelectRowsKeeps, MergeKeeps, AssignKeeps, CheckScopeKeeps, ReadRowKeeps,
     WriteRowKeeps, GetContractKeeps, GetFingerprintKeeps, AbandonKeeps DEF Handle
<1>2. ASSUME NEW w \in Workers, Work(w) PROVE IInv' BY <1>2, TickKeeps, DispatchKeeps DEF Work
<1>3. ASSUME NEW p \in Processes, Restart(p) PROVE IInv' BY <1>3, RestartKeeps
<1>4. CASE UNCHANGED vars BY <1>4 DEF vars, IInv
<1> QED BY <1>1, <1>2, <1>3, <1>4 DEF Next

(* The invariant holds throughout.                                          *)
LEMMA Invariant == Spec => []IInv
BY InitInv, NextInv, PTL DEF Spec
-----------------------------------------------------------------------------
(* Rows, specs, plans, calls and operations keep their types.               *)
THEOREM TypeCorrect == Spec => []TypeOK
BY InvTypes, Invariant, PTL

(* A name has one home, the manifest's or the first registration's, in rows *)
(* and plans and in every copy that processes and requests have.            *)
THEOREM OneHome == Spec => []NamesHaveOneHome
<1>1. IInv => NamesHaveOneHome
  <2> SUFFICES ASSUME IInv PROVE NamesHaveOneHome OBVIOUS
  <2>1. ASSUME NEW c \in Everywhere \ {None} PROVE HasHome(c, rows)
    <3>1. CASE c \in Base \union rows BY <3>1 DEF HasHome
    <3>2. ASSUME NEW t \in Threads, c \in op[t].found PROVE HasHome(c, rows)
      BY <3>2, Relies DEF HomeHolds
    <3>3. ASSUME NEW p \in Processes, NEW n \in Names, c = specs[p][n] PROVE HasHome(c, rows)
      BY <3>3 DEF IInv, SpecsHold
    <3>4. ASSUME NEW t \in Threads, NEW n \in Names, c = op[t].fresh[n] PROVE HasHome(c, rows)
      BY <3>4, Relies DEF HomeHolds
    <3>5. ASSUME NEW t \in Threads, c = op[t].seen PROVE HasHome(c, rows)
      BY <3>5, Relies DEF HomeHolds
    <3>6. ASSUME NEW plan \in plans, c = plan.contract \/ c = plan.fingerprint PROVE HasHome(c, rows)
      BY <3>6 DEF IInv, PlanHolds
    <3> DEFINE Found == UNION {op[t].found : t \in Threads}
               Held == {specs[p][n] : p \in Processes, n \in Names}
               Fresh == {op[t].fresh[n] : t \in Threads, n \in Names}
               Seen == {op[t].seen : t \in Threads}
               Planned == {plan.contract : plan \in plans}
               Printed == {plan.fingerprint : plan \in plans}
    <3>7. CASE c \in Found BY <3>2, <3>7
    <3>8. CASE c \in Held BY <3>3, <3>8
    <3>9. CASE c \in Fresh BY <3>4, <3>9
    <3>10. CASE c \in Seen BY <3>5, <3>10
    <3>11. CASE c \in Planned \union Printed BY <3>6, <3>11
    <3>12. Everywhere = Base \union rows \union Found \union Held \union Fresh \union Seen
                         \union Planned \union Printed
      BY DEF Everywhere
    <3> HIDE DEF Found, Held, Fresh, Seen, Planned, Printed
    <3> QED BY <3>1, <3>7, <3>8, <3>9, <3>10, <3>11, <3>12
  <2>2. ASSUME NEW c \in Everywhere \ {None}, NEW d \in Everywhere \ {None}, c.name = d.name
        PROVE  c.home = d.home
    <3>1. PICK b \in Base \union rows : b.name = c.name /\ b.home = c.home BY <2>1 DEF HasHome
    <3>2. PICK e \in Base \union rows : e.name = d.name /\ e.home = d.home BY <2>1 DEF HasHome
    <3>3. b.home = e.home
      BY <2>2, <3>1, <3>2, RegistrationAssumption DEF IInv, RowsHold, UniqueNames
    <3> QED BY <3>1, <3>2, <3>3
  <2>3. \A plan \in plans : Serves(plan.contract, plan.ws) BY DEF IInv, PlanHolds
  <2> QED BY <2>2, <2>3 DEF NamesHaveOneHome
<1> QED BY <1>1, Invariant, PTL
=============================================================================
