# Verification of the RedNexus platform

RedNexus runs *missions*: plans of tool calls that wait for approvals, survive
crashed workers, stop at their deadline and leave an audit trail. Several API
processes and several workers share one SQL database, with no other
coordination than its transactions. This directory holds TLA+ models of that
system, TLC configurations that check them on small instances, and TLAPS proofs
of theorems about them for every value of the constants.

Paths below are relative to the repository; `runtime.py`, `service.py` and the
like are in `rednexus/platform/`.

## 1. The system

| Component | State it keeps | Operations | Works with |
|---|---|---|---|
| Mission rows and plan data flow (`storage.py`, `workflows.py`) | `nx_runs`: status, cursor, outputs, counters, lease; `nx_approvals` | conditions and bindings over earlier outputs | everything below |
| Worker runtime (`runtime.py`, `cli.py` worker loop) | the worker's lease and what it read | `recover`, `claim`, `prepare`, the gateway call, `finish` | rows, registry, gateway |
| Mission service (`service.py`) | rows only | `submit`, `cancel`, `review`, `reconcile` | rows, memberships |
| Admission (`service.py`, `extensions.py`) | missions, groups, the inbox of events, rules | `submit` and its second attempt, `submit_group`, `ingest` | the workspace's row lock |
| Event outbox and consumer (`events.py`) | outbox rows, the Redis stream and its group, receipts, dead letters | `publish`, `consume` | worker loop, Redis |
| Workspace memory and semantic index (`service.py`, `memory.py`) | versioned rows, vectors | `remember`, `delete_memory`, `search_memory`, `index`, `search`, `purge_expired` | memberships, an embedding provider |
| Adapter SDK and gateway (`adapter_sdk.py`, `adapters.py`) | the adapter's receipts | `execute`, the gateway's request | `finish` of the worker |
| Capability registry (`adapters.py`, `extensions.py`) | registrations in `nx_capability_registrations`, `Registry.specs` of every process | `refresh`, `register`, `snapshot`, the fingerprint check of `prepare` | service and worker |
| Workspaces, templates, discovery (`extensions.py`) | one row per operation | create, save, probe, group status | identity, admission |
| Identity and quotas (`identity.py`, user endpoints of `api.py`, commands of `cli.py`) | users, memberships, sessions, login and rate counters | `login`, `logout`, `authenticate`, `consume_quota`, create user, change access, `sync-admin-grants`, `add-membership`, `create-workspace` | every request |
| Legacy reference runtime (`src/rednexus/core.py`) | runs, approvals, the calls a process is in | `register`, `submit`, `advance`, `review`, `cancel`, restarts | handlers, which may call it again |
| API, drafts and planners, configuration, launcher, diagnostics, SDK client, browser client, external adapters, scripts | none, or not the platform's | | |

### What is hard, and what makes each part correct

* **Missions.** Every transaction of every process interleaves with every
  other, `recover()`, `claim()` and `review()` read in one place and update in
  another, a worker may die or be slow at any point, and a late answer may meet
  a mission that moved on. Correct means: an effect is asked for at most once
  and never on a stale approval; an uncertain effect is held until a person
  settles it; cancellation stops work; a live lease ends only by its holder;
  limits hold; finished missions stay finished; active missions come to rest.
* **Admission.** Clients repeat requests that are still being served, and a
  group or an event inserts many missions at once. Correct means: the quota
  holds for every insertion, a key has one content and one answer, groups and
  events come in whole and once, and a submission that lost a race is answered.
* **Outbox.** Neither store knows of the other's transactions. Correct means:
  nothing is lost, acknowledgements follow receipts, everything drains.
* **Memory.** A provider works for seconds between a transaction that read
  rows and one that stores what was made of them. Correct means: no vector
  survives its text, no search of the present resurfaces an older version, and
  no version is written over.
* **Adapter.** Answers get lost, handlers outlive their callers, the adapter
  restarts. Correct means: one handler per key, and whoever is told of an output
  is told of that one.
* **Registry.** Every process has a copy of the catalog, threads of one process
  share it, and `refresh()` reads rows, overlays what the process has and assigns
  with other threads in between. Correct means: a name has one home for ever,
  also in what a slow thread writes back, and workers come to know what was
  registered. The documents also promise that a changed contract has a new version
  and that what runs is what was planned; the code breaks both (section 4).
* **Identity.** A request is authenticated in one transaction and acts in
  another, and counters are found, reset and counted up by separate statements
  of several processes. Correct means: a workspace keeps an administrator unless
  two disable each other at once, a revoked access does not come back by a change
  that has not seen the revocation, and guesses stay within their limit.
* **Legacy runtime.** `advance()` writes over a row it read before the handler
  ran, and the handler, or another process after a crash, may have used the
  runtime meanwhile. Correct means the same promise that missions keep, with no
  step ever repeated.

`PROJECT.json` lists the hazards at their lines, each with the properties that
would catch it or the reason that none does yet.

## 2. Modules

| Module | Models | Proofs |
|---|---|---|
| `MissionStore` | rows, contracts, conditions and bindings | |
| `MissionWorker` (on `MissionStore`) | recover, claim, prepare, call, finish, crash, restart | |
| `MissionService` (on `MissionStore`) | submit, cancel, review, reconcile, access changes, new contracts | |
| `MissionRuntime` (composes both) | the clock, the specification, all mission properties | `MissionProofs` |
| `MissionPromise` | abstract: what a runtime promises about every mission | |
| `LegacyCore` | the single-process runtime; implements `MissionPromise` | `LegacyProofs` |
| `EventDelivery` | abstract: every emitted event is received, once | |
| `Outbox` | publish and consume call by call; implements `EventDelivery` | `OutboxProofs` |
| `Admission` | submit, submit_group and ingest statement by statement | `AdmissionProofs` |
| `Registration` | rows, every process's registry, refreshes in steps, register, snapshot, dispatch | `RegistrationProofs` |
| `Identity` | memberships, sessions, login counter and quotas, each request split between its reads and its writes | `IdentityProofs` |
| `MemoryStore` | one namespace of the memory with its index | `MemoryProofs` |
| `AdapterReceipts` | the SDK's receipts, the gateway, what `finish` makes of answers | `AdapterProofs` |
| `MCMission`, `MCAdmission`, `MCRegistration`, `MCIdentity`, `MCMemory` | constants and symmetries for TLC | |
| `MCJournals` (on `Outbox`, `AdapterReceipts`, `LegacyCore`) | constants for TLC, and one specification of which each of the three is a part | |

Definitions keep the source's names where they can; `PROJECT.json` maps each to
its lines. Operators that are named after a bug (`ClaimsUnchecked`,
`SkippedRowNoOutput`, `RestartForgets`, ...) are mutants: a plausible wrong
version of the definition that follows them. No specification uses them; they
show that the property they belong to can fail.

### Missions

A row of `nx_runs` is a record `run[r]`. Timestamps are Booleans that the clock
sets: `lapsed` (lease over), `due` (backoff over), `overdue` (deadline over),
and `lapsed` of an approval. An action is a transaction, except where the code
reads outside the transaction that updates, or reads rows without locking them
and updates them under weaker conditions:

| Code | Actions |
|---|---|
| `recover()` | `RecoverScan`: what the three SELECTs return; `RecoverApply`: the updates, each under the code's own WHERE |
| `claim()` | `ClaimScan`: the candidates; `ClaimTry`, one candidate at a time (`Claim`, `PassOver`) |
| `prepare()` | `PrepareStop` (blocked, cancelled, skipped, approval requested, fenced off) and `PrepareStart` (reserves the call) |
| the gateway call | `Call`: counts what is asked of the world, with no check of the lease, as in the code |
| `finish()` | `FinishOutput`, `FinishError`, fenced by the lease token and its time |
| process death, restart | `Crash`, `Restart`, at any point |
| `review()` | `ReviewRead`: what is read and checked; `ReviewWrite`: the conditional updates |
| `cancel()`, `reconcile()`, `submit()` | `Cancel`, `Reconcile`, `Submit` |
| user administration, registration | `ChangeAccess`, `Register` |

Contracts are records of effect, approval, attempts and cost; a fingerprint is
the contract's number in the catalog, and an approval's digest the pair of
fingerprint and outputs that it stands for. A lease token is unique while any
worker, scan or row has it; `Tokens` only has to be large enough, and a token is
fresh if nobody has it. `calls[r, i]` is a history variable: how often step *i*
of mission *r* was asked of the gateway.

`LeaseHeldAlone` is what the WHERE clauses of `claim()`, `recover()`, `finish()` and
`prepare()` have to achieve together: while a mission runs under a lease that has
not lapsed, its token is replaced or cleared only by the worker that holds it,
which lets go of it in the same step. It fails when `claim()` takes what its SELECT
returned without looking at the status again.

### The promise

`MissionPromise` has one variable: a ledger with an entry per mission. An entry
is a stage (absent, open, held, or an end), the plan, the number of recorded
outputs, the steps that somebody other than the owner approved, who is permitted
to ask for a step and has not yet done so, and how often each step was asked
for. It says what may happen to an entry: a step is asked for only with a
permission, which only an open mission at that step gives and, where the plan
asks for it, only with an approval; a step that may not be repeated gets one
permission in all; an output is recorded in order and has a cause; only what may
not be repeated is held; and what has ended moves no more, except that a
permission given before may be used late. A move may change several missions,
as one transaction of `recover()` does.

Two very different runtimes keep it. In `MissionRuntime` (`Ledger`) a permission
is a worker that reserved the attempt, and a mission that lost its worker is
held by `recover()`. In `LegacyCore` a permission is a call of `advance()` before
its handler, and a mission is held by the mere fact that its row says "running"
and no call is on it.

### Legacy runtime

Commits are the actions. `stack` holds the calls of `advance()` that the process
is in, each with the row as it read it; `MayCall` says that control is with the
caller or with a handler, which may do all that the caller may. `HandlerReturns`
writes from the row in the frame, not from the table. `Abandon` is a call that
ends by what it does not catch, `ProcessRestart` a process that ends anywhere and is
replaced by one that has registered nothing.

### Admission

One connection serves one request at a time. Each statement is an action: the
lookup of an earlier mission, the lock of the workspace's row, count and insert,
the commit. Inserts become visible when they commit; a unique constraint that
fails sends `submit` into its second attempt, `submit_group` to the state
"failed" (an error nobody handles) and `ingest` to its 409. `accepted` remembers
what clients were told. Missions end by themselves (`Settle`); how they do is the
business of the mission modules. `reconcile()` makes a held mission active again
and does not count (`Requeue`). Two properties speak of the limit. `AdmittedWithinCap`
says of every step that inserts a mission, committed or not, that all active
missions then are within it; the code keeps it. `AtMostMaxActive` is the limit as
the documents state it, and the code does not keep it (finding 4).

### Registration

A thread has a place in the program and its local variables (`op`). `refresh()`
is three actions, `SelectRows`, `Merge` and `Assign`, because the threads of an
API process share `Registry.specs`; a worker is a process of one thread.
`register()` refreshes, judges the offer against the specs (`CheckScope`), reads
the row of its name and writes it, with the unique constraint of the insertion
(`ReadRow`, `WriteRow`, `Insertable`). `snapshot()` takes the contract and its
fingerprint in two steps (`GetContract`, `GetFingerprint`), and `Dispatch` is the
check of `prepare()`; both look the contract up for a workspace (`Serves`).
`Restart` is a process that starts from the manifest again.

### Identity

A thread is an API handler or a command of the local operator. Whoever asks is
authenticated when the request starts; `Load...` is what the transaction reads
and `Store...` what it writes, a row's unchanged columns being left alone, as the
ORM does (`Merged`; grants are lists in the code, so that the same grants in
another order may be written or not). `late` remembers the workspaces where a change was stored by
someone who was no longer an administrator; `tried` and `wins` count, per window,
the attempts let through and the successes. `consume_quota()` is the same
statements with another key and no password (`UseQuota`). Passwords are a choice
of right or wrong in `Verify`.

### Memory

`memory[k]` is the sequence of versions of key *k*. A transaction that updates
rows holds their locks to its end (`Locked`, `Free`), and its writes show at the
commit. `index()` is four actions: the read, the provider's answer, the locking
check of each text (`IndexLock`) and the commit. A search with `history=true`
returns older versions by design (`HistorySearch`); `NeverStale` speaks of the
searches of the present. That a grant revoked while the provider worked stops the
answer is a guard of `IndexLock` and `SemanticAnswer`. Texts, scores and vectors are
abstracted to presence, since nothing the properties say depends on more.

### Adapter

Requests and callers are apart: a worker that gives up (`GiveUp`) leaves its
request on its way, a request may be answered after that, answers may be lost
(`Lose`), and `Restart` drops every request of the adapter but none of its
receipts. `LookUp` and the insertion of the receipt are one action because the
SDK holds one exclusive SQLite transaction over them.

### Outbox

Each call of `publish()` and `consume()` to either store is an action of its own.
`Interrupt` ends a round anywhere, for an exception of a store as for a dead
process. Redis is external and modelled from how it is used: a stream that keeps
its entries, a group that hands each out once, and entries that may be claimed
again when they have been pending for 30 seconds (`BecomeIdle`). `AddForeign` is
an entry of another writer that is no envelope.

The outbox, the adapter's receipts and the legacy runtime are checked in one run.
They share no state, so their steps commute and interleaving them would show
nothing new: `MCJournals` picks the one that moves (`acting`) at the start, and
the others keep their initial state.

## 3. Runs

States are distinct states found by TLC, after symmetry where it is used.

| Run | Instance | States | Question |
|---|---|---|---|
| `effect` | 2 workers; a read, an approved write bound to it and conditional on it, a conditional read | 523,681 | leases, approvals, limits, conditions, cancellation, reconciliation; `MissionPromise` implemented |
| `settles` | 2 workers, fairness; a read that needs approval, with 2 attempts; a reviewer's membership and a contract that change | 426,276 | active missions come to rest |
| `retry_wait` | 1 worker; a read | violation | finding 1 |
| `audit` | 1 worker; a write | violation | finding 3 |
| `journals` | outbox: 2 workers, 1 event, 1 foreign entry, 1 interrupted round, fairness; adapter: 3 callers of one key, 2 contents, 2 attempts; legacy: 2 runs of 2 people, 2 steps and 1, contracts in 2 forms, any nesting and restart | 459,856 | nothing lost, everything drains, `EventDelivery` implemented; one handler, true answers, uncertainty stays; `MissionPromise` implemented, no step repeated |
| `admission` | 2 connections, a group of 2, a mission under one of its keys, an event with 2 rules, quota 2, holds and requeues | 513,936 | quota of insertions, lost races, keys, groups, events |
| `quota` | 1 connection, quota 1 | violation | finding 4 |
| `memory` | 2 people, 2 keys, 3 rows, lifetimes 1 and 2 | 1,993,567 | redaction, versions, stale answers |
| `registry` | an API process of 2 threads and a worker, 2 names, 5 offers, 3 requests or restarts, fairness | 508,898 | homes, catching up |
| `torn_plan` | the same without fairness | violation | finding 2 |
| `versions` | 2 threads, offers of one name that differ under one version | violation | finding 5 |
| `identity` | 3 threads, 2 administrators, a user and a workspace to come, limit 1, 3 requests | 402,940 | administrators, revocations, guesses |

### Bounds, and why they are enough

* **Workers, 2.** What a worker can meet is a row that another process changed;
  two workers of which each may be any number of steps behind produce every
  pairwise overlap, and a third would add only more of the same changes.
  `Tokens` exceeds the number that rows, jobs and scans can hold at once, so
  that a fresh one exists whenever the code would make one.
* **Missions, 1 (2 where missions compete).** Missions share nothing but the
  candidates' window, the quota and lease tokens. The theorems are about any
  number of missions.
* **Steps, up to 3.** Two steps show that counters are reset and outputs are
  carried over; the third is needed for a condition on a skipped step.
* **Attempts, 2.** One retry and its exhaustion.
* **ClaimLimit, 1.** With one or two missions a window of one is a window that
  can be full. **Contract versions, 1** (in `settles`): one
  change after approval.
* **Outbox.** One event with two workers, an interrupted round and a foreign
  entry yields duplicates, reclaimed entries and both outcomes of the race for
  a receipt. The invariants are proved for any number of each.
* **Admission.** A quota of 2 that a group of 2 fills exactly, an event whose two
  rules overfill it, and a mission whose key is one the service would give the
  group's first. Two contents tell equal requests from different ones.
* **Registration.** Two threads of one process produce every overlap of a
  refresh with a refresh, a registration or a submission, and the worker is the
  other process; the same row is registered by two at once with two contracts of
  one version. Three requests let a third thread's worth of changes fall between
  two steps of the first, or a restart. One name is the manifest's and bound, one
  is free; the offers change content without version, version, and workspace.
* **Identity.** Two administrators can disable each other while the operator
  restores one; with a limit of one the second attempt is already one too many,
  and three threads can find, reset and count one counter at once.
* **Memory.** Three rows are more than the search's window of two, so that the
  window cuts; two lifetimes let a newer version expire before an older one; a
  batch of one makes an index of two texts go round twice. A clock up to 2
  outlasts the shorter lifetime and reaches the longer one.
* **Adapter.** A dispatch, a second one of the same content and one of another
  content, with two attempts each, are a retry, a takeover and a conflict.
* **Legacy runtime.** Two runs let a handler work on its own run and on another;
  two steps show the step after an output. Calls need no bound: each is on a run
  of its own. The theorem is about any number of runs and steps.

The transaction steps assume PostgreSQL's READ COMMITTED. SQLite, the default,
lets one writer in at a time and so allows fewer behaviours, not others.
`CHECK_DEADLOCK` is on in every run but `identity`, where the bounded number of
requests is used up and the system stops; in `registry` the worker ticks on.

### Fairness

Three specifications state fairness. In `MissionRuntime`, `FairSpec` has weak
fairness for each worker's `Tick` (the loop of `cli.py` runs until it is killed,
and restarts are the supervisor's), and for the passing of leases and deadlines.
Nobody need review, cancel, submit or reconcile. The liveness properties assume
further, as a premise in the formula, that at least one worker stops crashing
(`OneWorkerSurvives`); the others may crash and restart for ever. The backoff
and the approvals' own times need no fairness, since the deadline comes anyway.
In `Outbox` (and in `MCJournals`, which has its fairness while the outbox moves),
workers go on with their rounds and pending entries become idle;
the interruptions are bounded by `MaxFaults`, which stands for stores that are
reachable again eventually. Nothing need be emitted. In `Registration`, weak
fairness of each worker's `Work`: its loop refreshes at every tick. Requests need
not come, and one that has begun need not go on, since a client, a proxy or a
crash may end it. The other modules are about
safety and state no fairness.

## 4. Findings

Each is a run that TLC ends with a counterexample; `PROJECT.json` quotes the
documentation it contradicts.

1. `retry_wait` - `recover()` decides on the row it read and updates under the
   lease token alone: a cancellation in between leaves a mission in `retry_wait`
   that `claim()` will never take. It stays active until its deadline.
2. `torn_plan` - `snapshot()` reads the process's specs twice for a step, for the
   contract and for its fingerprint, and another request's `refresh()` may assign
   in between. The plan then holds the old contract under the new one's
   fingerprint; `prepare()` compares fingerprints only, and the step is executed
   under a contract other than the one it was planned, validated and is
   recovered by.

3. `audit` - a mission that expires with its approval changes status without a
   record in the event log, where every domain transition is promised one. An
   auditor who follows the log finds a mission that waits for ever.
4. `quota` - missions held for reconciliation do not count as active, and
   `reconcile()` queues them again without counting: the workspace exceeds the
   limit that the documents state without exception, by as many as were held.
5. `versions` - `register()` compares the new contract with what its process knew
   before the transaction, not with the row it overwrites: two administrators
   replace each other's contract under one version.

What remains true beside findings 3 and 4 is stated too: `LogSilentOnLapse` (a
theorem) says that a lapsed approval is the only thing the log does not explain,
and `AdmittedWithinCap` (a property of `admission`, and a theorem) that no
insertion exceeds the limit.

Two more observations are in the models and contradict no document:

* A lease lost between `claim()` and `prepare()` on an effectful step holds the
  mission for reconciliation, though nothing was reserved or called. This errs on
  the safe side.
* Two administrators who disable each other at once leave a workspace with none,
  and a change of access that leaves `enabled` at its default enables a member
  who was disabled before the change read the row. `AdminsRemain` exempts the
  first (`late`), and `AccessRisesKnowingly` allows the second, since the request
  found the member disabled.

## 5. Theorems

All are of the form `Spec => []Inv` or `Spec => [][A]_vars`, or say that the
specification implements an abstract one, for every value of the constants that satisfies the named assumption of the module: any missions and
plans, any numbers of workers, people, callers, keys, events, faults. The
assumptions say only what the code's types and validators guarantee (a plan's
conditions and bindings refer to earlier steps, a contract that is not a read
needs approval, limits are numbers, `None` is no token).

**Missions** (`MissionProofs`). The first invariant gives `TypeCorrect`,
`EffectSafety` (`EffectAtMostOnce`), `LeaseSafety` (`LeaseIffRunning`) and
`CursorSafety` (`CursorFollowsOutputs`). That an effect is asked for once is not
inductive: it depends on what every worker that still holds a token may do, and
on what every scan may still write. The invariant therefore adds: what a worker
holds in each phase (`JobsHold`), that a mission not yet submitted is untouched
(`UntouchedBefore`), that a verdict which a `recover()` has read for an effect
and may still write is to hold it (`VerdictsStand`), that an effect whose attempt
is counted is in no status, and with no worker, from which it could be reserved
again (`EffectReservedOnce`), and that a reserved effect is with one worker that
has not asked for it yet, or has been asked for once, and that no later step has
(`ReservedThenCalled`). Most actions do the same few things to a row; the proof
shows once that such an `Ordinary` step preserves the invariant and then treats
`Claim`, `PrepareStart` and `Call` on their own.

The second invariant (`HInv`) is about what the tables say of each other: a row's
status, its approvals, its events, and the calls made for it (`Recorded`); that a
worker which holds the lease of a step it has reserved is at that step, and has
asked if it waits for an answer (`Calling`); that a verdict a scan may still write
was reached on a lease that has lapsed, and one to hold a mission at an effect
(`HoldVerdicts`); and that nobody
reviews a mission of his own (`DeskHolds`). To prove it by action would repeat the same
few arguments some twenty times. Instead `StepKinds` shows that a step does to
each mission one of eleven *deeds* - it is left alone, submitted, cancelled,
decided on, taken by a worker, expired, failed, stopped early, reserved for a
call, carried on, or settled by a person - and each deed is shown to
keep the invariant and to be a move of the promise. It gives `EffectsHeld`
(`UncertainEffectHeld`), `PendingTogether` (`PendingIffWaiting`), `ApprovedCalls`
(`CallsWereApproved`), `CausesRecorded` (`OutputsHaveCauses`), `LogSilentOnLapse`, `CancellationStops`
(`CancellationHolds`), `HolderDecides` (`LeaseHeldAlone`) and `Implements`
(`KeepsPromise`): with
any number of workers, every step moves each mission's entry as `MissionPromise`
allows, or leaves it alone.

The deeds also give `PastKept` (`PastIsKept`), an action property stated with the
proofs: a mission that has ended keeps its status, last event, outputs, cursor
and counters; outputs before the cursor are never rewritten; and an approval that
was decided or withdrawn stays so.

The third invariant (`LInv`) counts, and gives `LimitsHold` (`WithinLimits`). A
worker that lost its lease between `prepare()` and the gateway may still call
when its step is being tried again, so that calls are not bounded by what the
row says alone. `StepCounted` therefore bounds the calls of a step together with
the workers that have yet to make one for it: by no call beyond the step the mission is
at, the attempts counted there, and the contract's attempts once it has passed.
`CallsCounted` says the same of the whole mission and its reserved tool calls, by
the sizes of the finite sets of requests made and outstanding, and `Afforded`
that what is reserved is within the mission's limits.

**Admission** (`AdmissionProofs`): `TypeCorrect`, `AdmissionsCount`
(`AdmittedWithinCap`), `LostRacesAreAnswered` (`LostRaceIsAnswered`), `KeysMeanContents` (`KeyMeansContent`), `GroupsAreAtomic` (`GroupAtomic`),
`EventsStartOnce` (`EventOnce`). A quota that each transaction counts for itself
is no matter of the committed rows alone: the invariant says of every transaction
what it has inserted and that these ids are nobody else's (`Serves`), and that whoever has inserted something holds the
workspace's row (`Locks`), so that a commit by one cannot disturb another's
count. `RecordsHold` says the same of an event's record, which its unique
constraint makes others wait for. `Serves` also says that the missions a request
has and has yet to get are the ones it is about, from which keys, groups and
events follow at the commit.

**Registration** (`RegistrationProofs`): `TypeCorrect`, `OneHome`
(`NamesHaveOneHome`). Rows are only
replaced by rows of their name and home, so that "there is a row or a contract of
the manifest with this name and home" (`HasHome`) stays true of every copy, in
specs, in a slow thread's variables and in plans.

**Identity** (`IdentityProofs`): `TypeCorrect`, `AdministratorsRemain`
(`AdminsRemain`), `RisesKnowingly` (`AccessRisesKnowingly`), `AttemptsBounded`
(`GuessesBounded`), `PlatformStays` (`PlatformIsNotGiven`). Rows but sessions are never deleted, so what a thread found
still exists when it writes (`OpHolds`). An administrator remains because nobody
changes his own access, which `OpHolds` carries from the request to its write.
The counters' invariant is that tries are at most the count and the limit for
each success. That the platform's grant is given to nobody is stated with the
proofs: the invariant says that an operation about to write it is a sync of the
catalog's grants at a place that had it from the first (`OpsPlain`).

**Outbox** (`OutboxProofs`): `TypeCorrect`, `NothingIsLost`
(`KeptUntilReceipted`), `AcknowledgementsFollow` (`AcknowledgedIsRecorded`) and
`Implements`: every step is a step of `EventDelivery` or a stutter. The invariant
adds where stream entries come from (`StreamFromOutbox`), that no event becomes
a dead letter (`OnlyForeignIsDead`), and what each worker knows at its position
(`Position`). A second invariant counts (`CInv`): the copies of an event that is
not yet published are those some worker is about to mark and those whose round
was interrupted before, and once it is published only the workers that had found
it before can still add one. Hence `CopiesBounded` (`DuplicatesBounded`), what
at-least-once delivery costs; and `StreamBounded` (`StreamWithinFairness`):
numbering entries by their event and by which copy of it they are is an
injection, so that `FairSpec`'s fairness, which names positions up to a bound,
is about every entry there can be. Workers are finitely many
(`OutboxAssumption`).

**Memory** (`MemoryProofs`): `TypeCorrect`, `RedactionSafety`
(`RedactedHasNoVector`), `VersionsInTime` (`VersionsFollowTime`),
`SearchesAreCurrent` (`NeverStale`) and `HistoryStays` (`VersionsStay`): a version that
two writers race for is written once, and changes only when its key is deleted or
a purge that found it expired commits (`MarkedExpired`). The argument of the first two is the locks: an index
that checked a text keeps its row locked to the commit, so `LocksApart` and what
each operation relies on (`OpFollows`) carry the invariant over every commit. For
the searches the invariant adds that no row is stamped later than now (`Past`),
so that a new version is not older than those before it (`InOrder`). A text
search looks at the newest rows of all keys, up to a limit: what is newer than
the latest version of a key is newer than every other version of it, so if any
is within the limit, the latest is.

**Adapter** (`AdapterProofs`): `TypeCorrect`, `HandlerSafety` (`HandlerOnce`),
`DoneSafety` (`DoneIsExecuted`), `UncertaintySafety` (`UncertaintyStays`),
`ReceiptsSafety` (`ReceiptsStay`: a receipt keeps its content for good, and its
output once it has one). The invariant says that whoever executes does so alone under a started receipt of
its own content (`OneExecutes`) and relates receipts, counts and outputs under
way (`CountFollows`, `OutputIsReceipt`).

**Legacy runtime** (`LegacyProofs`): `TypeCorrect`, `CalledOnce`
(`HandlersCalledOnce`), `PastKept` (`PastIsKept`) and `Implements`
(`KeepsPromise`): every step moves each run's entry as `MissionPromise` allows,
or leaves it alone. The refinement needs that an outcome is written over the row
that was read: the invariant says so of every frame on the stack, and that no two
frames are on one run and only the last has yet to call its handler
(`FramesFit`); that a run that may proceed is within its plan and has an output
for every step before its cursor (`RowFits`); and that beyond the cursor only
the step of a running or failed run was called (`HistoryFits`). The
moves of the promise are proved first, as lemmas on entries given field by
field; a step's proof then only has to say which fields it changes. `CalledOnce` and
`PastKept` are about the rows themselves: each step before the cursor was called
exactly once and none ahead of it or without its approval, and ended runs, plans,
outputs and decisions are not written again, although an outcome is written over
a row that was read before the handler ran.

**Only model-checked.** All liveness, which is out of the prover's reach, as is
ENABLED, and with it the fairness part of `EventDelivery`; and the five findings,
which are counterexamples. Every invariant that a run expects to hold is stated by
a theorem. The prover cannot do induction over
data or use RECURSIVE operators; the modules need neither.

## 6. Not modelled

* **Row locks inside a mission's transaction**: `review()` takes its locks in
  another order than `cancel()` and `recover()`; on PostgreSQL the server aborts
  one of two that wait for each other.
* **In the mission modules**, a contract changes in one step and memberships are
  a set that changes; how they change is `Registration`'s and `Identity`'s, which
  are not composed with missions in one run.
* **Of identity**: password hashing, tokens and the first bootstrap, which is the
  initial state.
* **Clocks that differ** between API processes, and a Redis entry that passes the
  envelope check but not the store: see the hazards' notes.
* **Schemas, payload limits, endpoint and credential checks**: refusals that
  change nothing, folded into the actions' nondeterministic errors.
* **Of the legacy runtime**: its event journal and `remember()`/`recall()`,
  which touch no other state, and the grants of principals, which it does not
  store.
* API routing, drafts, planners, launchers, configuration, diagnostics, the
  browser client and scripts keep no state of the platform or
  are pure input and output; `PROJECT.json` gives the reason for each.

## 7. Plan

Order of work: the mission modules came first, because every other part exists
to feed them or to report on them, then the outbox with its abstract
specification, then admission, memory and the adapter, the promise and
the runtime that it also describes, and last the registry and identity, which
feed the missions their contracts and their people. What is left, in order:

1. **Locks**: the row locks of review, cancel, recover, index and purge in the
   order the code takes them, against deadlock.
2. **Composition**: `Registration`'s plans as the plans of `MissionRuntime`, so
   that a torn plan's consequences for retries appear in one run.

## 8. Running

    tlc -config MCMission_effect.cfg MCMission.tla
    tlapm MissionProofs.tla

Every run ends within five minutes on two cores, most within one; the proofs
take some minutes each.
