-------------------------- MODULE AdapterReceipts --------------------------
(* A project adapter built with adapter_sdk.py, and the workers that call   *)
(* it through the gateway of platform/adapters.py.  The adapter keeps a     *)
(* receipt for each idempotency key.  An answer, or the connection it was   *)
(* awaited on, may be lost; a worker that has given up does not stop the    *)
(* request it sent; and the adapter may stop and start again at any time.   *)
EXTENDS Naturals, FiniteSets

CONSTANTS
  Callers,      \* dispatched steps, and anyone else who uses their keys
  Keys,         \* idempotency keys
  KeyOf,        \* the key each caller sends
  Content,      \* what the fingerprint of each caller's request tells apart
  Effectful,    \* the callers whose contract is not a read
  Outputs,      \* what a handler may return
  NoOutput,
  MaxAttempts   \* max_attempts of the contract

ASSUME AdapterAssumption ==
  /\ KeyOf \in [Callers -> Keys] /\ DOMAIN Content = Callers
  /\ Effectful \subseteq Callers
  /\ NoOutput \notin Outputs
  /\ MaxAttempts \in Nat \ {0}

VARIABLES
  receipt,    \* the receipts table: a row, or nothing, for each key
  request,    \* each attempt's request, where it is and what it yields
  call,       \* what each caller knows of its step
  executed    \* how often a handler has been entered for each key

receiptVars == <<receipt, request, call, executed>>

Attempts == Callers \X (1..MaxAttempts)
Contents == {Content[c] : c \in Callers}

Receipt == [status : {"none", "started", "completed"},
            content : Contents \union {NoOutput}, output : Outputs \union {NoOutput}]
NoReceipt == [status |-> "none", content |-> NoOutput, output |-> NoOutput]

Place == {"unsent", "sent", "handling", "running", "handled", "output", "refusal", "uncertain", "gone"}
Request == [at : Place, output : Outputs \union {NoOutput}]
Unsent == [at |-> "unsent", output |-> NoOutput]

Call == [verdict : {"ready", "waiting", "done", "failed", "held"},
         attempts : 0..MaxAttempts, output : Outputs \union {NoOutput}]

ReceiptsTypeOK ==
  /\ receipt \in [Keys -> Receipt]
  /\ request \in [Attempts -> Request]
  /\ call \in [Callers -> Call]
  /\ executed \in [Keys -> Nat]

ReceiptsInit ==
  /\ receipt = [k \in Keys |-> NoReceipt]
  /\ request = [a \in Attempts |-> Unsent]
  /\ call = [c \in Callers |-> [verdict |-> "ready", attempts |-> 0, output |-> NoOutput]]
  /\ executed = [k \in Keys |-> 0]

KeyAt(a) == KeyOf[a[1]]
Executing(a) == request[a].at \in {"handling", "running", "handled"}
Moves(a, from, to) == request[a].at = from /\ request' = [request EXCEPT ![a].at = to]
-----------------------------------------------------------------------------
(* Gateway.execute(): the request of the next attempt is posted.            *)
Post(c) ==
  LET n == call[c].attempts + 1 IN
  /\ call[c].verdict = "ready"
  /\ call' = [call EXCEPT ![c].verdict = "waiting", ![c].attempts = n]
  /\ request' = [request EXCEPT ![<<c, n>>].at = "sent"]
  /\ UNCHANGED <<receipt, executed>>

(* execute(): a credential, version, workspace, deadline or payload that    *)
(* does not fit is refused before the receipts are read.                    *)
Refuse(a) ==
  /\ Moves(a, "sent", "refusal")
  /\ UNCHANGED <<receipt, call, executed>>

LookUpTakesOver(a) ==
  LET old == receipt[KeyAt(a)] IN
  /\ request[a].at = "sent"
  /\ \/ /\ old.status \in {"none", "started"}
        /\ receipt' = [receipt EXCEPT ![KeyAt(a)] =
             [status |-> "started", content |-> Content[a[1]], output |-> NoOutput]]
        /\ request' = [request EXCEPT ![a].at = "handling"]
     \/ /\ old.status = "completed" /\ old.content = Content[a[1]]
        /\ request' = [request EXCEPT ![a] = [at |-> "output", output |-> old.output]]
        /\ UNCHANGED receipt
  /\ UNCHANGED <<call, executed>>

LookUpAnyContent(a) ==
  LET old == receipt[KeyAt(a)] IN
  /\ request[a].at = "sent"
  /\ \/ /\ old.status = "none"
        /\ receipt' = [receipt EXCEPT ![KeyAt(a)] =
             [status |-> "started", content |-> Content[a[1]], output |-> NoOutput]]
        /\ request' = [request EXCEPT ![a].at = "handling"]
     \/ /\ old.status = "completed"
        /\ request' = [request EXCEPT ![a] = [at |-> "output", output |-> old.output]]
        /\ UNCHANGED receipt
  /\ UNCHANGED <<call, executed>>

(* One transaction with the write lock (BEGIN IMMEDIATE) looks the key up:  *)
(* without a receipt it inserts one and the handler may start; a completed  *)
(* one of the same content is the answer, any other refuses.                *)
LookUp(a) ==
  LET old == receipt[KeyAt(a)] IN
  /\ request[a].at = "sent"
  /\ \/ /\ old.status = "none"
        /\ receipt' = [receipt EXCEPT ![KeyAt(a)] =
             [status |-> "started", content |-> Content[a[1]], output |-> NoOutput]]
        /\ request' = [request EXCEPT ![a].at = "handling"]
     \/ /\ old.status = "completed" /\ old.content = Content[a[1]]
        /\ request' = [request EXCEPT ![a] = [at |-> "output", output |-> old.output]]
        /\ UNCHANGED receipt
     \/ /\ old.status # "none"
        /\ old.status = "started" \/ old.content # Content[a[1]]
        /\ request' = [request EXCEPT ![a].at = "refusal"]
        /\ UNCHANGED receipt
  /\ UNCHANGED <<call, executed>>

(* The handler is entered, and returns something the contract allows, or    *)
(* something else, or raises.                                               *)
Enter(a) ==
  /\ Moves(a, "handling", "running")
  /\ executed' = [executed EXCEPT ![KeyAt(a)] = @ + 1]
  /\ UNCHANGED <<receipt, call>>

Return(a) ==
  /\ request[a].at = "running"
  /\ \/ \E o \in Outputs : request' = [request EXCEPT ![a] = [at |-> "handled", output |-> o]]
     \/ request' = [request EXCEPT ![a].at = "uncertain"]
  /\ UNCHANGED <<receipt, call, executed>>

(* The output is stored with the receipt, and answered.                     *)
Complete(a) ==
  /\ Moves(a, "handled", "output")
  /\ receipt' = [receipt EXCEPT ![KeyAt(a)].status = "completed",
                                ![KeyAt(a)].output = request[a].output]
  /\ UNCHANGED <<call, executed>>

(* The receipt could not be updated.                                        *)
CompleteFails(a) ==
  /\ Moves(a, "handled", "uncertain")
  /\ UNCHANGED <<receipt, call, executed>>

(* A request or an answer is lost on the way.                               *)
Lose(a) ==
  /\ request[a].at \in {"sent", "output", "refusal", "uncertain"}
  /\ request' = [request EXCEPT ![a].at = "gone"]
  /\ UNCHANGED <<receipt, call, executed>>

RestartForgets ==
  /\ request' = [a \in Attempts |->
       IF request[a].at \in {"unsent", "gone"} THEN request[a] ELSE [request[a] EXCEPT !.at = "gone"]]
  /\ receipt' = [k \in Keys |-> IF receipt[k].status = "started" THEN NoReceipt ELSE receipt[k]]
  /\ UNCHANGED <<call, executed>>

(* The adapter's process stops, in the middle of requests or between them.  *)
Restart ==
  /\ request' = [a \in Attempts |->
       IF request[a].at \in {"unsent", "gone"} THEN request[a] ELSE [request[a] EXCEPT !.at = "gone"]]
  /\ UNCHANGED <<receipt, call, executed>>

(* finish() with a failure: an effect is held, a read is tried again while  *)
(* the failure allows it and attempts are left.                             *)
Fails(c, retryable) ==
  call' = [call EXCEPT ![c].verdict =
    IF c \in Effectful THEN "held"
    ELSE IF retryable /\ call[c].attempts < MaxAttempts THEN "ready" ELSE "failed"]

(* The worker hears the answer of its last attempt; 502 may be retried, a   *)
(* refusal not.                                                             *)
Hear(c) ==
  LET a == <<c, call[c].attempts>> IN
  /\ call[c].verdict = "waiting"
  /\ \/ /\ request[a].at = "output"
        /\ call' = [call EXCEPT ![c].verdict = "done", ![c].output = request[a].output]
     \/ request[a].at = "refusal" /\ Fails(c, FALSE)
     \/ request[a].at = "uncertain" /\ Fails(c, TRUE)
  /\ request' = [request EXCEPT ![a].at = "gone"]
  /\ UNCHANGED <<receipt, executed>>

(* The timeout of the tool or the mission, or an error of the network.      *)
GiveUp(c) ==
  /\ call[c].verdict = "waiting" /\ Fails(c, TRUE)
  /\ UNCHANGED <<receipt, request, executed>>

ReceiptsNext ==
  \/ \E c \in Callers : Post(c) \/ Hear(c) \/ GiveUp(c)
  \/ \E a \in Attempts :
       Refuse(a) \/ LookUp(a) \/ Enter(a) \/ Return(a) \/ Complete(a) \/ CompleteFails(a) \/ Lose(a)
  \/ Restart

ReceiptsSpec == ReceiptsInit /\ [][ReceiptsNext]_receiptVars
-----------------------------------------------------------------------------
(* A handler is entered at most once for a key, whoever sends it, however   *)
(* often, and whatever is lost or restarted on the way.                     *)
HandlerOnce == \A k \in Keys : executed[k] <= 1

(* Whoever is told of an output was told what the key's receipt says for    *)
(* the content of its own request, of a handler that did run.               *)
DoneIsExecuted ==
  \A c \in Callers : call[c].verdict = "done" =>
    /\ receipt[KeyOf[c]] = [status |-> "completed", content |-> Content[c], output |-> call[c].output]
    /\ executed[KeyOf[c]] = 1

(* An execution whose end was not recorded, and which nobody is handling    *)
(* any more, stays uncertain until an operator looks: no retry, no copy and *)
(* no restart completes it or replaces it.                                  *)
Uncertain(k) ==
  /\ receipt[k].status = "started"
  /\ \A a \in Attempts : KeyAt(a) = k => ~Executing(a)
UncertaintyStays == [][\A k \in Keys : Uncertain(k) => Uncertain(k)']_receiptVars
=============================================================================
