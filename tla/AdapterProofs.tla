--------------------------- MODULE AdapterProofs ---------------------------
(* Proofs about AdapterReceipts, for any callers, keys, contents, outputs   *)
(* and number of attempts.                                                  *)
EXTENDS AdapterReceipts, TLAPS

(* A caller that may call again has an attempt left, and one that waits has *)
(* made one.                                                                *)
AttemptsLeft == \A c \in Callers :
  /\ call[c].verdict = "ready" => call[c].attempts < MaxAttempts
  /\ call[c].verdict = "waiting" => call[c].attempts > 0

(* Whoever executes a handler does so alone, under a started receipt of its *)
(* own content.                                                             *)
OneExecutes ==
  /\ \A a, b \in Attempts : Executing(a) /\ Executing(b) /\ KeyAt(a) = KeyAt(b) => a = b
  /\ \A a \in Attempts : Executing(a) =>
       receipt[KeyAt(a)].status = "started" /\ receipt[KeyAt(a)].content = Content[a[1]]

(* How often the handler of a key was entered follows from its receipt and  *)
(* from whoever executes it.                                                *)
CountFollows ==
  /\ \A k \in Keys : /\ receipt[k].status = "none" => executed[k] = 0
                     /\ receipt[k].status = "completed" => executed[k] = 1
                     /\ executed[k] <= 1
  /\ \A a \in Attempts : /\ request[a].at = "handling" => executed[KeyAt(a)] = 0
                         /\ request[a].at \in {"running", "handled"} => executed[KeyAt(a)] = 1

(* An output on its way to a caller is that of the completed receipt.       *)
OutputIsReceipt == \A a \in Attempts : request[a].at = "output" =>
  receipt[KeyAt(a)] = [status |-> "completed", content |-> Content[a[1]], output |-> request[a].output]

IInv == ReceiptsTypeOK /\ AttemptsLeft /\ OneExecutes /\ CountFollows /\ OutputIsReceipt /\ DoneIsExecuted

(* The key of an attempt is a key, and its content one of the contents.     *)
LEMMA AttemptKeys ==
  \A a \in Attempts : a[1] \in Callers /\ a[2] \in 1..MaxAttempts /\ KeyAt(a) \in Keys /\ Content[a[1]] \in Contents
BY AdapterAssumption DEF Attempts, KeyAt, Contents

(* Without requests and receipts the invariant holds.                       *)
LEMMA InitHolds == ReceiptsInit => IInv
BY AttemptKeys, AdapterAssumption DEF ReceiptsInit, IInv, ReceiptsTypeOK, AttemptsLeft, OneExecutes, CountFollows, OutputIsReceipt,
   DoneIsExecuted, NoReceipt, Receipt, Unsent, Request, Place, Call, Executing

(* Every step of a worker, the SDK or the handler keeps the types.          *)
LEMMA TypeStep == IInv /\ [ReceiptsNext]_receiptVars => ReceiptsTypeOK'
<1> SUFFICES ASSUME IInv, [ReceiptsNext]_receiptVars PROVE ReceiptsTypeOK'
  OBVIOUS
<1> USE AttemptKeys, AdapterAssumption DEF IInv, ReceiptsTypeOK
<1>1. ASSUME NEW c \in Callers, Post(c) PROVE ReceiptsTypeOK'
  BY <1>1 DEF Post, AttemptsLeft, Call, Request, Place
<1>2. ASSUME NEW c \in Callers, Hear(c) PROVE ReceiptsTypeOK'
  <2>1. PICK n \in 1..MaxAttempts : n = call[c].attempts
    BY <1>2 DEF Hear, AttemptsLeft, Call
  <2>2. <<c, n>> \in Attempts
    BY DEF Attempts
  <2>3. request[<<c, n>>] \in Request /\ request' = [request EXCEPT ![<<c, n>>].at = "gone"]
    BY <1>2, <2>1, <2>2 DEF Hear
  <2>4. request' \in [Attempts -> Request]
    BY <2>2, <2>3 DEF Request, Place
  <2>5. CASE request[<<c, n>>].at = "output"
    <3>1. call' = [call EXCEPT ![c].verdict = "done", ![c].output = request[<<c, n>>].output]
      BY <1>2, <2>1, <2>5 DEF Hear
    <3>2. call' \in [Callers -> Call]
      BY <3>1, <2>3, ZenonT(40) DEF Call, Request
    <3>. QED BY <1>2, <2>4, <3>2 DEF Hear
  <2>6. CASE request[<<c, n>>].at # "output"
    <3>1. call' \in [Callers -> Call]
      BY <1>2, <2>1, <2>6, SMTT(20) DEF Hear, Fails, Call
    <3>. QED BY <1>2, <2>4, <3>1 DEF Hear
  <2>. QED BY <2>5, <2>6
<1>3. ASSUME NEW c \in Callers, GiveUp(c) PROVE ReceiptsTypeOK'
  BY <1>3 DEF GiveUp, Fails, Call
<1>4. ASSUME NEW a \in Attempts, Refuse(a) PROVE ReceiptsTypeOK'
  BY <1>4 DEF Refuse, Moves, Request, Place
<1>5. ASSUME NEW a \in Attempts, LookUp(a) PROVE ReceiptsTypeOK'
  BY <1>5 DEF LookUp, Request, Place, Receipt
<1>6. ASSUME NEW a \in Attempts, Enter(a) PROVE ReceiptsTypeOK'
  BY <1>6 DEF Enter, Moves, Request, Place
<1>7. ASSUME NEW a \in Attempts, Return(a) PROVE ReceiptsTypeOK'
  BY <1>7 DEF Return, Request, Place
<1>8. ASSUME NEW a \in Attempts, Complete(a) PROVE ReceiptsTypeOK'
  <2>1. request[a] \in Request /\ receipt[KeyAt(a)] \in Receipt
    OBVIOUS
  <2>2. [receipt[KeyAt(a)] EXCEPT !.status = "completed", !.output = request[a].output] \in Receipt
    BY <2>1 DEF Receipt, Request
  <2>3. receipt' = [receipt EXCEPT ![KeyAt(a)] =
                      [receipt[KeyAt(a)] EXCEPT !.status = "completed", !.output = request[a].output]]
    BY <1>8, <2>1 DEF Complete, Receipt
  <2>4. receipt' \in [Keys -> Receipt]
    BY <2>2, <2>3
  <2>. QED BY <1>8, <2>4 DEF Complete, Moves, Request, Place
<1>9. ASSUME NEW a \in Attempts, CompleteFails(a) PROVE ReceiptsTypeOK'
  BY <1>9 DEF CompleteFails, Moves, Request, Place
<1>10. ASSUME NEW a \in Attempts, Lose(a) PROVE ReceiptsTypeOK'
  BY <1>10 DEF Lose, Request, Place
<1>11. ASSUME Restart PROVE ReceiptsTypeOK'
  BY <1>11 DEF Restart, Request, Place
<1>12. CASE UNCHANGED receiptVars
  BY <1>12 DEF receiptVars
<1>. QED
  BY <1>1, <1>2, <1>3, <1>4, <1>5, <1>6, <1>7, <1>8, <1>9, <1>10, <1>11, <1>12 DEF ReceiptsNext

(* A request that is posted executes nothing yet.                         *)
LEMMA PostStep ==
  ASSUME IInv, ReceiptsTypeOK', NEW c \in Callers, Post(c)
  PROVE  AttemptsLeft' /\ OneExecutes' /\ CountFollows' /\ OutputIsReceipt' /\ DoneIsExecuted'
<1> USE AttemptKeys, AdapterAssumption DEF IInv, ReceiptsTypeOK, Post
<1>1. AttemptsLeft'
  BY DEF AttemptsLeft, Call
<1>2. OneExecutes'
  BY DEF OneExecutes, Executing
<1>3. CountFollows'
  BY DEF CountFollows, OneExecutes, Executing
<1>4. OutputIsReceipt'
  BY DEF OutputIsReceipt, OneExecutes, Executing
<1>5. DoneIsExecuted'
  BY DEF DoneIsExecuted, OutputIsReceipt, OneExecutes, CountFollows, Executing
<1>. QED
  BY <1>1, <1>2, <1>3, <1>4, <1>5

(* What is heard is what the receipt says.                                *)
LEMMA HearStep ==
  ASSUME IInv, ReceiptsTypeOK', NEW c \in Callers, Hear(c)
  PROVE  AttemptsLeft' /\ OneExecutes' /\ CountFollows' /\ OutputIsReceipt' /\ DoneIsExecuted'
<1> USE AttemptKeys, AdapterAssumption DEF IInv, ReceiptsTypeOK, Hear, Fails
<1>1. AttemptsLeft'
  BY SMTT(20) DEF AttemptsLeft, Call
<1>2. OneExecutes'
  BY DEF OneExecutes, Executing
<1>3. CountFollows'
  BY DEF CountFollows, OneExecutes, Executing
<1>4. OutputIsReceipt'
  BY DEF OutputIsReceipt, OneExecutes, Executing
<1>5. DoneIsExecuted'
  <2>1. PICK n \in 1..MaxAttempts : n = call[c].attempts
    BY DEF AttemptsLeft, Call
  <2>2. <<c, n>> \in Attempts /\ KeyAt(<<c, n>>) = KeyOf[c]
    BY DEF Attempts, KeyAt
  <2>3. CASE request[<<c, n>>].at = "output"
    <3>1. call'[c].verdict = "done" /\ call'[c].output = request[<<c, n>>].output
      BY <2>1, <2>3 DEF Call
    <3>2. \A d \in Callers \ {c} : call'[d] = call[d]
      BY <2>1, <2>3
    <3>3. /\ receipt[KeyOf[c]] = [status |-> "completed", content |-> Content[c], output |-> call'[c].output]
          /\ executed[KeyOf[c]] = 1
      BY <2>2, <2>3, <3>1 DEF OutputIsReceipt, CountFollows
    <3>. QED BY <3>1, <3>2, <3>3 DEF DoneIsExecuted
  <2>4. CASE request[<<c, n>>].at # "output"
    <3>1. call'[c].verdict # "done" /\ \A d \in Callers \ {c} : call'[d] = call[d]
      BY <2>1, <2>4 DEF Call
    <3>. QED BY <3>1 DEF DoneIsExecuted
  <2>. QED BY <2>3, <2>4
<1>. QED
  BY <1>1, <1>2, <1>3, <1>4, <1>5

(* Giving up changes nothing in the adapter.                              *)
LEMMA GiveUpStep ==
  ASSUME IInv, ReceiptsTypeOK', NEW c \in Callers, GiveUp(c)
  PROVE  AttemptsLeft' /\ OneExecutes' /\ CountFollows' /\ OutputIsReceipt' /\ DoneIsExecuted'
<1> USE AttemptKeys, AdapterAssumption DEF IInv, ReceiptsTypeOK, GiveUp, Fails
<1>1. AttemptsLeft'
  BY DEF AttemptsLeft, Call
<1>2. OneExecutes'
  BY DEF OneExecutes, Executing
<1>3. CountFollows'
  BY DEF CountFollows, OneExecutes, Executing
<1>4. OutputIsReceipt'
  BY DEF OutputIsReceipt, OneExecutes, Executing
<1>5. DoneIsExecuted'
  BY DEF DoneIsExecuted, OutputIsReceipt, OneExecutes, CountFollows, Executing
<1>. QED
  BY <1>1, <1>2, <1>3, <1>4, <1>5

(* A refusal before the lookup executes nothing.                          *)
LEMMA RefuseStep ==
  ASSUME IInv, ReceiptsTypeOK', NEW a \in Attempts, Refuse(a)
  PROVE  AttemptsLeft' /\ OneExecutes' /\ CountFollows' /\ OutputIsReceipt' /\ DoneIsExecuted'
<1> USE AttemptKeys, AdapterAssumption DEF IInv, ReceiptsTypeOK, Refuse, Moves
<1>1. AttemptsLeft'
  BY DEF AttemptsLeft, Call
<1>2. OneExecutes'
  BY DEF OneExecutes, Executing
<1>3. CountFollows'
  BY DEF CountFollows, OneExecutes, Executing
<1>4. OutputIsReceipt'
  BY DEF OutputIsReceipt, OneExecutes, Executing
<1>5. DoneIsExecuted'
  BY DEF DoneIsExecuted, OutputIsReceipt, OneExecutes, CountFollows, Executing
<1>. QED
  BY <1>1, <1>2, <1>3, <1>4, <1>5

(* A handler may start only where there was no receipt, so where none was entered. *)
LEMMA LookUpStep ==
  ASSUME IInv, ReceiptsTypeOK', NEW a \in Attempts, LookUp(a)
  PROVE  AttemptsLeft' /\ OneExecutes' /\ CountFollows' /\ OutputIsReceipt' /\ DoneIsExecuted'
<1> USE AttemptKeys, AdapterAssumption DEF IInv, ReceiptsTypeOK, LookUp
<1>1. AttemptsLeft'
  BY DEF AttemptsLeft, Call
<1>a. ASSUME receipt[KeyAt(a)].status = "none"
      PROVE  OneExecutes' /\ CountFollows' /\ OutputIsReceipt'
  <2>1. \A b \in Attempts : KeyAt(b) = KeyAt(a) => ~Executing(b)
    BY <1>a DEF OneExecutes
  <2>2. /\ receipt'[KeyAt(a)].status = "started" /\ receipt'[KeyAt(a)].content = Content[a[1]]
        /\ \A k \in Keys \ {KeyAt(a)} : receipt'[k] = receipt[k]
    BY <1>a
  <2>3. request'[a].at = "handling" /\ \A b \in Attempts \ {a} : request'[b] = request[b]
    BY <1>a DEF Request
  <2>4. executed[KeyAt(a)] = 0
    BY <1>a DEF CountFollows
  <2>5. OneExecutes'
    BY <2>1, <2>2, <2>3 DEF OneExecutes, Executing
  <2>6. CountFollows'
    BY <2>1, <2>2, <2>3, <2>4 DEF CountFollows, Executing
  <2>7. OutputIsReceipt'
    BY <1>a, <2>2, <2>3 DEF OutputIsReceipt
  <2>. QED BY <2>5, <2>6, <2>7
<1>b. ASSUME receipt[KeyAt(a)].status # "none"
      PROVE  OneExecutes' /\ CountFollows' /\ OutputIsReceipt'
  <2>1. receipt' = receipt /\ \A b \in Attempts \ {a} : request'[b] = request[b]
    BY <1>b
  <2>2. \/ request'[a].at = "refusal"
        \/ /\ receipt[KeyAt(a)].status = "completed" /\ receipt[KeyAt(a)].content = Content[a[1]]
           /\ request'[a].at = "output" /\ request'[a].output = receipt[KeyAt(a)].output
    BY <1>b DEF Request
  <2>3. OneExecutes'
    BY <2>1, <2>2 DEF OneExecutes, Executing
  <2>4. CountFollows'
    BY <2>1, <2>2 DEF CountFollows
  <2>5. OutputIsReceipt'
    BY <2>1, <2>2 DEF OutputIsReceipt, Receipt
  <2>. QED BY <2>3, <2>4, <2>5
<1>5. DoneIsExecuted'
  BY DEF DoneIsExecuted, OutputIsReceipt, OneExecutes, CountFollows, Executing
<1>. QED
  BY <1>1, <1>a, <1>b, <1>5

(* Entering counts one, and only this request could.                      *)
LEMMA EnterStep ==
  ASSUME IInv, ReceiptsTypeOK', NEW a \in Attempts, Enter(a)
  PROVE  AttemptsLeft' /\ OneExecutes' /\ CountFollows' /\ OutputIsReceipt' /\ DoneIsExecuted'
<1> USE AttemptKeys, AdapterAssumption DEF IInv, ReceiptsTypeOK, Enter, Moves
<1>1. AttemptsLeft'
  BY DEF AttemptsLeft, Call
<1>2. OneExecutes'
  BY DEF OneExecutes, Executing
<1>3. CountFollows'
  BY DEF CountFollows, OneExecutes, Executing
<1>4. OutputIsReceipt'
  BY DEF OutputIsReceipt, OneExecutes, Executing
<1>5. DoneIsExecuted'
  BY DEF DoneIsExecuted, OutputIsReceipt, OneExecutes, CountFollows, Executing
<1>. QED
  BY <1>1, <1>2, <1>3, <1>4, <1>5

(* A handler that ends leaves its receipt as it is.                       *)
LEMMA ReturnStep ==
  ASSUME IInv, ReceiptsTypeOK', NEW a \in Attempts, Return(a)
  PROVE  AttemptsLeft' /\ OneExecutes' /\ CountFollows' /\ OutputIsReceipt' /\ DoneIsExecuted'
<1> USE AttemptKeys, AdapterAssumption DEF IInv, ReceiptsTypeOK, Return
<1>1. AttemptsLeft'
  BY DEF AttemptsLeft, Call
<1>a. request'[a].at \in {"handled", "uncertain"} /\ \A b \in Attempts \ {a} : request'[b] = request[b]
  BY DEF Request
<1>b. executed[KeyAt(a)] = 1
  BY DEF CountFollows
<1>2. OneExecutes'
  BY <1>a DEF OneExecutes, Executing
<1>3. CountFollows'
  BY <1>a, <1>b DEF CountFollows
<1>4. OutputIsReceipt'
  BY <1>a DEF OutputIsReceipt
<1>5. DoneIsExecuted'
  BY DEF DoneIsExecuted, OutputIsReceipt, OneExecutes, CountFollows, Executing
<1>. QED
  BY <1>1, <1>2, <1>3, <1>4, <1>5

(* A receipt is completed by the only request that executes under it.     *)
LEMMA CompleteStep ==
  ASSUME IInv, ReceiptsTypeOK', NEW a \in Attempts, Complete(a)
  PROVE  AttemptsLeft' /\ OneExecutes' /\ CountFollows' /\ OutputIsReceipt' /\ DoneIsExecuted'
<1> USE AttemptKeys, AdapterAssumption DEF IInv, ReceiptsTypeOK, Complete, Moves
<1>1. AttemptsLeft'
  BY DEF AttemptsLeft, Call
<1>2. OneExecutes'
  BY DEF OneExecutes, Executing
<1>3. CountFollows'
  <2>1. receipt'[KeyAt(a)].status = "completed" /\ \A k \in Keys \ {KeyAt(a)} : receipt'[k] = receipt[k]
    BY DEF Receipt
  <2>2. executed[KeyAt(a)] = 1
    BY DEF CountFollows
  <2>3. request'[a].at = "output" /\ \A b \in Attempts \ {a} : request'[b] = request[b]
    BY DEF Request
  <2>4. executed' = executed /\ KeyAt(a) \in Keys
    OBVIOUS
  <2>. HIDE DEF Complete, ReceiptsTypeOK, Moves
  <2>. QED BY <2>1, <2>2, <2>3, <2>4 DEF CountFollows
<1>4. OutputIsReceipt'
  <2>1. receipt[KeyAt(a)].status = "started" /\ receipt[KeyAt(a)].content = Content[a[1]]
    BY DEF OneExecutes, Executing
  <2>2. receipt'[KeyAt(a)] = [status |-> "completed", content |-> Content[a[1]], output |-> request[a].output]
    <3>1. receipt[KeyAt(a)] \in Receipt /\ KeyAt(a) \in Keys
      OBVIOUS
    <3>2. receipt'[KeyAt(a)] = [receipt[KeyAt(a)] EXCEPT !.status = "completed", !.output = request[a].output]
      BY <3>1 DEF Receipt
    <3>. HIDE DEF Complete, ReceiptsTypeOK, Moves
    <3>. QED BY <2>1, <3>1, <3>2 DEF Receipt
  <2>3. \A k \in Keys \ {KeyAt(a)} : receipt'[k] = receipt[k]
    OBVIOUS
  <2>4. /\ request'[a].at = "output" /\ request'[a].output = request[a].output
        /\ \A b \in Attempts \ {a} : request'[b] = request[b]
    BY DEF Request
  <2>5. \A b \in Attempts : request[b].at = "output" => KeyAt(b) # KeyAt(a)
    <3>. SUFFICES ASSUME NEW b \in Attempts, request[b].at = "output", KeyAt(b) = KeyAt(a) PROVE FALSE
      OBVIOUS
    <3>1. receipt[KeyAt(b)] =
            [status |-> "completed", content |-> Content[b[1]], output |-> request[b].output]
      BY DEF OutputIsReceipt
    <3>. HIDE DEF Complete, ReceiptsTypeOK, Moves, IInv
    <3>. QED BY <2>1, <3>1
  <2>. QED BY <2>2, <2>3, <2>4, <2>5 DEF OutputIsReceipt
<1>5. DoneIsExecuted'
  BY DEF DoneIsExecuted, OutputIsReceipt, OneExecutes, CountFollows, Executing
<1>. QED
  BY <1>1, <1>2, <1>3, <1>4, <1>5

(* An output that is not stored is not answered.                          *)
LEMMA CompleteFailsStep ==
  ASSUME IInv, ReceiptsTypeOK', NEW a \in Attempts, CompleteFails(a)
  PROVE  AttemptsLeft' /\ OneExecutes' /\ CountFollows' /\ OutputIsReceipt' /\ DoneIsExecuted'
<1> USE AttemptKeys, AdapterAssumption DEF IInv, ReceiptsTypeOK, CompleteFails, Moves
<1>1. AttemptsLeft'
  BY DEF AttemptsLeft, Call
<1>2. OneExecutes'
  BY DEF OneExecutes, Executing
<1>3. CountFollows'
  BY DEF CountFollows, OneExecutes, Executing
<1>4. OutputIsReceipt'
  BY DEF OutputIsReceipt, OneExecutes, Executing
<1>5. DoneIsExecuted'
  BY DEF DoneIsExecuted, OutputIsReceipt, OneExecutes, CountFollows, Executing
<1>. QED
  BY <1>1, <1>2, <1>3, <1>4, <1>5

(* What is lost no longer matters.                                        *)
LEMMA LoseStep ==
  ASSUME IInv, ReceiptsTypeOK', NEW a \in Attempts, Lose(a)
  PROVE  AttemptsLeft' /\ OneExecutes' /\ CountFollows' /\ OutputIsReceipt' /\ DoneIsExecuted'
<1> USE AttemptKeys, AdapterAssumption DEF IInv, ReceiptsTypeOK, Lose
<1>1. AttemptsLeft'
  BY DEF AttemptsLeft, Call
<1>2. OneExecutes'
  BY DEF OneExecutes, Executing
<1>3. CountFollows'
  BY DEF CountFollows, OneExecutes, Executing
<1>4. OutputIsReceipt'
  BY DEF OutputIsReceipt, OneExecutes, Executing
<1>5. DoneIsExecuted'
  BY DEF DoneIsExecuted, OutputIsReceipt, OneExecutes, CountFollows, Executing
<1>. QED
  BY <1>1, <1>2, <1>3, <1>4, <1>5

(* A restart ends every execution and keeps every receipt.                *)
LEMMA RestartStep ==
  ASSUME IInv, ReceiptsTypeOK', Restart
  PROVE  AttemptsLeft' /\ OneExecutes' /\ CountFollows' /\ OutputIsReceipt' /\ DoneIsExecuted'
<1> USE AttemptKeys, AdapterAssumption DEF IInv, ReceiptsTypeOK, Restart
<1>1. AttemptsLeft'
  BY DEF AttemptsLeft, Call
<1>2. OneExecutes'
  BY DEF OneExecutes, Executing
<1>3. CountFollows'
  BY DEF CountFollows, OneExecutes, Executing
<1>4. OutputIsReceipt'
  BY DEF OutputIsReceipt, OneExecutes, Executing
<1>5. DoneIsExecuted'
  BY DEF DoneIsExecuted, OutputIsReceipt, OneExecutes, CountFollows, Executing
<1>. QED
  BY <1>1, <1>2, <1>3, <1>4, <1>5

(* The invariant is inductive.                                              *)
LEMMA Inductive == IInv /\ [ReceiptsNext]_receiptVars => IInv'
<1> SUFFICES ASSUME IInv, [ReceiptsNext]_receiptVars PROVE IInv'
  OBVIOUS
<1>1. ReceiptsTypeOK'
  BY TypeStep
<1>2. AttemptsLeft' /\ OneExecutes' /\ CountFollows' /\ OutputIsReceipt' /\ DoneIsExecuted'
  <2>1. CASE ReceiptsNext
    BY <1>1, <2>1, PostStep, HearStep, GiveUpStep, RefuseStep, LookUpStep, EnterStep, ReturnStep,
       CompleteStep, CompleteFailsStep, LoseStep, RestartStep DEF ReceiptsNext
  <2>2. CASE UNCHANGED receiptVars
    BY <2>2 DEF IInv, receiptVars, AttemptsLeft, OneExecutes, CountFollows, OutputIsReceipt, DoneIsExecuted, Executing
  <2>. QED BY <2>1, <2>2
<1>. QED BY <1>1, <1>2 DEF IInv

(* The invariant holds in every state of the adapter and its callers.       *)
LEMMA Invariance == ReceiptsSpec => []IInv
BY InitHolds, Inductive, PTL DEF ReceiptsSpec

(* Receipts, requests and callers keep their types for any callers, keys    *)
(* and outputs; in particular no caller makes more than MaxAttempts.        *)
THEOREM TypeCorrect == ReceiptsSpec => []ReceiptsTypeOK
<1>1. IInv => ReceiptsTypeOK
  BY DEF IInv
<1>. QED BY <1>1, Invariance, PTL

(* execute() enters a handler at most once for an idempotency key, whatever *)
(* callers, retries, lost answers and restarts there are.                   *)
THEOREM HandlerSafety == ReceiptsSpec => []HandlerOnce
<1>1. IInv => HandlerOnce
  BY DEF IInv, CountFollows, HandlerOnce
<1>. QED BY <1>1, Invariance, PTL

(* Whoever is told of an output is told what the receipt of its key records *)
(* for the content of its own request.                                      *)
THEOREM DoneSafety == ReceiptsSpec => []DoneIsExecuted
<1>1. IInv => DoneIsExecuted
  BY DEF IInv
<1>. QED BY <1>1, Invariance, PTL

(* No step ends the uncertainty of an interrupted execution.                *)
THEOREM UncertaintySafety == ReceiptsSpec => UncertaintyStays
<1>1. ASSUME IInv, [ReceiptsNext]_receiptVars, NEW k \in Keys, Uncertain(k) PROVE Uncertain(k)'
  <2> USE <1>1, AttemptKeys DEF IInv, ReceiptsTypeOK, Uncertain, Executing
  <2>1. ASSUME NEW c \in Callers, Post(c) \/ Hear(c) \/ GiveUp(c) PROVE Uncertain(k)'
    <3>1. CASE Post(c)
      BY <3>1 DEF Post, Request
    <3>2. CASE Hear(c)
      BY <3>2 DEF Hear, Request
    <3>3. CASE GiveUp(c)
      BY <3>3 DEF GiveUp
    <3>. QED BY <2>1, <3>1, <3>2, <3>3
  <2>2. ASSUME NEW a \in Attempts, LookUp(a) PROVE Uncertain(k)'
    <3>1. /\ \A b \in Attempts \ {a} : request'[b] = request[b]
          /\ KeyAt(a) = k => request'[a].at = "refusal"
      BY <2>2 DEF LookUp, Request
    <3>2. receipt'[k] = receipt[k]
      BY <2>2 DEF LookUp
    <3>. QED BY <3>1, <3>2
  <2>3. ASSUME NEW a \in Attempts, Refuse(a) \/ Lose(a) PROVE Uncertain(k)'
    <3>1. /\ \A b \in Attempts \ {a} : request'[b] = request[b]
          /\ request'[a].at \in {"refusal", "gone"} /\ receipt' = receipt
      BY <2>3 DEF Refuse, Lose, Moves, Request
    <3>. QED BY <3>1
  <2>4. ASSUME NEW a \in Attempts, Enter(a) \/ Return(a) PROVE Uncertain(k)'
    <3>1. /\ \A b \in Attempts \ {a} : request'[b] = request[b]
          /\ KeyAt(a) # k /\ receipt' = receipt
      BY <2>4 DEF Enter, Return, Moves
    <3>. QED BY <3>1
  <2>5. ASSUME NEW a \in Attempts, Complete(a) \/ CompleteFails(a) PROVE Uncertain(k)'
    <3>1. /\ \A b \in Attempts \ {a} : request'[b] = request[b]
          /\ KeyAt(a) # k /\ receipt'[k] = receipt[k]
      BY <2>5 DEF Complete, CompleteFails, Moves
    <3>. QED BY <3>1
  <2>6. ASSUME Restart PROVE Uncertain(k)'
    BY <2>6 DEF Restart
  <2>7. CASE UNCHANGED receiptVars
    BY <2>7 DEF receiptVars
  <2>. QED BY <2>1, <2>2, <2>3, <2>4, <2>5, <2>6, <2>7 DEF ReceiptsNext
<1>2. IInv /\ [ReceiptsNext]_receiptVars => [\A k \in Keys : Uncertain(k) => Uncertain(k)']_receiptVars
  BY <1>1
<1>. QED BY <1>2, Invariance, PTL DEF ReceiptsSpec, UncertaintyStays

(* A receipt binds its key to one content for good, and its output, once    *)
(* there is one, is never replaced: not by a later request of the key, nor  *)
(* by an execution that ends late, nor by a restart.                        *)
ReceiptsStay ==
  [][\A k \in Keys :
       /\ receipt[k].status # "none" =>
            receipt'[k].status # "none" /\ receipt'[k].content = receipt[k].content
       /\ receipt[k].status = "completed" => receipt'[k] = receipt[k]]_receiptVars

(* Whoever writes a receipt found none, or executes under it alone.         *)
THEOREM ReceiptsSafety == ReceiptsSpec => ReceiptsStay
<1>1. ASSUME IInv, [ReceiptsNext]_receiptVars, NEW k \in Keys
      PROVE  /\ receipt[k].status # "none" =>
                  receipt'[k].status # "none" /\ receipt'[k].content = receipt[k].content
             /\ receipt[k].status = "completed" => receipt'[k] = receipt[k]
  <2> USE <1>1, AttemptKeys DEF IInv, ReceiptsTypeOK
  <2>1. CASE UNCHANGED receipt BY <2>1
  <2>2. ASSUME NEW a \in Attempts, LookUp(a)
        PROVE  receipt'[k] = receipt[k] \/ receipt[k].status = "none"
    BY <2>2 DEF LookUp
  <2>3. ASSUME NEW a \in Attempts, Complete(a)
        PROVE  \/ receipt'[k] = receipt[k]
               \/ /\ receipt[k].status = "started" /\ receipt'[k].status # "none"
                  /\ receipt'[k].content = receipt[k].content
    <3>1. CASE KeyAt(a) # k BY <2>3, <3>1 DEF Complete
    <3>2. CASE KeyAt(a) = k
      <4>1. receipt[k].status = "started" BY <2>3, <3>2 DEF Complete, Moves, OneExecutes, Executing
      <4>2. receipt[k] \in Receipt OBVIOUS
      <4> QED BY <2>3, <3>2, <4>1, <4>2 DEF Complete, Receipt
    <3> QED BY <3>1, <3>2
  <2> QED
    BY <2>1, <2>2, <2>3
       DEF ReceiptsNext, receiptVars, Post, Hear, GiveUp, Refuse, Enter, Return, CompleteFails, Lose, Restart
<1>2. IInv /\ [ReceiptsNext]_receiptVars =>
        [\A k \in Keys :
           /\ receipt[k].status # "none" =>
                receipt'[k].status # "none" /\ receipt'[k].content = receipt[k].content
           /\ receipt[k].status = "completed" => receipt'[k] = receipt[k]]_receiptVars
  BY <1>1
<1>. QED BY <1>2, Invariance, PTL DEF ReceiptsSpec, ReceiptsStay
=============================================================================
