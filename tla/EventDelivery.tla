--------------------------- MODULE EventDelivery ---------------------------
(* What the outbox promises about the events of committed transitions:      *)
(* each is eventually received, and recorded as received once.              *)
EXTENDS Naturals

CONSTANT NEvents   \* number of events ever emitted, in the order of emission

Events == 1..NEvents

VARIABLES
  emitted,    \* events whose transition committed
  receipts    \* events recorded by a consumer

deliveryVars == <<emitted, receipts>>

DeliveryInit == emitted = {} /\ receipts = {}

Emitting(e) ==
  /\ e \notin emitted
  /\ emitted' = emitted \union {e}
  /\ UNCHANGED receipts

Receiving(e) ==
  /\ e \in emitted \ receipts
  /\ receipts' = receipts \union {e}
  /\ UNCHANGED emitted

DeliveryNext == \E e \in Events : Emitting(e) \/ Receiving(e)

DeliverySpec == DeliveryInit /\ [][DeliveryNext]_deliveryVars

(* Every event is received, whatever happens to the processes that carry it. *)
FairDeliverySpec == DeliverySpec /\ \A e \in Events : WF_deliveryVars(Receiving(e))
=============================================================================
