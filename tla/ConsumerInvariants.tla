------------------------ MODULE ConsumerInvariants -------------------------
(***************************************************************************)
(* The inductive invariant behind RecordedIsApplied: what the state of an  *)
(* order owes to the answers of the other services, what the calls in      *)
(* progress know of them, and what becomes of each message between its     *)
(* delivery and its record.                                                *)
(***************************************************************************)
EXTENDS OrderMessaging, OrderInvariants

ReturnStatuses == {"PARTIALLY_RETURNED", "RETURNED", "RETURN_PENDING_APPROVAL"}

\* What the row shows of an answer (Shows, of a row in hand).
RowShows(row, key) ==
  \/ Reached(row, "CANCELLED") \/ Reached(row, "FAILED")
  \/ key = "financial.payment.processed" /\ Reached(row, "PAYMENT_APPROVED")
  \/ key = "product.inventory.reservation_confirmed" /\
       (row.stockReserved \/ Reached(row, "CONFIRMED"))
  \/ key = "fulfillment.delivery.confirmed" /\ Reached(row, "DELIVERED")

\* The state of a row and the answers that were sent about it belong together.
AnswersFit(row, keys) ==
  /\ keys # {} => row.status \in Statuses
  /\ \A key \in keys : keys \cap Alternatives(key) = {key}
  /\ row.status \notin ReturnStatuses
  /\ row.cash => /\ row.status \notin {"PENDING_PAYMENT", "PAYMENT_APPROVED"}
                 /\ keys \cap PaymentAnswers = {}
  /\ row.stockReserved \/ row.status \in CONFIRMED_OR_LATER =>
       "product.inventory.reservation_confirmed" \in keys
  /\ ~row.cash /\ row.status \in {"PAYMENT_APPROVED"} \cup CONFIRMED_OR_LATER =>
       "financial.payment.processed" \in keys /\ Reached(row, "PAYMENT_APPROVED")
  /\ row.status = "DELIVERED" => "fulfillment.delivery.confirmed" \in keys
  /\ keys \cap PickupAnswers # {} =>
       row.status \in {"READY_FOR_PICKUP", "DELIVERED"} \cup STOCK_RELEASING_STATUSES

\* A call writes only what an answer has brought about.
KnowsAnswers(c, row, keys) ==
  /\ row.status \in Statuses
  /\ \A key \in RoutingKeys : c.op = HandlerOf(key) => key \in keys
  /\ c.pc = "markReserved" => c.op = "handleStockReservationConfirmed"
  /\ c.expected # "none" =>
       /\ c.row.status \notin ReturnStatuses
       /\ c.row.status = "PENDING_PAYMENT" => ~row.cash
       /\ c.row.status = "PAYMENT_APPROVED" => "financial.payment.processed" \in keys
       /\ c.row.status = "CONFIRMED" => "product.inventory.reservation_confirmed" \in keys
       /\ c.row.status = "DELIVERED" => "fulfillment.delivery.confirmed" \in keys
  /\ c.pc = "saveOrder" =>
       /\ c.row.cash = row.cash
       /\ c.row.stockReserved => "product.inventory.reservation_confirmed" \in keys

\* The status that the handler of a message asks for.
Target(key) ==
  CASE key = "financial.payment.processed"             -> "PAYMENT_APPROVED"
    [] key = "product.inventory.reservation_confirmed" -> "CONFIRMED"
    [] key = "fulfillment.delivery.confirmed"          -> "DELIVERED"
    [] key \in {"financial.payment.failed", "fulfillment.delivery.failed"} -> "FAILED"
    [] OTHER -> "CANCELLED"

\* The next step of the call makes the order show the answer.
WillShow(c, key) ==
  /\ c.op = HandlerOf(key)
  /\ \/ c.pc = "saveTransition" /\ c.row.status = Target(key)
     \/ c.pc = "markReserved" /\ key = "product.inventory.reservation_confirmed"

\* Where a message stands in the hands of h.
HoldingFits(h) ==
  LET d == consuming[h] IN
  /\ d.key \in sent[d.order]
  /\ d.at = "handler" =>
       /\ calls[h] # IdleCall /\ calls[h].order = d.order
       /\ Shows(d.order, d.key) \/ WillShow(calls[h], d.key)
  /\ d.at # "handler" => calls[h] = IdleCall
  /\ d.at = "save" => Shows(d.order, d.key) \/ d.key \in missed[d.order]

\* What an order shows of the answers, sent and recorded.
OrderAnswered(o) ==
  /\ AnswersFit(orders[o], sent[o])
  /\ inbox[o] \subseteq sent[o]
  /\ \A key \in processed[o] \ missed[o] : Shows(o, key)
  /\ orders[o].status # "deleted"
  /\ orders[o].status = "none" => outbox[o] = <<>>

CallKnows(h) ==
  calls[h] # IdleCall => KnowsAnswers(calls[h], orders[calls[h].order], sent[calls[h].order])

ConsumerInvariant ==
  /\ \A o \in Orders : OrderAnswered(o)
  /\ \A h \in Handlers : CallKnows(h) /\ (Holds(h) => HoldingFits(h))

-----------------------------------------------------------------------------
(* The vendor asks for the next stage of the preparation, or gives up the  *)
(* sale, and orders are not deleted.  What other services answered is part *)
(* of the story of the orders that a behaviour starts with.                *)
SaleRunsItsCourse ==
  /\ PatchTargets \subseteq {"IN_PREPARATION", "READY_FOR_PICKUP", "CANCELLED", "FAILED"}
  /\ "deleteOrder" \notin Ops

AnsweredStart(start) ==
  LET row == start.row IN
  /\ AnswersFit(row, AnsweredBefore(row))
  /\ \A key \in AnsweredBefore(row) : RowShows(row, key)
  /\ row.status = "none" => start.outbox = <<>>

ASSUME StartAnswered == \A start \in StartStates : AnsweredStart(start)

=============================================================================
