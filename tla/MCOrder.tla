------------------------------ MODULE MCOrder ------------------------------
(***************************************************************************)
(* Instances of OrderLifecycle for TLC.                                    *)
(***************************************************************************)
EXTENDS OrderInvariants, TLC

CONSTANTS o1, h1, h2

MCOrders == {o1}
MCHandlers == {h1, h2}
Symmetry == Permutations(MCHandlers)

-----------------------------------------------------------------------------
(* The sale: from nothing to delivered, cancelled or failed.               *)

Fresh == [row |-> NoOrder, chats |-> <<>>, outbox |-> <<>>]
SaleStart == {Fresh}

SaleOps ==
  {"createOrder", "createDraft", "updateOrderStatus", "cancelOrder",
   "applyPaymentApproved", "applyPaymentFailed", "handleStockReservationRejected",
   "handleStockReservationConfirmed", "markDelivered", "markFailed", "handleQrExpired"}

VendorTargets == {"IN_PREPARATION", "READY_FOR_PICKUP"}

-----------------------------------------------------------------------------
(* Returns: from a cash order that is ready for pick-up or was picked      *)
(* up, all calls on it having returned.                                    *)

Sold(statuses) ==
  [NewOrder("CREATED", TRUE, "createOrder") EXCEPT
     !.status = statuses[Len(statuses)],
     !.history = @ \o [i \in 1..Len(statuses) |->
        [from |-> IF i = 1 THEN "CREATED" ELSE statuses[i - 1], to |-> statuses[i],
         by |-> IF i = 1 THEN "handleStockReservationConfirmed" ELSE "updateOrderStatus"]]]

Confirmed == Sold(<<"CONFIRMED">>)
Ready     == Sold(<<"CONFIRMED", "IN_PREPARATION", "READY_FOR_PICKUP">>)
Delivered == Sold(<<"CONFIRMED", "IN_PREPARATION", "READY_FOR_PICKUP", "DELIVERED">>)

Chat(status) == <<[status |-> status, cards |-> <<>>]>>
Told(keys) == [i \in 1..Len(keys) |-> [key |-> keys[i]]]

ReturnStart ==
  { [row |-> Ready, chats |-> Chat("active"),
     outbox |-> Told(<<"order.order.created", "order.order.confirmed", "order.order.ready_for_pickup">>)],
    [row |-> Delivered, chats |-> Chat("closed"),
     outbox |-> Told(<<"order.order.created", "order.order.confirmed", "order.order.ready_for_pickup">>)] }

\* Mishaps: what may happen to a cart that is checked out, and to an order that
\* is paid, or ready, with its deletion, its rating, the late messages of the
\* other services, lost calls and failures of the chat.
InCart == NewOrder("DRAFT", FALSE, "createDraft")

Paid ==
  [NewOrder("CREATED", FALSE, "createOrder") EXCEPT
     !.status = "PAYMENT_APPROVED",
     !.history = @ \o <<[from |-> "CREATED", to |-> "PENDING_PAYMENT", by |-> "createOrder"],
                        [from |-> "PENDING_PAYMENT", to |-> "PAYMENT_APPROVED",
                         by |-> "applyPaymentApproved"]>>]

MishapStart ==
  { [row |-> InCart, chats |-> <<>>, outbox |-> Told(<<"order.cart.created">>)],
    [row |-> Paid, chats |-> <<>>, outbox |-> Told(<<"order.order.created">>)],
    [row |-> Ready, chats |-> Chat("active"),
     outbox |-> Told(<<"order.order.created", "order.order.confirmed", "order.order.ready_for_pickup">>)] }

MishapOps ==
  {"checkout", "rateOrder", "deleteOrder", "requestReturn", "cancelOrder", "markDelivered",
   "handleQrExpired", "handleStockReservationConfirmed", "applyReturnPriced"}

ReturnOps ==
  {"requestReturn", "applyReturnPriced", "approveReturn", "rejectReturn", "rateOrder",
   "markDelivered"}

-----------------------------------------------------------------------------
(* The smallest instances in which a claim fails.                          *)

BeforePickup ==
  { [row |-> Confirmed, chats |-> Chat("active"),
     outbox |-> Told(<<"order.order.created", "order.order.confirmed">>)] }
PricedOps == {"requestReturn", "applyReturnPriced", "approveReturn"}
ConfirmOps == {"createOrder", "handleStockReservationConfirmed", "cancelOrder"}

=============================================================================
