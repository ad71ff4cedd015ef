---------------------------- MODULE MCMessaging ----------------------------
(***************************************************************************)
(* Instances of OrderMessaging for TLC: an order from its cart to the      *)
(* confirmation, and one that waits at the counter, with the buyer and the *)
(* answers of financial, products and fulfillment.                         *)
(***************************************************************************)
EXTENDS ConsumerInvariants, TLC

CONSTANTS o1, h1, h2

MCOrders == {o1}
MCHandlers == {h1, h2}

\* A cart that was just created, and announced, to be paid by wallet or card.
Cart ==
  [row |-> NewOrder("DRAFT", FALSE, "createDraft"), chats |-> <<>>,
   outbox |-> <<[key |-> "order.cart.created"]>>]

\* The same order when its checkout has returned.
Placed ==
  [row |-> TransitionOrder(Cart.row, "PENDING_PAYMENT", "checkout"), chats |-> <<>>,
   outbox |-> Cart.outbox \o <<[key |-> "order.order.created"],
                [key |-> "order.order.status_changed", status |-> "PENDING_PAYMENT"]>>]

\* A cash order that the shop has prepared.
Prepared == <<"CREATED", "CONFIRMED", "IN_PREPARATION", "READY_FOR_PICKUP">>
Counter ==
  [row |-> [NewOrder("CREATED", TRUE, "createOrder") EXCEPT
              !.status = "READY_FOR_PICKUP",
              !.history = @ \o [i \in 1..3 |->
                 [from |-> Prepared[i], to |-> Prepared[i + 1],
                  by |-> IF i = 1 THEN "handleStockReservationConfirmed" ELSE "updateOrderStatus"]]],
   chats |-> <<[status |-> "active", cards |-> <<>>]>>,
   outbox |-> <<[key |-> "order.order.created"], [key |-> "order.order.confirmed"],
                [key |-> "order.order.ready_for_pickup"]>>]

CartStart == {Cart}
AnyStart == {Cart, Placed, Counter}

AnswerOps ==
  {"checkout", "cancelOrder", "applyPaymentApproved", "handleStockReservationRejected",
   "handleStockReservationConfirmed", "markDelivered", "markFailed", "handleQrExpired"}

=============================================================================
