---------------------------- MODULE OrderModels ----------------------------
(***************************************************************************)
(* The domain model of orders-service (domain/order.models.ts): the order  *)
(* statuses, the state machine ORDER_TRANSITIONS, the status sets that     *)
(* drive the inventory events, and the shape of an order row.  Pure        *)
(* definitions only: no variable, no RECURSIVE operator.                   *)
(***************************************************************************)
EXTENDS Naturals, Sequences

Statuses ==
  {"DRAFT", "CREATED", "PENDING_PAYMENT", "PAYMENT_APPROVED", "CONFIRMED",
   "IN_PREPARATION", "READY_FOR_PICKUP", "DELIVERED", "CANCELLED", "FAILED",
   "PARTIALLY_RETURNED", "RETURNED", "RETURN_PENDING_APPROVAL"}

ORDER_TRANSITIONS ==
  [s \in Statuses |->
     CASE s = "DRAFT"              -> {"CREATED", "PENDING_PAYMENT", "CONFIRMED", "CANCELLED", "FAILED"}
       [] s = "CREATED"            -> {"PENDING_PAYMENT", "CONFIRMED", "CANCELLED", "FAILED"}
       [] s = "PENDING_PAYMENT"    -> {"PAYMENT_APPROVED", "CANCELLED", "FAILED"}
       [] s = "PAYMENT_APPROVED"   -> {"CONFIRMED", "CANCELLED", "FAILED"}
       [] s = "CONFIRMED"          -> {"IN_PREPARATION", "CANCELLED", "FAILED",
                                       "PARTIALLY_RETURNED", "RETURNED"}
       [] s = "IN_PREPARATION"     -> {"READY_FOR_PICKUP", "FAILED"}
       [] s = "READY_FOR_PICKUP"   -> {"DELIVERED", "FAILED", "PARTIALLY_RETURNED",
                                       "RETURNED", "CANCELLED"}
       [] s = "DELIVERED"          -> {"RETURN_PENDING_APPROVAL"}
       [] s = "PARTIALLY_RETURNED" -> {"RETURN_PENDING_APPROVAL"}
       [] s = "RETURN_PENDING_APPROVAL" -> {"RETURNED", "PARTIALLY_RETURNED", "DELIVERED"}
       [] s = "FAILED"             -> {"CANCELLED"}
       [] OTHER                    -> {}]        \* RETURNED, CANCELLED

CanTransition(from, to) == from \in Statuses /\ to \in ORDER_TRANSITIONS[from]

\* Mutant of CONFIRMED_OR_LATER: an order waiting at the counter is not sold.
CONFIRMED_OR_LATER_NoPickup == {"CONFIRMED", "IN_PREPARATION", "DELIVERED"}

(* confirmReservation already ran in products-service: the stock is sold.  *)
CONFIRMED_OR_LATER ==
  {"CONFIRMED", "IN_PREPARATION", "READY_FOR_PICKUP", "DELIVERED"}

(* The sale did not happen: products-service releases or restocks.         *)
STOCK_RELEASING_STATUSES == {"CANCELLED", "FAILED"}

(* "FULL" stands for an absent refundPolicy (a refund of 100%).            *)
RefundPolicies == {"FULL", "HALF_PRODUCTS_ONLY", "NO_REFUND"}

(***************************************************************************)
(* An order row.  Money, items, names and timestamps are left to other     *)
(* modules; `cash` is paymentMethod = 'cash', `rated` says that a rating   *)
(* exists, `pending` holds the three pendingReturn* columns, and a history *)
(* entry keeps fromStatus, toStatus and, in place of the actor and reason, *)
(* the service operation that wrote it.                                    *)
(***************************************************************************)
Operations ==
  {"createDraft", "createOrder", "checkout", "updateOrderStatus", "cancelOrder", "rateOrder",
   "deleteOrder", "applyPaymentApproved", "confirmIfPaidAndReserved", "applyPaymentFailed",
   "markDelivered", "markFailed", "handleQrExpired", "handleStockReservationRejected",
   "handleStockReservationConfirmed", "requestReturn", "applyReturnPriced", "approveReturn",
   "rejectReturn"}

HistoryEntry == [from : Statuses \cup {"none"}, to : Statuses, by : Operations]

PendingReturn == [amount : Nat, full : BOOLEAN, from : Statuses \cup {"none"}]

\* The three columns are NULL: read with `?? 0`, `?? false`, `?? 'DELIVERED'`.
NoPendingReturn == [amount |-> 0, full |-> FALSE, from |-> "none"]

OrderRow ==
  [status : Statuses \cup {"none", "deleted"}, cash : BOOLEAN, stockReserved : BOOLEAN,
   rated : BOOLEAN, pending : PendingReturn, history : Seq(HistoryEntry)]

EmptyRow(status) ==
  [status |-> status, cash |-> FALSE, stockReserved |-> FALSE, rated |-> FALSE,
   pending |-> NoPendingReturn, history |-> <<>>]

NoOrder == EmptyRow("none")             \* the id is not used yet
DeletedOrder == EmptyRow("deleted")     \* the row was physically deleted

NewOrder(status, cash, op) ==
  [EmptyRow(status) EXCEPT
     !.cash = cash, !.history = <<[from |-> "none", to |-> status, by |-> op]>>]

(* transitionOrder: a new order value with one more history entry.         *)
TransitionOrder(row, to, op) ==
  [row EXCEPT !.status = to,
              !.history = Append(@, [from |-> row.status, to |-> to, by |-> op])]

LastEntry(row) == row.history[Len(row.history)]

Reached(row, status) == \E i \in DOMAIN row.history : row.history[i].to = status

(* The entries of a history that pay: a return recorded by its price or    *)
(* approved by the store.  rejectReturn may write PARTIALLY_RETURNED too,  *)
(* and pays nothing.                                                       *)
PaidStatuses == {"RETURNED", "PARTIALLY_RETURNED"}
PayingOps == {"applyReturnPriced", "approveReturn"}
PayingIn(history) ==
  {i \in DOMAIN history : history[i].to \in PaidStatuses /\ history[i].by \in PayingOps}

(* A history that tells one legal story ending in the status of the row.   *)
LegalStory(row) ==
  /\ row.history # <<>>
  /\ row.history[1].from = "none"
  /\ row.history[1].to \in {"DRAFT", "CREATED"}
  /\ LastEntry(row).to = row.status
  /\ \A i \in 2..Len(row.history) :
       /\ row.history[i].from = row.history[i - 1].to
       /\ CanTransition(row.history[i].from, row.history[i].to)

=============================================================================
