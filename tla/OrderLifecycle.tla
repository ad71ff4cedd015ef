--------------------------- MODULE OrderLifecycle ---------------------------
(***************************************************************************)
(* The life of an order in orders-service: every operation of             *)
(* OrdersService that creates a row of the orders table, changes its       *)
(* status or deletes it, with the events it inserts in the outbox and what *)
(* it does to the buyer-seller conversation.                               *)
(*                                                                         *)
(* An operation is a call: it reads the order once, checks its guards on   *)
(* that snapshot, and then performs its awaited database calls one by one. *)
(* Any other call may run between two of them.  The only protection is the *)
(* compare-and-set on the status in saveTransition.                        *)
(***************************************************************************)
EXTENDS OrderModels, FiniteSets

CONSTANTS
  Orders,           \* order ids
  Handlers,         \* calls that may be in progress at the same time
  Ops,              \* the operations that this instance exercises
  PatchTargets,     \* the statuses that PATCH /orders/:id/status asks for
  RefundAmounts,    \* the refunds that products-service quotes
  StartStates,      \* where an order may be when the behaviour starts
  MaxHistory,       \* bound: no operation starts on an order with a longer history
  MaxRequests,      \* bound: returns requested for one order
  MaxAborts,        \* bound: calls lost to a crash or to a failed await
  MaxRedeliveries   \* bound: products.return.priced delivered more than once

VARIABLES
  orders,     \* [Orders -> OrderRow], the orders and order_status_history tables
  chats,      \* [Orders -> Seq(Conversation)], conversations.order_id is not unique
  outbox,     \* [Orders -> Seq(Event)], outbox_events in insertion order, by order
  calls,      \* [Handlers -> Call], the operations in progress
  answers,    \* [Orders -> Nat], products.return.priced messages delivered
  aborts,     \* Nat, calls lost so far
  removed     \* history: [Orders -> Removed], what DELETE has taken from the table

vars == <<orders, chats, outbox, calls, answers, aborts, removed>>

-----------------------------------------------------------------------------
(* Types.                                                                  *)

Event ==
  [key : {"order.cart.created", "order.cart.item_changed", "order.order.created",
          "order.order.confirmed", "order.order.ready_for_pickup", "order.return.requested"}]
  \cup [key : {"order.order.status_changed"}, status : Statuses]
  \cup [key : {"order.order.cancelled"}, wasSold : BOOLEAN, refundPolicy : RefundPolicies]
  \cup [key : {"order.return.confirmed"}, full : BOOLEAN, refundAmount : Nat]

CardKinds == {"requested", "approved", "rejected"}
Conversation == [status : {"active", "closed"}, cards : Seq(CardKinds)]

Refund == [amount : Nat, full : BOOLEAN]
NoRefund == [amount |-> 0, full |-> FALSE]

\* A conversation found earlier: which row, the status read, the card to patch.
FoundChat == [at : Nat, status : {"active", "closed"}, card : Nat]
NoChat == [at |-> 0, status |-> "closed", card |-> 0]

\* Where a call stands: the database call it will perform next.
Points ==
  {"publishCartCreated", "publishCartItems", "publishCreated", "saveOrder", "deleteRow",
   "markReserved", "confirmIfPaid", "saveTransition", "publishStatusChanged",
   "publishConfirmed", "findChat", "createChat", "publishReady", "findChatToClose",
   "closeChat", "publishCancelled", "findChatToReopen", "reopenChat",
   "publishReturnRequested", "publishReturnConfirmed", "findChatForCard",
   "findChatToResolve", "readCards", "saveCard", "touchChat"}

\* `row` is the order value in memory, `expected` the previousStatus of finalize
\* ("none" when the call writes no transition), `policy` its refundPolicy.
Call ==
  [op : Operations, pc : Points, order : Orders, row : OrderRow,
   expected : Statuses \cup {"none"}, policy : RefundPolicies, refund : Refund,
   chat : FoundChat]

\* The rows of an order that were deleted, and the paid returns they recorded.
Removed == [rows : Nat, returns : Nat]

IdleCall ==
  [op |-> "none", pc |-> "idle", order |-> "none", row |-> NoOrder, expected |-> "none",
   policy |-> "FULL", refund |-> NoRefund, chat |-> NoChat]

TypeOK ==
  /\ orders \in [Orders -> OrderRow]
  /\ chats \in [Orders -> Seq(Conversation)]
  /\ outbox \in [Orders -> Seq(Event)]
  /\ calls \in [Handlers -> Call \cup {IdleCall}]
  /\ answers \in [Orders -> Nat]
  /\ aborts \in Nat
  /\ removed \in [Orders -> Removed]

-----------------------------------------------------------------------------
(* Assumptions on the constants.                                           *)

\* What rejectReturn may restore: the NULL of the column, or a status after pick-up.
RestorableStatuses == {"none", "DELIVERED", "PARTIALLY_RETURNED"}

\* The bounds count; a price is not negative; a PATCH asks for a status (the DTO
\* is validated against the list of statuses).
ConstantsAssumption ==
  /\ {MaxHistory, MaxRequests, MaxAborts, MaxRedeliveries} \subseteq Nat
  /\ RefundAmounts \subseteq Nat
  /\ PatchTargets \subseteq Statuses

\* A behaviour starts from rows that the operations can have written.
StartAssumption ==
  \A start \in StartStates :
    /\ start.row \in OrderRow
    /\ start.chats \in Seq(Conversation)
    /\ start.outbox \in Seq(Event)
    /\ start.row.pending.from \in RestorableStatuses
    /\ start.row.status \in Statuses => LegalStory(start.row)

ASSUME ConstantsAssumed == ConstantsAssumption
ASSUME StartAssumed == StartAssumption

-----------------------------------------------------------------------------
(* Initial states.                                                         *)

Init ==
  /\ \E start \in [Orders -> StartStates] :
       /\ orders = [o \in Orders |-> start[o].row]
       /\ chats = [o \in Orders |-> start[o].chats]
       /\ outbox = [o \in Orders |-> start[o].outbox]
  /\ calls = [h \in Handlers |-> IdleCall]
  /\ answers = [o \in Orders |-> 0]
  /\ aborts = 0
  /\ removed = [o \in Orders |-> [rows |-> 0, returns |-> 0]]

-----------------------------------------------------------------------------
(* Calls.                                                                  *)

NewCall(op, pc, o, row) ==
  [op |-> op, pc |-> pc, order |-> o, row |-> row, expected |-> "none",
   policy |-> "FULL", refund |-> NoRefund, chat |-> NoChat]

\* transitionTo followed by finalize(row.status, ...): the in-memory order
\* already has the new status, the database still has the old one.
Transitioning(op, pc, o, row, to) ==
  [NewCall(op, pc, o, TransitionOrder(row, to, op)) EXCEPT !.expected = row.status]

Begin(h, c) ==
  /\ calls[h] = IdleCall
  /\ calls' = [calls EXCEPT ![h] = c]

Finish(h) == calls' = [calls EXCEPT ![h] = IdleCall]

\* The call goes on to `pc`, or returns when nothing is left to do.
Continue(h, c, pc) ==
  calls' = [calls EXCEPT ![h] = IF pc = "idle" THEN IdleCall ELSE [c EXCEPT !.pc = pc]]

At(h, pc) == calls[h].pc = pc

Publish(o, event) == outbox' = [outbox EXCEPT ![o] = Append(@, event)]

Stored(o) == orders[o].status \in Statuses
Enabled(op, o) == op \in Ops /\ Stored(o) /\ Len(orders[o].history) < MaxHistory

EventsOf(o, key) == {i \in DOMAIN outbox[o] : outbox[o][i].key = key}
Announced(o, key) == EventsOf(o, key) # {}

-----------------------------------------------------------------------------
(* finalize: what follows the compare-and-set.                             *)

\* Mutant: the guard on previousStatus is forgotten.
ReleasesStockTwice(c) == c.row.status \in STOCK_RELEASING_STATUSES

ReleasesStock(c) ==
  c.row.status \in STOCK_RELEASING_STATUSES /\ c.expected \notin STOCK_RELEASING_STATUSES

\* Mutant: approveReturn resolves the refund card but authorises no refund.
AfterFinalizeUnpaid(c) ==
  CASE c.op = "applyPaymentApproved" -> "confirmIfPaid"
    [] c.op = "applyReturnPriced" /\ c.row.status = "RETURN_PENDING_APPROVAL" -> "findChatForCard"
    [] c.op = "applyReturnPriced" /\ c.row.status # "RETURN_PENDING_APPROVAL" -> "publishReturnConfirmed"
    [] c.op \in {"approveReturn", "rejectReturn"} -> "findChatToResolve"
    [] OTHER -> "idle"

\* What the caller of finalize still does when finalize returns.
AfterFinalize(c) ==
  CASE c.op = "applyPaymentApproved" -> "confirmIfPaid"
    [] c.op = "applyReturnPriced" /\ c.row.status = "RETURN_PENDING_APPROVAL" -> "findChatForCard"
    [] c.op = "applyReturnPriced" /\ c.row.status # "RETURN_PENDING_APPROVAL" -> "publishReturnConfirmed"
    [] c.op = "approveReturn" -> "publishReturnConfirmed"
    [] c.op = "rejectReturn"  -> "findChatToResolve"
    [] OTHER -> "idle"

\* Mutant: a cancellation returns once the conversation is closed.
AfterCloseSilent(c) == AfterFinalize(c)

AfterClose(c) == IF ReleasesStock(c) THEN "publishCancelled" ELSE AfterFinalize(c)

\* Mutant: only a cancellation announces the release of the stock.
AfterStatusChangedNoFailure(c) ==
  CASE c.row.status = "CONFIRMED" /\ c.expected # "CONFIRMED" -> "publishConfirmed"
    [] c.row.status = "READY_FOR_PICKUP" /\ c.expected # "READY_FOR_PICKUP" -> "publishReady"
    [] c.row.status \in {"DELIVERED", "CANCELLED"} /\ c.expected # c.row.status -> "findChatToClose"
    [] OTHER -> AfterFinalize(c)

\* Mutant: the conversation is closed by the delivery only.
AfterStatusChangedChatKept(c) ==
  CASE c.row.status = "CONFIRMED" /\ c.expected # "CONFIRMED" -> "publishConfirmed"
    [] c.row.status = "READY_FOR_PICKUP" /\ c.expected # "READY_FOR_PICKUP" -> "publishReady"
    [] c.row.status = "DELIVERED" /\ c.expected # "DELIVERED" -> "findChatToClose"
    [] OTHER -> AfterClose(c)

AfterStatusChanged(c) ==
  CASE c.row.status = "CONFIRMED" /\ c.expected # "CONFIRMED" -> "publishConfirmed"
    [] c.row.status = "READY_FOR_PICKUP" /\ c.expected # "READY_FOR_PICKUP" -> "publishReady"
    [] c.row.status \in {"DELIVERED", "CANCELLED"} /\ c.expected # c.row.status -> "findChatToClose"
    [] OTHER -> AfterClose(c)

\* Mutant: UPDATE ... WHERE id, without the expected status.
SaveTransitionUnguarded(h) ==
  LET c == calls[h]  o == c.order IN
  /\ At(h, "saveTransition")
  /\ Stored(o)
  /\ orders' = [orders EXCEPT ![o].status = c.row.status,
                              ![o].pending = c.row.pending,
                              ![o].history = Append(@, LastEntry(c.row))]
  /\ Continue(h, c, "publishStatusChanged")
  /\ UNCHANGED <<chats, outbox, answers, aborts, removed>>

\* Mutant: the pendingReturn columns are left out of the UPDATE.
SaveTransitionStatusOnly(h) ==
  LET c == calls[h]  o == c.order IN
  /\ At(h, "saveTransition")
  /\ orders[o].status = c.expected
  /\ orders' = [orders EXCEPT ![o].status = c.row.status,
                              ![o].history = Append(@, LastEntry(c.row))]
  /\ Continue(h, c, "publishStatusChanged")
  /\ UNCHANGED <<chats, outbox, answers, aborts, removed>>

\* saveTransition: UPDATE ... WHERE id AND status = expected, and the INSERT of
\* the last history entry, in one transaction.
SaveTransition(h) ==
  LET c == calls[h]  o == c.order IN
  /\ At(h, "saveTransition")
  /\ orders[o].status = c.expected
  /\ orders' = [orders EXCEPT ![o].status = c.row.status,
                              ![o].pending = c.row.pending,
                              ![o].history = Append(@, LastEntry(c.row))]
  /\ Continue(h, c, "publishStatusChanged")
  /\ UNCHANGED <<chats, outbox, answers, aborts, removed>>

\* Mutant: finalize ignores the answer of saveTransition.
TransitionConflictIgnored(h) ==
  /\ At(h, "saveTransition")
  /\ orders[calls[h].order].status # calls[h].expected
  /\ Continue(h, calls[h], AfterFinalize(calls[h]))
  /\ UNCHANGED <<orders, chats, outbox, answers, aborts, removed>>

\* affected = 0: ConflictException, which ends the call (confirmIfPaidAndReserved
\* swallows it as its last step, an HTTP caller answers 409, the consumer logs it).
TransitionConflict(h) ==
  /\ At(h, "saveTransition")
  /\ orders[calls[h].order].status # calls[h].expected
  /\ Finish(h)
  /\ UNCHANGED <<orders, chats, outbox, answers, aborts, removed>>

PublishStatusChanged(h) ==
  LET c == calls[h] IN
  /\ At(h, "publishStatusChanged")
  /\ Publish(c.order, [key |-> "order.order.status_changed", status |-> c.row.status])
  /\ Continue(h, c, AfterStatusChanged(c))
  /\ UNCHANGED <<orders, chats, answers, aborts, removed>>

PublishConfirmed(h) ==
  /\ At(h, "publishConfirmed")
  /\ Publish(calls[h].order, [key |-> "order.order.confirmed"])
  /\ Continue(h, calls[h], "findChat")
  /\ UNCHANGED <<orders, chats, answers, aborts, removed>>

\* ensureConversationForOrder looks for a conversation before it creates one;
\* two calls to identity-service separate the two.
FindConversation(h) ==
  LET c == calls[h] IN
  /\ At(h, "findChat")
  /\ Continue(h, c, IF chats[c.order] = <<>> THEN "createChat" ELSE AfterFinalize(c))
  /\ UNCHANGED <<orders, chats, outbox, answers, aborts, removed>>

CreateConversation(h) ==
  LET c == calls[h] IN
  /\ At(h, "createChat")
  /\ chats' = [chats EXCEPT ![c.order] = Append(@, [status |-> "active", cards |-> <<>>])]
  /\ Continue(h, c, AfterFinalize(c))
  /\ UNCHANGED <<orders, outbox, answers, aborts, removed>>

PublishReady(h) ==
  LET c == calls[h] IN
  /\ At(h, "publishReady")
  /\ Publish(c.order, [key |-> "order.order.ready_for_pickup"])
  /\ Continue(h, c, AfterFinalize(c))
  /\ UNCHANGED <<orders, chats, answers, aborts, removed>>

\* closeConversationForOrder: a no-op without an open conversation.
FindConversationToClose(h) ==
  LET c == calls[h] IN
  /\ At(h, "findChatToClose")
  /\ \/ /\ chats[c.order] = <<>>
        /\ Continue(h, c, AfterClose(c))
     \/ \E i \in DOMAIN chats[c.order] :
          LET status == chats[c.order][i].status IN
          IF status = "closed"
          THEN Continue(h, c, AfterClose(c))
          ELSE Continue(h, [c EXCEPT !.chat = [at |-> i, status |-> status, card |-> 0]], "closeChat")
  /\ UNCHANGED <<orders, chats, outbox, answers, aborts, removed>>

\* Mutant: the conversation is archived, as the users may do, in place of closed.
CloseConversationArchived(h) ==
  LET c == calls[h] IN
  /\ At(h, "closeChat")
  /\ chats' = [chats EXCEPT ![c.order][c.chat.at].status = "archived"]
  /\ Continue(h, c, AfterClose(c))
  /\ UNCHANGED <<orders, outbox, answers, aborts, removed>>

CloseConversation(h) ==
  LET c == calls[h] IN
  /\ At(h, "closeChat")
  /\ chats' = [chats EXCEPT ![c.order][c.chat.at].status = "closed"]
  /\ Continue(h, c, AfterClose(c))
  /\ UNCHANGED <<orders, outbox, answers, aborts, removed>>

PublishCancelled(h) ==
  LET c == calls[h] IN
  /\ At(h, "publishCancelled")
  /\ Publish(c.order, [key |-> "order.order.cancelled",
                       wasSold |-> c.expected \in CONFIRMED_OR_LATER,
                       refundPolicy |-> c.policy])
  /\ Continue(h, c, AfterFinalize(c))
  /\ UNCHANGED <<orders, chats, answers, aborts, removed>>

-----------------------------------------------------------------------------
(* Creating an order and checking a cart out.                              *)

\* createOrder, after the store and product checks: the row is inserted as
\* CREATED; the transition to PENDING_PAYMENT comes last, and only for digital
\* payments.  The in-memory order is never read again.
CreateOrder(h, o, cash) ==
  LET created == NewOrder("CREATED", cash, "createOrder") IN
  /\ "createOrder" \in Ops
  /\ orders[o] = NoOrder
  /\ orders' = [orders EXCEPT ![o] = created]
  /\ Begin(h, IF cash
              THEN NewCall("createOrder", "publishCartCreated", o, created)
              ELSE Transitioning("createOrder", "publishCartCreated", o, created, "PENDING_PAYMENT"))
  /\ UNCHANGED <<chats, outbox, answers, aborts, removed>>

CreateDraft(h, o, cash) ==
  LET draft == NewOrder("DRAFT", cash, "createDraft") IN
  /\ "createDraft" \in Ops
  /\ orders[o] = NoOrder
  /\ orders' = [orders EXCEPT ![o] = draft]
  /\ Begin(h, NewCall("createDraft", "publishCartCreated", o, draft))
  /\ UNCHANGED <<chats, outbox, answers, aborts, removed>>

\* checkout, for a cart that has items and a price.
Checkout(h, o) ==
  LET target == IF orders[o].cash THEN "CREATED" ELSE "PENDING_PAYMENT" IN
  /\ Enabled("checkout", o)
  /\ orders[o].status = "DRAFT"
  /\ Begin(h, Transitioning("checkout", "publishCreated", o, orders[o], target))
  /\ UNCHANGED <<orders, chats, outbox, answers, aborts, removed>>

PublishCartCreated(h) ==
  LET c == calls[h] IN
  /\ At(h, "publishCartCreated")
  /\ Publish(c.order, [key |-> "order.cart.created"])
  /\ Continue(h, c, IF c.op = "createOrder" THEN "publishCartItems" ELSE "idle")
  /\ UNCHANGED <<orders, chats, answers, aborts, removed>>

PublishCartItems(h) ==
  LET c == calls[h] IN
  /\ At(h, "publishCartItems")
  /\ Publish(c.order, [key |-> "order.cart.item_changed"])
  /\ Continue(h, c, "publishCreated")
  /\ UNCHANGED <<orders, chats, answers, aborts, removed>>

\* order.order.created leaves before the status that waits for its answers is
\* persisted.
PublishCreated(h) ==
  LET c == calls[h] IN
  /\ At(h, "publishCreated")
  /\ Publish(c.order, [key |-> "order.order.created"])
  /\ Continue(h, c, IF c.expected = "none" THEN "idle" ELSE "saveTransition")
  /\ UNCHANGED <<orders, chats, answers, aborts, removed>>

-----------------------------------------------------------------------------
(* HTTP operations that transition an order: read, check, saveTransition.  *)

\* A call that reads the order and goes straight to finalize.
Transit(h, o, op, to, policy) ==
  /\ Enabled(op, o)
  /\ CanTransition(orders[o].status, to)
  /\ Begin(h, [Transitioning(op, "saveTransition", o, orders[o], to) EXCEPT !.policy = policy])
  /\ UNCHANGED <<orders, chats, outbox, answers, aborts, removed>>

UpdateOrderStatus(h, o) ==
  \E to \in PatchTargets : Transit(h, o, "updateOrderStatus", to, "FULL")

CancelOrder(h, o) ==
  /\ orders[o].status # "READY_FOR_PICKUP"
  /\ Transit(h, o, "cancelOrder", "CANCELLED", "HALF_PRODUCTS_ONLY")

-----------------------------------------------------------------------------
(* Handlers of the events of financial, fulfillment and products.  The     *)
(* other services only answer what was announced to them; they may answer  *)
(* in any order, and an answer may be delivered again.                     *)

ApplyPaymentApproved(h, o) ==
  /\ Announced(o, "order.order.created")
  /\ orders[o].status = "PENDING_PAYMENT"
  /\ Transit(h, o, "applyPaymentApproved", "PAYMENT_APPROVED", "FULL")

ApplyPaymentFailed(h, o) ==
  /\ Announced(o, "order.order.created")
  /\ Transit(h, o, "applyPaymentFailed", "FAILED", "FULL")

HandleStockReservationRejected(h, o) ==
  /\ Announced(o, "order.order.created")
  /\ Transit(h, o, "handleStockReservationRejected", "CANCELLED", "FULL")

\* Cash: confirmed at once, and only from CREATED.  Digital: the reservation is
\* recorded, then the confirmation is attempted.
HandleStockReservationConfirmed(h, o) ==
  LET op == "handleStockReservationConfirmed" IN
  /\ Announced(o, "order.order.created")
  /\ \/ /\ orders[o].cash
        /\ orders[o].status = "CREATED"
        /\ Transit(h, o, op, "CONFIRMED", "FULL")
     \/ /\ ~orders[o].cash
        /\ Enabled(op, o)
        /\ Begin(h, NewCall(op, "markReserved", o, orders[o]))
        /\ UNCHANGED <<orders, chats, outbox, answers, aborts, removed>>

MarkDelivered(h, o) ==
  /\ Announced(o, "order.order.ready_for_pickup")
  /\ Transit(h, o, "markDelivered", "DELIVERED", "FULL")

MarkFailed(h, o) ==
  /\ Announced(o, "order.order.ready_for_pickup")
  /\ Transit(h, o, "markFailed", "FAILED", "FULL")

HandleQrExpired(h, o) ==
  /\ Announced(o, "order.order.ready_for_pickup")
  /\ Transit(h, o, "handleQrExpired", "CANCELLED", "NO_REFUND")

\* Mutant: the reservation is recorded and the handler returns.
MarkStockReservedOnly(h) ==
  LET c == calls[h] IN
  /\ At(h, "markReserved")
  /\ orders' = [orders EXCEPT ![c.order].stockReserved = Stored(c.order) \/ @]
  /\ Finish(h)
  /\ UNCHANGED <<chats, outbox, answers, aborts, removed>>

\* UPDATE ... SET stock_reserved, without touching the status.
MarkStockReserved(h) ==
  LET c == calls[h] IN
  /\ At(h, "markReserved")
  /\ orders' = [orders EXCEPT ![c.order].stockReserved = Stored(c.order) \/ @]
  /\ Continue(h, c, "confirmIfPaid")
  /\ UNCHANGED <<chats, outbox, answers, aborts, removed>>

\* Mutant: the payment alone confirms.
ConfirmIfPaid(h) ==
  LET c == calls[h]
      row == orders[c.order]
      ready == ~row.cash /\ row.status = "PAYMENT_APPROVED"
  IN
  /\ At(h, "confirmIfPaid")
  /\ calls' = [calls EXCEPT ![h] =
                 IF ready
                 THEN Transitioning("confirmIfPaidAndReserved", "saveTransition", c.order,
                                    row, "CONFIRMED")
                 ELSE IdleCall]
  /\ UNCHANGED <<orders, chats, outbox, answers, aborts, removed>>

\* Reads the order again: whichever of the two signals comes second confirms.
ConfirmIfPaidAndReserved(h) ==
  LET c == calls[h]
      row == orders[c.order]
      ready == ~row.cash /\ row.status = "PAYMENT_APPROVED" /\ row.stockReserved
  IN
  /\ At(h, "confirmIfPaid")
  /\ calls' = [calls EXCEPT ![h] =
                 IF ready
                 THEN Transitioning("confirmIfPaidAndReserved", "saveTransition", c.order,
                                    row, "CONFIRMED")
                 ELSE IdleCall]
  /\ UNCHANGED <<orders, chats, outbox, answers, aborts, removed>>

-----------------------------------------------------------------------------
(* Rating and deleting.                                                    *)

RateOrder(h, o) ==
  /\ Enabled("rateOrder", o)
  /\ orders[o].status \in {"DELIVERED", "READY_FOR_PICKUP"}
  /\ ~orders[o].rated
  /\ Begin(h, NewCall("rateOrder", "saveOrder", o, [orders[o] EXCEPT !.rated = TRUE]))
  /\ UNCHANGED <<orders, chats, outbox, answers, aborts, removed>>

\* Mutant: the stale snapshot replaces the row and its history.
SaveOrderOverwriting(h) ==
  LET c == calls[h] IN
  /\ At(h, "saveOrder")
  /\ orders' = [orders EXCEPT ![c.order] = c.row]
  /\ Continue(h, c, IF c.op = "rateOrder" THEN "idle" ELSE "publishReturnRequested")
  /\ UNCHANGED <<chats, outbox, answers, aborts, removed>>

\* repository.save of the whole entity (TypeORM): a column is written when it
\* differs from the row; a history row or a rating that the entity does not know
\* would be orphaned, and order_id is NOT NULL, so the save fails; a row that is
\* gone is inserted again.
SaveOrder(h) ==
  LET c == calls[h]
      row == orders[c.order]
      ratedBefore == c.op # "rateOrder" /\ c.row.rated
      next == CASE c.op = "rateOrder" -> "idle"
                [] c.row.status \in {"DELIVERED", "PARTIALLY_RETURNED"} -> "findChatToReopen"
                [] OTHER -> "publishReturnRequested"
  IN
  /\ At(h, "saveOrder")
  /\ \/ /\ \/ row = DeletedOrder
           \/ row.history = c.row.history /\ row.rated = ratedBefore
        /\ orders' = [orders EXCEPT ![c.order] = c.row]
        /\ Continue(h, c, next)
     \/ /\ row # DeletedOrder
        /\ row.history # c.row.history \/ row.rated # ratedBefore
        /\ Finish(h)
        /\ UNCHANGED orders
  /\ UNCHANGED <<chats, outbox, answers, aborts, removed>>

DeleteOrder(h, o) ==
  /\ Enabled("deleteOrder", o)
  /\ orders[o].status \in {"DELIVERED", "CANCELLED", "FAILED"}
  /\ Begin(h, NewCall("deleteOrder", "deleteRow", o, orders[o]))
  /\ UNCHANGED <<orders, chats, outbox, answers, aborts, removed>>

\* One more row of the order is gone, with the returns that it recorded.
Remove(o) ==
  removed' = [removed EXCEPT
    ![o] = [rows |-> @.rows + 1,
            returns |-> @.returns + Cardinality(PayingIn(orders[o].history))]]

\* DELETE by id: the status is not checked again.  The conversation stays.
DeleteRow(h) ==
  LET o == calls[h].order IN
  /\ At(h, "deleteRow")
  /\ orders' = [orders EXCEPT ![o] = DeletedOrder]
  /\ IF Stored(o) THEN Remove(o) ELSE UNCHANGED removed
  /\ Finish(h)
  /\ UNCHANGED <<chats, outbox, answers, aborts>>

-----------------------------------------------------------------------------
(* Returns.                                                                *)

RETURNABLE_STATUSES == {"CONFIRMED", "READY_FOR_PICKUP", "DELIVERED", "PARTIALLY_RETURNED"}

RequestReturn(h, o) ==
  /\ Enabled("requestReturn", o)
  /\ orders[o].status \in RETURNABLE_STATUSES
  /\ Cardinality(EventsOf(o, "order.return.requested")) < MaxRequests
  /\ Begin(h, NewCall("requestReturn", "saveOrder", o, orders[o]))
  /\ UNCHANGED <<orders, chats, outbox, answers, aborts, removed>>

FindConversationToReopen(h) ==
  LET c == calls[h] IN
  /\ At(h, "findChatToReopen")
  /\ \/ /\ chats[c.order] = <<>>
        /\ Continue(h, c, "publishReturnRequested")
     \/ \E i \in DOMAIN chats[c.order] :
          LET status == chats[c.order][i].status IN
          IF status = "active"
          THEN Continue(h, c, "publishReturnRequested")
          ELSE Continue(h, [c EXCEPT !.chat = [at |-> i, status |-> status, card |-> 0]], "reopenChat")
  /\ UNCHANGED <<orders, chats, outbox, answers, aborts, removed>>

ReopenConversation(h) ==
  LET c == calls[h] IN
  /\ At(h, "reopenChat")
  /\ chats' = [chats EXCEPT ![c.order][c.chat.at].status = "active"]
  /\ Continue(h, c, "publishReturnRequested")
  /\ UNCHANGED <<orders, outbox, answers, aborts, removed>>

PublishReturnRequested(h) ==
  LET c == calls[h] IN
  /\ At(h, "publishReturnRequested")
  /\ Publish(c.order, [key |-> "order.return.requested"])
  /\ Finish(h)
  /\ UNCHANGED <<orders, chats, answers, aborts, removed>>

\* products answers every order.return.requested once; the bus may repeat it.
Answered(o) ==
  /\ Announced(o, "order.return.requested")
  /\ answers[o] < Cardinality(EventsOf(o, "order.return.requested")) + MaxRedeliveries
  /\ answers' = [answers EXCEPT ![o] = @ + 1]

\* applyReturnPriced after pick-up: wait for the store.
HoldPricedReturn(h, o, amount, full) ==
  LET held == [orders[o] EXCEPT
                 !.pending = [amount |-> amount, full |-> full, from |-> orders[o].status]]
  IN
  /\ Enabled("applyReturnPriced", o)
  /\ amount > 0
  /\ orders[o].status \in {"DELIVERED", "PARTIALLY_RETURNED"}
  /\ Answered(o)
  /\ Begin(h, Transitioning("applyReturnPriced", "saveTransition", o, held,
                            "RETURN_PENDING_APPROVAL"))
  /\ UNCHANGED <<orders, chats, outbox, aborts, removed>>

\* applyReturnPriced in any other status: the refund is authorised at once, when
\* the state machine allows the transition.
ApplyPricedReturn(h, o, amount, full) ==
  LET target == IF full THEN "RETURNED" ELSE "PARTIALLY_RETURNED" IN
  /\ Enabled("applyReturnPriced", o)
  /\ amount > 0
  /\ orders[o].status \notin {"DELIVERED", "PARTIALLY_RETURNED"}
  /\ CanTransition(orders[o].status, target)
  /\ Answered(o)
  /\ Begin(h, [Transitioning("applyReturnPriced", "saveTransition", o, orders[o], target)
                 EXCEPT !.refund = [amount |-> amount, full |-> full]])
  /\ UNCHANGED <<orders, chats, outbox, aborts, removed>>

\* applyReturnPriced with nothing to refund or in a status without such a
\* transition: the message is consumed and forgotten.
IgnorePricedReturn(o, amount, full) ==
  /\ "applyReturnPriced" \in Ops
  /\ \/ ~Stored(o)
     \/ amount = 0
     \/ /\ orders[o].status \notin {"DELIVERED", "PARTIALLY_RETURNED"}
        /\ ~CanTransition(orders[o].status, IF full THEN "RETURNED" ELSE "PARTIALLY_RETURNED")
  /\ Answered(o)
  /\ UNCHANGED <<orders, chats, outbox, calls, aborts, removed>>

ApproveReturn(h, o) ==
  LET pending == orders[o].pending
      cleared == [orders[o] EXCEPT !.pending = NoPendingReturn]
      target == IF pending.full THEN "RETURNED" ELSE "PARTIALLY_RETURNED"
  IN
  /\ Enabled("approveReturn", o)
  /\ orders[o].status = "RETURN_PENDING_APPROVAL"
  /\ Begin(h, [Transitioning("approveReturn", "saveTransition", o, cleared, target)
                 EXCEPT !.refund = [amount |-> pending.amount, full |-> pending.full]])
  /\ UNCHANGED <<orders, chats, outbox, answers, aborts, removed>>

\* A restored PARTIALLY_RETURNED or DELIVERED (the `?? 'DELIVERED'` of the code).
RejectReturn(h, o) ==
  LET from == orders[o].pending.from
      cleared == [orders[o] EXCEPT !.pending = NoPendingReturn]
  IN
  /\ Enabled("rejectReturn", o)
  /\ orders[o].status = "RETURN_PENDING_APPROVAL"
  /\ Begin(h, Transitioning("rejectReturn", "saveTransition", o, cleared,
                            IF from = "none" THEN "DELIVERED" ELSE from))
  /\ UNCHANGED <<orders, chats, outbox, answers, aborts, removed>>

PublishReturnConfirmed(h) ==
  LET c == calls[h] IN
  /\ At(h, "publishReturnConfirmed")
  /\ Publish(c.order, [key |-> "order.return.confirmed", full |-> c.refund.full,
                       refundAmount |-> c.refund.amount])
  /\ Continue(h, c, IF c.op = "approveReturn" THEN "findChatToResolve" ELSE "idle")
  /\ UNCHANGED <<orders, chats, answers, aborts, removed>>

-----------------------------------------------------------------------------
(* The refund card in the conversation: postRefundMessage adds one with    *)
(* kind "requested", resolveRefundMessage rewrites the last one.  Both end *)
(* by saving the conversation with the status they read at the start.      *)

FindConversationForCard(h) ==
  LET c == calls[h]
      next == IF At(h, "findChatForCard") THEN "saveCard" ELSE "readCards"
  IN
  /\ At(h, "findChatForCard") \/ At(h, "findChatToResolve")
  /\ \/ chats[c.order] = <<>> /\ Finish(h)
     \/ \E i \in DOMAIN chats[c.order] :
          Continue(h, [c EXCEPT !.chat = [at |-> i, status |-> chats[c.order][i].status, card |-> 0]],
                   next)
  /\ UNCHANGED <<orders, chats, outbox, answers, aborts, removed>>

ReadCards(h) ==
  LET c == calls[h]  last == Len(chats[c.order][c.chat.at].cards) IN
  /\ At(h, "readCards")
  /\ IF last = 0 THEN Finish(h)
                  ELSE Continue(h, [c EXCEPT !.chat.card = last], "saveCard")
  /\ UNCHANGED <<orders, chats, outbox, answers, aborts, removed>>

SaveCard(h) ==
  LET c == calls[h]
      decision == IF c.op = "approveReturn" THEN "approved" ELSE "rejected"
  IN
  /\ At(h, "saveCard")
  /\ chats' = [chats EXCEPT ![c.order][c.chat.at].cards =
                 IF c.op = "applyReturnPriced" THEN Append(@, "requested")
                                               ELSE [@ EXCEPT ![c.chat.card] = decision]]
  /\ Continue(h, c, "touchChat")
  /\ UNCHANGED <<orders, outbox, answers, aborts, removed>>

TouchConversation(h) ==
  LET c == calls[h] IN
  /\ At(h, "touchChat")
  /\ chats' = [chats EXCEPT ![c.order][c.chat.at].status = c.chat.status]
  /\ Finish(h)
  /\ UNCHANGED <<orders, outbox, answers, aborts, removed>>

-----------------------------------------------------------------------------
(* Faults.                                                                 *)

\* The process dies, or an awaited call rejects: the rest of the call is lost.
Abort(h) ==
  /\ calls[h] # IdleCall
  /\ aborts < MaxAborts
  /\ aborts' = aborts + 1
  /\ Finish(h)
  /\ UNCHANGED <<orders, chats, outbox, answers, removed>>

\* An error while the conversation is created is logged, and the call goes on.
ConversationFailure(h) ==
  /\ At(h, "findChat") \/ At(h, "createChat")
  /\ aborts < MaxAborts
  /\ aborts' = aborts + 1
  /\ Continue(h, calls[h], AfterFinalize(calls[h]))
  /\ UNCHANGED <<orders, chats, outbox, answers, removed>>

-----------------------------------------------------------------------------
(* The specification.                                                      *)

HttpRequest(h, o) ==
  \/ \E cash \in BOOLEAN : CreateOrder(h, o, cash) \/ CreateDraft(h, o, cash)
  \/ Checkout(h, o) \/ UpdateOrderStatus(h, o) \/ CancelOrder(h, o)
  \/ RateOrder(h, o) \/ DeleteOrder(h, o)
  \/ RequestReturn(h, o) \/ ApproveReturn(h, o) \/ RejectReturn(h, o)

BusMessage(h, o) ==
  \/ ApplyPaymentApproved(h, o) \/ ApplyPaymentFailed(h, o)
  \/ HandleStockReservationRejected(h, o) \/ HandleStockReservationConfirmed(h, o)
  \/ MarkDelivered(h, o) \/ MarkFailed(h, o) \/ HandleQrExpired(h, o)
  \/ \E amount \in RefundAmounts, full \in BOOLEAN :
       HoldPricedReturn(h, o, amount, full) \/ ApplyPricedReturn(h, o, amount, full)

\* The awaited calls of an operation in progress.
Step(h) ==
  \/ PublishCartCreated(h) \/ PublishCartItems(h) \/ PublishCreated(h)
  \/ SaveTransition(h) \/ TransitionConflict(h) \/ PublishStatusChanged(h)
  \/ PublishConfirmed(h) \/ FindConversation(h) \/ CreateConversation(h)
  \/ PublishReady(h) \/ FindConversationToClose(h) \/ CloseConversation(h)
  \/ PublishCancelled(h) \/ MarkStockReserved(h) \/ ConfirmIfPaidAndReserved(h)
  \/ SaveOrder(h) \/ DeleteRow(h)
  \/ FindConversationToReopen(h) \/ ReopenConversation(h) \/ PublishReturnRequested(h)
  \/ PublishReturnConfirmed(h) \/ FindConversationForCard(h) \/ ReadCards(h)
  \/ SaveCard(h) \/ TouchConversation(h)

Next ==
  \/ \E h \in Handlers, o \in Orders : HttpRequest(h, o) \/ BusMessage(h, o)
  \/ \E h \in Handlers : Step(h) \/ Abort(h) \/ ConversationFailure(h)
  \/ \E o \in Orders, amount \in RefundAmounts, full \in BOOLEAN :
       IgnorePricedReturn(o, amount, full)

Spec == Init /\ [][Next]_vars

=============================================================================
