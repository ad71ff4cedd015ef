--------------------------- MODULE OrderMessaging ---------------------------
(***************************************************************************)
(* EventConsumerService in front of OrderLifecycle: the answers of         *)
(* financial, products and fulfillment as messages on the subscription of  *)
(* orders-service, their deduplication in processed_events, and the ways   *)
(* in which one is applied, skipped, ignored, delivered again or lost.     *)
(* products.return.priced, which is not deduplicated, stays in             *)
(* OrderLifecycle.                                                         *)
(*                                                                         *)
(* A handler of the lifecycle may be a consumer: it takes a message, looks *)
(* its key up, runs the operation, and records the key.  Several handlers  *)
(* consume at once when several instances of the service run.              *)
(***************************************************************************)
EXTENDS OrderProperties

CONSTANT MaxMishaps   \* bound: calls lost and messages delivered again, together

VARIABLES
  sent,        \* [Orders -> SUBSET RoutingKeys], what the other services answered
  inbox,       \* [Orders -> SUBSET RoutingKeys], messages the bus will deliver
  processed,   \* [Orders -> SUBSET RoutingKeys], the processed_events table
  consuming,   \* [Handlers -> Delivery], the message that a handler holds
  copies,      \* Nat, second deliveries so far
  missed       \* history: messages ignored too early, or completed without effect

messagingVars == <<sent, inbox, processed, consuming, copies, missed>>
allVars == <<vars, messagingVars>>

-----------------------------------------------------------------------------
(* Messages.  Each carries its own idempotencyKey, and each service sends  *)
(* one answer, so the routing key and the order stand for it.              *)

PaymentAnswers == {"financial.payment.processed", "financial.payment.failed"}
StockAnswers == {"product.inventory.reservation_confirmed", "product.inventory.reservation_rejected"}
PickupAnswers == {"fulfillment.delivery.confirmed", "fulfillment.delivery.failed",
                  "fulfillment.qr.expired"}
RoutingKeys == PaymentAnswers \cup StockAnswers \cup PickupAnswers

\* The answers of one service exclude each other.
Alternatives(key) ==
  CHOOSE group \in {PaymentAnswers, StockAnswers, PickupAnswers} : key \in group

HandlerOf(key) ==
  CASE key = "financial.payment.processed"             -> "applyPaymentApproved"
    [] key = "financial.payment.failed"                -> "applyPaymentFailed"
    [] key = "product.inventory.reservation_confirmed" -> "handleStockReservationConfirmed"
    [] key = "product.inventory.reservation_rejected"  -> "handleStockReservationRejected"
    [] key = "fulfillment.delivery.confirmed"          -> "markDelivered"
    [] key = "fulfillment.delivery.failed"             -> "markFailed"
    [] key = "fulfillment.qr.expired"                  -> "handleQrExpired"

\* The event that the sender of a message answers.
Trigger(key) ==
  IF key \in PickupAnswers THEN "order.order.ready_for_pickup" ELSE "order.order.created"

Delivery == [order : Orders, key : RoutingKeys, at : {"dispatch", "handler", "save"}]
Nothing == [order |-> "none", key |-> "none", at |-> "idle"]

Holds(h) == consuming[h] # Nothing
Held(o, key) == \E h \in Handlers : consuming[h].order = o /\ consuming[h].key = key

MishapLeft == aborts + copies < MaxMishaps

MessagingTypeOK ==
  /\ {sent, inbox, processed, missed} \subseteq [Orders -> SUBSET RoutingKeys]
  /\ consuming \in [Handlers -> Delivery \cup {Nothing}]
  /\ copies \in Nat

\* The answers that the story of a row presupposes.
AnsweredBefore(row) ==
  {key \in RoutingKeys :
     \/ \E i \in DOMAIN row.history : row.history[i].by = HandlerOf(key)
     \/ row.stockReserved /\ key = "product.inventory.reservation_confirmed"}

MessagingInit ==
  /\ Init
  /\ sent = [o \in Orders |-> AnsweredBefore(orders[o])]
  /\ inbox = [o \in Orders |-> {}]
  /\ processed = sent
  /\ consuming = [h \in Handlers |-> Nothing]
  /\ copies = 0
  /\ missed = [o \in Orders |-> {}]

-----------------------------------------------------------------------------
(* The other services and the bus.                                         *)

\* financial answers the orders it has to charge; it, products and fulfillment
\* answer once.
Send(o, key) ==
  /\ HandlerOf(key) \in Ops
  /\ Announced(o, Trigger(key))
  /\ key \in PaymentAnswers => ~orders[o].cash
  /\ sent[o] \cap Alternatives(key) = {}
  /\ sent' = [sent EXCEPT ![o] = @ \cup {key}]
  /\ inbox' = [inbox EXCEPT ![o] = @ \cup {key}]
  /\ UNCHANGED <<vars, processed, consuming, copies, missed>>

\* The sender repeats a message, or its lock expires while a handler holds it.
DeliverAgain(o, key) ==
  /\ key \in sent[o] \ inbox[o]
  /\ MishapLeft
  /\ copies' = copies + 1
  /\ inbox' = [inbox EXCEPT ![o] = @ \cup {key}]
  /\ UNCHANGED <<vars, sent, processed, consuming, missed>>

-----------------------------------------------------------------------------
(* handle: look the key up, run the operation, record the key.             *)

\* Mutant: the key is recorded before the operation runs.
ReceiveRecorded(h, o, key) ==
  /\ ~Holds(h) /\ calls[h] = IdleCall
  /\ key \in inbox[o] \ processed[o]
  /\ inbox' = [inbox EXCEPT ![o] = @ \ {key}]
  /\ processed' = [processed EXCEPT ![o] = @ \cup {key}]
  /\ consuming' = [consuming EXCEPT ![h] = [order |-> o, key |-> key, at |-> "dispatch"]]
  /\ UNCHANGED <<vars, sent, copies, missed>>

Receive(h, o, key) ==
  /\ ~Holds(h) /\ calls[h] = IdleCall
  /\ key \in inbox[o] \ processed[o]
  /\ inbox' = [inbox EXCEPT ![o] = @ \ {key}]
  /\ consuming' = [consuming EXCEPT ![h] = [order |-> o, key |-> key, at |-> "dispatch"]]
  /\ UNCHANGED <<vars, sent, processed, copies, missed>>

\* Already processed: the message is completed.
Skip(o, key) ==
  /\ key \in inbox[o] \cap processed[o]
  /\ inbox' = [inbox EXCEPT ![o] = @ \ {key}]
  /\ UNCHANGED <<vars, sent, processed, consuming, copies, missed>>

\* Where the handler of a message acts at all.
Accepts(o, key) ==
  CASE key = "financial.payment.processed" -> orders[o].status = "PENDING_PAYMENT"
    [] key = "product.inventory.reservation_confirmed" ->
         IF orders[o].cash THEN orders[o].status = "CREATED" ELSE Stored(o)
    [] key \in {"financial.payment.failed", "fulfillment.delivery.failed"} ->
         CanTransition(orders[o].status, "FAILED")
    [] key = "fulfillment.delivery.confirmed" -> CanTransition(orders[o].status, "DELIVERED")
    [] OTHER -> CanTransition(orders[o].status, "CANCELLED")

Operation(h, o, key) ==
  \/ key = "financial.payment.processed" /\ ApplyPaymentApproved(h, o)
  \/ key = "financial.payment.failed" /\ ApplyPaymentFailed(h, o)
  \/ key = "product.inventory.reservation_confirmed" /\ HandleStockReservationConfirmed(h, o)
  \/ key = "product.inventory.reservation_rejected" /\ HandleStockReservationRejected(h, o)
  \/ key = "fulfillment.delivery.confirmed" /\ MarkDelivered(h, o)
  \/ key = "fulfillment.delivery.failed" /\ MarkFailed(h, o)
  \/ key = "fulfillment.qr.expired" /\ HandleQrExpired(h, o)

Dispatch(h) ==
  /\ consuming[h].at = "dispatch"
  /\ Operation(h, consuming[h].order, consuming[h].key)
  /\ consuming' = [consuming EXCEPT ![h].at = "handler"]
  /\ UNCHANGED <<sent, inbox, processed, copies, missed>>

\* The operation returns at once.  That is too early when the order has not yet
\* been given the status that waits for the answer.
Ignore(h) ==
  LET d == consuming[h] IN
  /\ d.at = "dispatch"
  /\ ~Accepts(d.order, d.key)
  /\ consuming' = [consuming EXCEPT ![h].at = "save"]
  /\ missed' = IF orders[d.order].status \in {"DRAFT", "CREATED"}
               THEN [missed EXCEPT ![d.order] = @ \cup {d.key}] ELSE missed
  /\ UNCHANGED <<vars, sent, inbox, processed, copies>>

\* A step of the operation, after which it still runs or has returned.
HandlerStep(h) ==
  /\ consuming[h].at = "handler"
  /\ Step(h)
  /\ ~(At(h, "saveTransition") /\ calls'[h] = IdleCall)
  /\ consuming' = [consuming EXCEPT ![h].at = IF calls'[h] = IdleCall THEN "save" ELSE "handler"]
  /\ UNCHANGED <<sent, inbox, processed, copies, missed>>

\* The compare-and-set fails.  confirmIfPaidAndReserved swallows the conflict;
\* any other operation throws, and ServiceBusService completes the message.
HandlerConflict(h) ==
  LET d == consuming[h] IN
  /\ d.at = "handler"
  /\ TransitionConflict(h)
  /\ IF calls[h].op = "confirmIfPaidAndReserved"
     THEN /\ consuming' = [consuming EXCEPT ![h].at = "save"]
          /\ UNCHANGED missed
     ELSE /\ consuming' = [consuming EXCEPT ![h] = Nothing]
          /\ missed' = [missed EXCEPT ![d.order] = @ \cup {d.key}]
  /\ UNCHANGED <<sent, inbox, processed, copies>>

\* Mutant: the key is recorded and the message kept.
RecordHeld(h) ==
  LET d == consuming[h] IN
  /\ d.at = "save"
  /\ processed' = [processed EXCEPT ![d.order] = @ \cup {d.key}]
  /\ consuming' = [consuming EXCEPT ![h].at = "idle"]
  /\ UNCHANGED <<vars, sent, inbox, copies, missed>>

Record(h) ==
  LET d == consuming[h] IN
  /\ d.at = "save"
  /\ processed' = [processed EXCEPT ![d.order] = @ \cup {d.key}]
  /\ consuming' = [consuming EXCEPT ![h] = Nothing]
  /\ UNCHANGED <<vars, sent, inbox, copies, missed>>

-----------------------------------------------------------------------------
(* Faults while a message is held.                                         *)

\* An awaited call rejects: the error is logged and the message completed.
HandlerFails(h) ==
  LET d == consuming[h] IN
  /\ d.at = "handler"
  /\ MishapLeft /\ Abort(h)
  /\ consuming' = [consuming EXCEPT ![h] = Nothing]
  /\ missed' = [missed EXCEPT ![d.order] = @ \cup {d.key}]
  /\ UNCHANGED <<sent, inbox, processed, copies>>

\* The process dies: the lock expires and the message is delivered again.
Crash(h) ==
  LET d == consuming[h] IN
  /\ d.at = "handler"
  /\ MishapLeft /\ Abort(h)
  /\ consuming' = [consuming EXCEPT ![h] = Nothing]
  /\ inbox' = [inbox EXCEPT ![d.order] = @ \cup {d.key}]
  /\ UNCHANGED <<sent, processed, copies, missed>>

\* The operation has returned, and the process dies before the key is recorded.
CrashBeforeRecord(h) ==
  LET d == consuming[h] IN
  /\ d.at = "save"
  /\ MishapLeft
  /\ copies' = copies + 1
  /\ consuming' = [consuming EXCEPT ![h] = Nothing]
  /\ inbox' = [inbox EXCEPT ![d.order] = @ \cup {d.key}]
  /\ UNCHANGED <<vars, sent, processed, missed>>

-----------------------------------------------------------------------------
(* The specification.                                                      *)

\* A handler that holds no message serves an HTTP request.
ServeStep(h) == ~Holds(h) /\ Step(h) /\ UNCHANGED messagingVars

Serve(h) ==
  /\ ~Holds(h)
  /\ (MishapLeft /\ Abort(h)) \/ \E o \in Orders : HttpRequest(h, o)
  /\ UNCHANGED messagingVars

\* An error of the chat does not reach the consumer.
ChatFails(h) ==
  /\ MishapLeft /\ ConversationFailure(h)
  /\ consuming' = IF Holds(h) /\ calls'[h] = IdleCall
                  THEN [consuming EXCEPT ![h].at = "save"] ELSE consuming
  /\ UNCHANGED <<sent, inbox, processed, copies, missed>>

Consume(h) ==
  \/ \E o \in Orders, key \in RoutingKeys : Receive(h, o, key)
  \/ Dispatch(h) \/ Ignore(h) \/ HandlerStep(h) \/ HandlerConflict(h) \/ Record(h)

MessagingNext ==
  \/ \E o \in Orders, key \in RoutingKeys : Send(o, key) \/ DeliverAgain(o, key) \/ Skip(o, key)
  \/ \E h \in Handlers :
       \/ Consume(h) \/ ServeStep(h) \/ Serve(h) \/ ChatFails(h)
       \/ HandlerFails(h) \/ Crash(h) \/ CrashBeforeRecord(h)

MessagingSpec == MessagingInit /\ [][MessagingNext]_allVars

\* The bus delivers what it holds, and the event loop runs every continuation.
FairMessagingSpec ==
  /\ MessagingSpec
  /\ \A h \in Handlers : WF_allVars(Consume(h) \/ ServeStep(h))
  /\ WF_allVars(\E o \in Orders, key \in RoutingKeys : Skip(o, key))

-----------------------------------------------------------------------------
(* What the consumer promises.                                             *)

Released(o) == Reached(orders[o], "CANCELLED") \/ Reached(orders[o], "FAILED")

\* What an order shows once the answer `key` has been applied, or has become moot.
Shows(o, key) ==
  \/ Released(o)
  \/ key = "financial.payment.processed" /\ Reached(orders[o], "PAYMENT_APPROVED")
  \/ key = "product.inventory.reservation_confirmed" /\
       (orders[o].stockReserved \/ Reached(orders[o], "CONFIRMED"))
  \/ key = "fulfillment.delivery.confirmed" /\ Reached(orders[o], "DELIVERED")

(* An answer that the consumer has recorded as processed is visible in the *)
(* order, unless it came before the order could take it or its call failed *)
(* (`missed`): a crash between the operation and the record, a message     *)
(* delivered twice or two instances that hold the same one lose nothing.   *)
RecordedIsApplied ==
  \A o \in Orders : \A key \in processed[o] \ missed[o] :
    ~Held(o, key) => Shows(o, key)

(* End to end: a digital order whose payment and stock reservation were    *)
(* both answered is confirmed or released in the end, in whatever order    *)
(* the two messages arrive, are repeated or overlap with a cancellation,   *)
(* unless one came too early or its call was lost.                         *)
BothSignalsConfirm ==
  \A o \in Orders :
    {"financial.payment.processed", "product.inventory.reservation_confirmed"} \subseteq sent[o]
      ~> (Reached(orders[o], "CONFIRMED") \/ Released(o) \/ missed[o] # {} \/ aborts > 0)

(* Every cancelled or failed order is in the end announced to              *)
(* products-service, that holds its stock, whoever cancelled it.           *)
ReleaseHappens ==
  \A o \in Orders :
    (orders[o].status \in STOCK_RELEASING_STATUSES)
      ~> (Announced(o, "order.order.cancelled") \/ aborts > 0)

\* A call has just cancelled the order and still has to close its conversation.
CancelledWithChat(o) ==
  /\ chats[o] # <<>>
  /\ \E h \in Handlers : /\ At(h, "publishStatusChanged")
                         /\ calls[h].order = o
                         /\ calls[h].row.status = "CANCELLED"

(* A conversation that exists when its order is cancelled is closed in the *)
(* end.  (One that a slower confirmation creates afterwards is not.)       *)
ExistingChatCloses ==
  \A o \in Orders :
    CancelledWithChat(o)
      ~> (aborts > 0 \/ \A i \in DOMAIN chats[o] : chats[o][i].status = "closed")

(* "No quedan pedidos parciales, se cancela la orden completa ... para no  *)
(* dejarla en un estado intermedio sin inventario garantizado"             *)
(* (handleStockReservationRejected): once the rejection has been consumed  *)
(* and nothing is in progress, the order is cancelled or failed.           *)
RejectionReleases ==
  \A o \in Orders :
    /\ "product.inventory.reservation_rejected" \in sent[o]
    /\ inbox[o] = {} /\ Quiet(o) /\ \A h \in Handlers : ~Holds(h)
    => Released(o)

=============================================================================
