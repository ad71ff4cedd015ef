------------------------ MODULE OrderMessagingProofs ------------------------
(***************************************************************************)
(* The consumer in front of the lifecycle only does what the lifecycle     *)
(* may do: OrderMessaging implements OrderLifecycle, and inherits what is  *)
(* proved about it.  For any orders, handlers, operations and bounds.      *)
(***************************************************************************)
EXTENDS ConsumerInvariants, OrderPromiseProofs

-----------------------------------------------------------------------------
(* Types.                                                                  *)

LEMMA HeldDelivery ==
  ASSUME MessagingTypeOK, NEW h \in Handlers, Holds(h)
  PROVE  /\ consuming[h] \in Delivery
         /\ consuming[h].order \in Orders
         /\ consuming[h].key \in RoutingKeys
BY DEF MessagingTypeOK, Holds, Delivery

LEMMA BusyHolds ==
  ASSUME NEW h \in Handlers, consuming[h].at \in {"dispatch", "handler", "save"}
  PROVE  Holds(h)
BY DEF Holds, Nothing

\* A set of routing keys that gains or loses one key.
LEMMA KeysUpdate ==
  ASSUME NEW f \in [Orders -> SUBSET RoutingKeys], NEW o \in Orders, NEW key \in RoutingKeys
  PROVE  /\ [f EXCEPT ![o] = @ \cup {key}] \in [Orders -> SUBSET RoutingKeys]
         /\ [f EXCEPT ![o] = @ \ {key}] \in [Orders -> SUBSET RoutingKeys]
OBVIOUS

\* The message that a handler holds moves on, or is let go.
LEMMA HoldingUpdate ==
  ASSUME MessagingTypeOK, NEW h \in Handlers, Holds(h), NEW at \in {"dispatch", "handler", "save"}
  PROVE  /\ [consuming EXCEPT ![h].at = at] \in [Handlers -> Delivery \cup {Nothing}]
         /\ [consuming EXCEPT ![h] = Nothing] \in [Handlers -> Delivery \cup {Nothing}]
<1>1. [consuming[h] EXCEPT !.at = at] \in Delivery
  BY HeldDelivery DEF Delivery
<1>2. consuming \in [Handlers -> Delivery \cup {Nothing}]
  BY DEF MessagingTypeOK
<1> QED  BY <1>1, <1>2

LEMMA MessagingInitOK ==
  MessagingInit => MessagingTypeOK
BY DEF MessagingInit, MessagingTypeOK, AnsweredBefore

LEMMA BusOK ==
  ASSUME MessagingTypeOK, NEW o \in Orders, NEW key \in RoutingKeys,
         Send(o, key) \/ DeliverAgain(o, key) \/ Skip(o, key)
  PROVE  MessagingTypeOK'
BY KeysUpdate DEF MessagingTypeOK, Send, DeliverAgain, Skip

LEMMA ReceiveOK ==
  ASSUME MessagingTypeOK, NEW h \in Handlers, NEW o \in Orders, NEW key \in RoutingKeys,
         Receive(h, o, key)
  PROVE  MessagingTypeOK'
<1>1. [order |-> o, key |-> key, at |-> "dispatch"] \in Delivery
  BY DEF Delivery
<1>2. inbox' \in [Orders -> SUBSET RoutingKeys]
  BY KeysUpdate DEF MessagingTypeOK, Receive
<1>3. consuming' \in [Handlers -> Delivery \cup {Nothing}]
  BY <1>1 DEF MessagingTypeOK, Receive
<1> QED  BY <1>2, <1>3 DEF MessagingTypeOK, Receive

LEMMA ConsumeOK ==
  ASSUME MessagingTypeOK, NEW h \in Handlers,
         \/ Dispatch(h) \/ Ignore(h) \/ HandlerStep(h) \/ HandlerConflict(h) \/ Record(h)
         \/ HandlerFails(h) \/ Crash(h) \/ CrashBeforeRecord(h)
  PROVE  MessagingTypeOK'
<1> DEFINE d == consuming[h]
<1>1. Holds(h)
  BY BusyHolds DEF Dispatch, Ignore, HandlerStep, HandlerConflict, Record, HandlerFails,
                   Crash, CrashBeforeRecord
<1>2. d.order \in Orders /\ d.key \in RoutingKeys
  BY <1>1, HeldDelivery
<1>3. consuming' \in [Handlers -> Delivery \cup {Nothing}]
  <2>1. consuming' \in {[consuming EXCEPT ![h].at = "handler"], [consuming EXCEPT ![h].at = "save"],
                        [consuming EXCEPT ![h] = Nothing]}
    BY DEF Dispatch, Ignore, HandlerStep, HandlerConflict, Record, HandlerFails, Crash,
           CrashBeforeRecord
  <2> QED  BY <1>1, <2>1, HoldingUpdate
<1>4. UNCHANGED sent
  BY DEF Dispatch, Ignore, HandlerStep, HandlerConflict, Record, HandlerFails, Crash,
         CrashBeforeRecord
<1>5. inbox' \in {inbox, [inbox EXCEPT ![d.order] = @ \cup {d.key}]}
  BY DEF Dispatch, Ignore, HandlerStep, HandlerConflict, Record, HandlerFails, Crash,
         CrashBeforeRecord
<1>6. processed' \in {processed, [processed EXCEPT ![d.order] = @ \cup {d.key}]}
  BY DEF Dispatch, Ignore, HandlerStep, HandlerConflict, Record, HandlerFails, Crash,
         CrashBeforeRecord
<1>7. missed' \in {missed, [missed EXCEPT ![d.order] = @ \cup {d.key}]}
  BY DEF Dispatch, Ignore, HandlerStep, HandlerConflict, Record, HandlerFails, Crash,
         CrashBeforeRecord
<1>8. copies' \in {copies, copies + 1}
  BY DEF Dispatch, Ignore, HandlerStep, HandlerConflict, Record, HandlerFails, Crash,
         CrashBeforeRecord
<1>9. {sent, inbox, processed, missed} \subseteq [Orders -> SUBSET RoutingKeys] /\ copies \in Nat
  BY DEF MessagingTypeOK
<1>10. {inbox', processed', missed'} \subseteq [Orders -> SUBSET RoutingKeys]
  BY <1>2, <1>5, <1>6, <1>7, <1>9, KeysUpdate
<1> QED  BY <1>3, <1>4, <1>8, <1>9, <1>10 DEF MessagingTypeOK

LEMMA ChatFailsOK ==
  ASSUME MessagingTypeOK, NEW h \in Handlers, ChatFails(h)
  PROVE  MessagingTypeOK'
<1>1. \/ UNCHANGED consuming
      \/ Holds(h) /\ consuming' = [consuming EXCEPT ![h].at = "save"]
  BY DEF ChatFails
<1>2. consuming' \in [Handlers -> Delivery \cup {Nothing}]
  BY <1>1, HoldingUpdate DEF MessagingTypeOK
<1> QED  BY <1>2 DEF MessagingTypeOK, ChatFails

LEMMA MessagingNextOK ==
  MessagingTypeOK /\ [MessagingNext]_allVars => MessagingTypeOK'
<1> SUFFICES ASSUME MessagingTypeOK, [MessagingNext]_allVars  PROVE MessagingTypeOK'
  OBVIOUS
<1>1. ASSUME NEW h \in Handlers, Serve(h) \/ ServeStep(h)  PROVE MessagingTypeOK'
  BY <1>1 DEF Serve, ServeStep, messagingVars, MessagingTypeOK
<1>2. CASE UNCHANGED allVars
  BY <1>2 DEF allVars, messagingVars, MessagingTypeOK
<1> QED  BY <1>1, <1>2, BusOK, ReceiveOK, ConsumeOK, ChatFailsOK DEF MessagingNext, Consume

(* Whatever is repeated, skipped, lost or interrupted, every message that  *)
(* is delivered, recorded or held is one of an order of the system.        *)
THEOREM MessagingTypeCorrect ==
  MessagingSpec => []MessagingTypeOK
BY MessagingInitOK, MessagingNextOK, PTL DEF MessagingSpec

-----------------------------------------------------------------------------
(* Refinement.                                                             *)

LEMMA OperationIsMessage ==
  ASSUME NEW h \in Handlers, NEW o \in Orders, NEW key, Operation(h, o, key)
  PROVE  BusMessage(h, o)
BY DEF Operation, BusMessage

LEMMA HeldStepMaps ==
  ASSUME MessagingTypeOK, NEW h \in Handlers,
         \/ Dispatch(h) \/ Ignore(h) \/ HandlerStep(h) \/ HandlerConflict(h) \/ Record(h)
         \/ HandlerFails(h) \/ Crash(h) \/ CrashBeforeRecord(h)
  PROVE  Next \/ UNCHANGED vars
<1>1. CASE Dispatch(h)
  <2>1. consuming[h].order \in Orders
    BY <1>1, BusyHolds, HeldDelivery DEF Dispatch
  <2>2. BusMessage(h, consuming[h].order)
    BY <1>1, <2>1, OperationIsMessage DEF Dispatch
  <2> QED  BY <2>1, <2>2 DEF Next
<1>2. CASE HandlerStep(h)
  BY <1>2 DEF HandlerStep, Next
<1>3. CASE HandlerConflict(h)
  BY <1>3 DEF HandlerConflict, Step, Next
<1>4. CASE HandlerFails(h) \/ Crash(h)
  BY <1>4 DEF HandlerFails, Crash, Next
<1>5. CASE Ignore(h) \/ Record(h) \/ CrashBeforeRecord(h)
  BY <1>5 DEF Ignore, Record, CrashBeforeRecord
<1> QED  BY <1>1, <1>2, <1>3, <1>4, <1>5

LEMMA ServeMaps ==
  ASSUME NEW h \in Handlers, Serve(h) \/ ServeStep(h) \/ ChatFails(h)
  PROVE  Next
BY DEF Serve, ServeStep, ChatFails, Next

LEMMA BusMaps ==
  ASSUME NEW h \in Handlers, NEW o \in Orders, NEW key,
         Send(o, key) \/ DeliverAgain(o, key) \/ Skip(o, key) \/ Receive(h, o, key)
  PROVE  UNCHANGED vars
BY DEF Send, DeliverAgain, Skip, Receive

LEMMA MessagingStepMaps ==
  MessagingTypeOK /\ [MessagingNext]_allVars => [Next]_vars
<1> SUFFICES ASSUME MessagingTypeOK, [MessagingNext]_allVars  PROVE Next \/ UNCHANGED vars
  OBVIOUS
<1>1. ASSUME NEW o \in Orders, NEW key \in RoutingKeys,
             Send(o, key) \/ DeliverAgain(o, key) \/ Skip(o, key)
      PROVE  UNCHANGED vars
  BY <1>1 DEF Send, DeliverAgain, Skip
<1>2. CASE UNCHANGED allVars
  BY <1>2 DEF allVars
<1> QED  BY <1>1, <1>2, BusMaps, HeldStepMaps, ServeMaps DEF MessagingNext, Consume

(* The consumer adds no behaviour to the orders: deduplication, repeated   *)
(* deliveries, conflicts that complete a message and crashes are all steps *)
(* of the lifecycle, or steps that leave it alone.                         *)
THEOREM ImplementsLifecycle ==
  MessagingSpec => Spec
<1>1. MessagingInit => Init
  BY DEF MessagingInit
<1> QED  BY <1>1, MessagingStepMaps, MessagingTypeCorrect, PTL DEF MessagingSpec, Spec

(* So the history of every stored order is one legal story that ends in    *)
(* its status, however the bus repeats, delays or reorders the answers.    *)
THEOREM MessagesKeepHistory ==
  MessagingSpec => []HistoryConsistent
BY ImplementsLifecycle, HistoryIsConsistent, PTL

(* And no answer, repeated or late, takes back a recorded transition.      *)
THEOREM MessagesUndoNothing ==
  MessagingSpec => TransitionsNeverUndone
BY ImplementsLifecycle, NothingIsUndone, PTL

(* So every promise of the lifecycle holds in front of the bus: a release  *)
(* of the stock tells the truth, and an order has one conversation.        *)
THEOREM MessagesReleaseTruly ==
  MessagingSpec => []WasSoldAccurate
BY ImplementsLifecycle, ReleasesAreTrue, PTL

-----------------------------------------------------------------------------
(* Answers.                                                                *)

(* The answers that exclude an answer, and what makes an order accept it.  *)
LEMMA GroupOf ==
  ASSUME NEW key \in RoutingKeys
  PROVE  /\ key \in PaymentAnswers => Alternatives(key) = PaymentAnswers
         /\ key \in StockAnswers => Alternatives(key) = StockAnswers
         /\ key \in PickupAnswers => Alternatives(key) = PickupAnswers
         /\ key \in Alternatives(key)
<1>1. \E group \in {PaymentAnswers, StockAnswers, PickupAnswers} : key \in group
  BY DEF RoutingKeys
<1>2. /\ Alternatives(key) \in {PaymentAnswers, StockAnswers, PickupAnswers}
      /\ key \in Alternatives(key)
  BY <1>1 DEF Alternatives
<1>3. /\ PaymentAnswers \cap StockAnswers = {} /\ PaymentAnswers \cap PickupAnswers = {}
      /\ StockAnswers \cap PickupAnswers = {}
  BY DEF PaymentAnswers, StockAnswers, PickupAnswers
<1> QED  BY <1>2, <1>3

(* Answers of one group exclude each other.                                *)
LEMMA OneOfAGroup ==
  ASSUME NEW keys \in SUBSET RoutingKeys, \A key \in keys : keys \cap Alternatives(key) = {key}
  PROVE  /\ \A g, k \in keys \cap PaymentAnswers : g = k
         /\ \A g, k \in keys \cap StockAnswers : g = k
         /\ \A g, k \in keys \cap PickupAnswers : g = k
<1>1. ASSUME NEW group \in {PaymentAnswers, StockAnswers, PickupAnswers},
             NEW g \in keys \cap group, NEW k \in keys \cap group
      PROVE  g = k
  <2>1. Alternatives(g) = group
    BY <1>1, GroupOf
  <2>2. k \in keys \cap Alternatives(g)
    BY <2>1
  <2>3. keys \cap Alternatives(g) = {g}
    OBVIOUS
  <2> QED  BY <2>2, <2>3
<1> QED  BY <1>1

(* Each message has its operation, that no request runs.                   *)
LEMMA HandlersOfKeys ==
  /\ HandlerOf("financial.payment.processed") = "applyPaymentApproved"
  /\ HandlerOf("financial.payment.failed") = "applyPaymentFailed"
  /\ HandlerOf("product.inventory.reservation_confirmed") = "handleStockReservationConfirmed"
  /\ HandlerOf("product.inventory.reservation_rejected") = "handleStockReservationRejected"
  /\ HandlerOf("fulfillment.delivery.confirmed") = "markDelivered"
  /\ HandlerOf("fulfillment.delivery.failed") = "markFailed"
  /\ HandlerOf("fulfillment.qr.expired") = "handleQrExpired"
BY DEF HandlerOf

LEMMA KeyCases ==
  RoutingKeys = {"financial.payment.processed", "financial.payment.failed",
                 "product.inventory.reservation_confirmed",
                 "product.inventory.reservation_rejected",
                 "fulfillment.delivery.confirmed", "fulfillment.delivery.failed",
                 "fulfillment.qr.expired"}
BY DEF RoutingKeys, PaymentAnswers, StockAnswers, PickupAnswers

LEMMA HandlersDiffer ==
  /\ \A g, k \in RoutingKeys : HandlerOf(g) = HandlerOf(k) => g = k
  /\ \A key \in RoutingKeys : HandlerOf(key) \notin
       {"none", "createDraft", "createOrder", "checkout", "updateOrderStatus", "cancelOrder",
        "rateOrder", "deleteOrder", "requestReturn", "approveReturn", "rejectReturn",
        "confirmIfPaidAndReserved"}
BY KeyCases, HandlersOfKeys

(* What an order shows, of its row.                                        *)
LEMMA ShowsRow ==
  ASSUME NEW o, NEW key
  PROVE  Shows(o, key) <=> RowShows(orders[o], key)
BY DEF Shows, Released, RowShows

(* A legal story has reached the status it ends in.                        *)
LEMMA ReachesItsStatus ==
  ASSUME NEW row \in OrderRow, LegalStory(row)
  PROVE  Reached(row, row.status)
<1>1. PICK n : n = Len(row.history)
  OBVIOUS
<1>2. row.history \in Seq(HistoryEntry) /\ row.history # <<>> /\ row.history[n].to = row.status
  BY <1>1, RowFields DEF LegalStory, LastEntry
<1>3. n \in DOMAIN row.history
  BY <1>1, <1>2, LenProperties, EmptySeq
<1> QED  BY <1>2, <1>3 DEF Reached

\* A status in which an order with answers may be.
LEMMA AnsweredStatus ==
  ASSUME NEW row \in OrderRow, NEW keys \in SUBSET RoutingKeys, AnswersFit(row, keys),
         NEW key \in keys
  PROVE  row.status \in {"DRAFT", "CREATED", "PENDING_PAYMENT", "PAYMENT_APPROVED", "CONFIRMED",
                         "IN_PREPARATION", "READY_FOR_PICKUP", "DELIVERED", "CANCELLED", "FAILED"}
BY DEF AnswersFit, Statuses, ReturnStatuses

(* A message that its handler ignores, once the order waits for it or is   *)
(* past that, has nothing to add.                                          *)
LEMMA IgnoredShows ==
  ASSUME NEW o \in Orders, NEW row \in OrderRow, row = orders[o],
         row.status \in Statuses => LegalStory(row), RowSold(row),
         NEW keys \in SUBSET RoutingKeys, AnswersFit(row, keys), NEW key \in keys,
         ~Accepts(o, key), row.status \notin {"DRAFT", "CREATED"}
  PROVE  RowShows(row, key)
<1>1. row.status \in {"PENDING_PAYMENT", "PAYMENT_APPROVED", "CONFIRMED", "IN_PREPARATION",
                      "READY_FOR_PICKUP", "DELIVERED", "CANCELLED", "FAILED"}
  BY AnsweredStatus
<1>2. row.status \in Statuses /\ Reached(row, row.status)
  BY <1>1, ReachesItsStatus DEF Statuses
<1>3. row.status \in CONFIRMED_OR_LATER => Reached(row, "CONFIRMED")
  BY SaleStatuses DEF RowSold
<1>4. CASE row.status \in {"CANCELLED", "FAILED"}
  BY <1>2, <1>4 DEF RowShows
<1>5. CASE row.status \in {"PENDING_PAYMENT", "PAYMENT_APPROVED", "CONFIRMED", "IN_PREPARATION",
                           "READY_FOR_PICKUP", "DELIVERED"}
  <2>1. /\ \A g, k \in keys \cap PaymentAnswers : g = k
        /\ \A g, k \in keys \cap StockAnswers : g = k
        /\ \A g, k \in keys \cap PickupAnswers : g = k
    BY OneOfAGroup DEF AnswersFit
  <2>2. CONFIRMED_OR_LATER = {"CONFIRMED", "IN_PREPARATION", "READY_FOR_PICKUP", "DELIVERED"}
    BY DEF CONFIRMED_OR_LATER
  <2>3. /\ row.cash => row.status \in CONFIRMED_OR_LATER /\ keys \cap PaymentAnswers = {}
        /\ row.status \in CONFIRMED_OR_LATER => "product.inventory.reservation_confirmed" \in keys
        /\ ~row.cash /\ row.status \in {"PAYMENT_APPROVED"} \cup CONFIRMED_OR_LATER =>
             "financial.payment.processed" \in keys /\ Reached(row, "PAYMENT_APPROVED")
        /\ row.status = "DELIVERED" => "fulfillment.delivery.confirmed" \in keys
        /\ keys \cap PickupAnswers # {} => row.status \in {"READY_FOR_PICKUP", "DELIVERED"}
    BY <1>5, <2>2 DEF AnswersFit, STOCK_RELEASING_STATUSES
  <2>4. CASE key = "financial.payment.processed"
    <3>1. ~row.cash /\ row.status # "PENDING_PAYMENT"
      BY <2>3, <2>4 DEF Accepts, PaymentAnswers
    <3> QED  BY <1>5, <2>2, <2>3, <2>4, <3>1 DEF RowShows
  <2>5. CASE key = "financial.payment.failed"
    <3>1. ~CanTransition(row.status, "FAILED")
      BY <2>5 DEF Accepts
    <3>2. row.status = "DELIVERED"
      BY <1>5, <3>1 DEF CanTransition, ORDER_TRANSITIONS, Statuses
    <3> QED  BY <2>1, <2>2, <2>3, <2>5, <3>2 DEF PaymentAnswers
  <2>6. CASE key = "product.inventory.reservation_confirmed"
    <3>1. row.cash
      BY <1>2, <2>6 DEF Accepts, Stored
    <3> QED  BY <1>3, <2>3, <2>6, <3>1 DEF RowShows
  <2>7. CASE key = "product.inventory.reservation_rejected"
    <3>1. ~CanTransition(row.status, "CANCELLED")
      BY <2>7 DEF Accepts
    <3>2. row.status \in {"IN_PREPARATION", "DELIVERED"}
      BY <1>5, <3>1 DEF CanTransition, ORDER_TRANSITIONS, Statuses
    <3> QED  BY <2>1, <2>2, <2>3, <2>7, <3>2 DEF StockAnswers
  <2>8. CASE key = "fulfillment.delivery.confirmed"
    <3>1. ~CanTransition(row.status, "DELIVERED") /\ key \in PickupAnswers
      BY <2>8 DEF Accepts, PickupAnswers
    <3>2. row.status = "DELIVERED"
      BY <2>3, <3>1 DEF CanTransition, ORDER_TRANSITIONS, Statuses
    <3> QED  BY <1>2, <2>8, <3>2 DEF RowShows
  <2>9. CASE key = "fulfillment.delivery.failed"
    <3>1. ~CanTransition(row.status, "FAILED") /\ key \in PickupAnswers
      BY <2>9 DEF Accepts, PickupAnswers
    <3>2. row.status = "DELIVERED"
      BY <2>3, <3>1 DEF CanTransition, ORDER_TRANSITIONS, Statuses
    <3> QED  BY <2>1, <2>3, <2>9, <3>2 DEF PickupAnswers
  <2>10. CASE key = "fulfillment.qr.expired"
    <3>1. ~CanTransition(row.status, "CANCELLED") /\ key \in PickupAnswers
      BY <2>10 DEF Accepts, PickupAnswers
    <3>2. row.status = "DELIVERED"
      BY <2>3, <3>1 DEF CanTransition, ORDER_TRANSITIONS, Statuses
    <3> QED  BY <2>1, <2>3, <2>10, <3>2 DEF PickupAnswers
  <2> QED  BY <2>4, <2>5, <2>6, <2>7, <2>8, <2>9, <2>10, KeyCases
<1> QED  BY <1>1, <1>4, <1>5

\* Every event was announced once at most, of a row that is still there.
OnceWithoutDeletion ==
  "deleteOrder" \notin Ops /\ DebtsFinite /\ NothingRemoved /\ EverythingOnce

(* What was announced is past.                                             *)
LEMMA AnnouncedIsPast ==
  ASSUME InductiveInvariant, OnceWithoutDeletion, NEW o \in Orders, NEW key \in OnceKeys,
         EventsOf(o, key) # {}
  PROVE  orders[o].status \in Past[key]
<1> USE DEF OnceWithoutDeletion
<1>1. PICK E, n, k : E = EventsOf(o, key) /\ n = Cardinality(E) /\ k = Cardinality(Owing(o, key))
  OBVIOUS
<1>2. key \in DebtKeys
  BY OnceKeyCases
<1>3. n \in Nat /\ k \in Nat /\ InHand(o, key) = n + k
  BY <1>1, <1>2, HandMoves DEF InHand
<1>4. IsFiniteSet(E)
  <2>1. outbox[o] \in Seq(Event)
    BY DEF InductiveInvariant, OutboxOK
  <2>2. E = EventsIn(outbox[o], key)
    BY <1>1 DEF EventsOf, EventsIn
  <2> QED  BY <2>1, <2>2, EventsFinite
<1>5. n # 0
  BY <1>1, <1>4, FS_EmptySet
<1>6. OnceAtMost(o, key)
  BY DEF EverythingOnce
<1>7. InHand(o, key) <= IF orders[o].status \in Past[key] /\ orders[o].status # "deleted" THEN 1 ELSE 0
  <2>1. removed[o].rows = 0
    BY DEF NothingRemoved
  <2> QED  BY <1>6, <2>1, OnceBefore
<1> QED  BY <1>3, <1>5, <1>7

(* An answer is sent about an order that waits for it, or was ready for    *)
(* its pickup.                                                             *)
LEMMA SendFits ==
  ASSUME InductiveInvariant, OnceWithoutDeletion, NEW o \in Orders, NEW key \in RoutingKeys,
         sent \in [Orders -> SUBSET RoutingKeys], OrderAnswered(o),
         Announced(o, Trigger(key)), key \in PaymentAnswers => ~orders[o].cash,
         sent[o] \cap Alternatives(key) = {}
  PROVE  AnswersFit(orders[o], sent[o] \cup {key})
<1>1. PICK row, keys : row = orders[o] /\ keys = sent[o]
  OBVIOUS
<1>2. row \in OrderRow /\ keys \in SUBSET RoutingKeys /\ AnswersFit(row, keys)
  BY <1>1, RowAt DEF InductiveInvariant, OrderAnswered
<1>3. row.status \in Statuses
  BY <1>1, <1>2, RowFields DEF OrderAnswered, Announced, EventsOf
<1>4. ASSUME NEW k \in keys \cup {key}
      PROVE  (keys \cup {key}) \cap Alternatives(k) = {k}
  <2>1. k \in RoutingKeys /\ k \in Alternatives(k) /\ key \in Alternatives(key)
    BY <1>2, GroupOf
  <2>2. CASE k = key
    BY <1>1, <2>1, <2>2
  <2>3. CASE k # key
    <3>1. k \in keys /\ keys \cap Alternatives(k) = {k} /\ k \notin Alternatives(key)
      BY <1>1, <1>2, <2>3 DEF AnswersFit
    <3>2. key \notin Alternatives(k)
      BY <2>1, <3>1, GroupOf DEF RoutingKeys
    <3> QED  BY <3>1, <3>2
  <2> QED  BY <2>2, <2>3
<1>5. key \in PickupAnswers => row.status \in {"READY_FOR_PICKUP", "DELIVERED"} \cup STOCK_RELEASING_STATUSES
  <2>1. SUFFICES ASSUME key \in PickupAnswers
                 PROVE  row.status \in {"READY_FOR_PICKUP", "DELIVERED"} \cup STOCK_RELEASING_STATUSES
    OBVIOUS
  <2>2. EventsOf(o, "order.order.ready_for_pickup") # {}
    BY <2>1 DEF Announced, Trigger
  <2>3. row.status \in Past["order.order.ready_for_pickup"]
    BY <1>1, <2>2, AnnouncedIsPast, OnceKeyCases
  <2>4. row.status \in {"READY_FOR_PICKUP"} \cup AfterPickup \cup GoneStatuses
    BY <2>3 DEF Past, OnceKeys, Telling
  <2>5. row.status \notin ReturnStatuses
    BY <1>2 DEF AnswersFit
  <2> QED  BY <1>3, <2>4, <2>5, SaleStatuses DEF AfterPickup, GoneStatuses, ReturnStatuses
<1>6. row.cash => (keys \cup {key}) \cap PaymentAnswers = {}
  BY <1>1, <1>2 DEF AnswersFit
<1> QED  BY <1>1, <1>2, <1>3, <1>4, <1>5, <1>6 DEF AnswersFit
-----------------------------------------------------------------------------
(* How a step of the lifecycle leaves a row, seen from the answers.        *)

\* The row goes on: it stays stored, and shows whatever it showed.
RowGoesOn(old, row) ==
  /\ row.status \in Statuses
  /\ old.status \in Statuses => row.cash = old.cash
  /\ \A key : RowShows(old, key) => RowShows(row, key)

LEMMA GoesOnWhen ==
  ASSUME NEW old, NEW row, row.status \in Statuses,
         old.status \in Statuses => row.cash = old.cash,
         \A status : Reached(old, status) => Reached(row, status),
         old.stockReserved => row.stockReserved \/ Reached(row, "CONFIRMED")
  PROVE  RowGoesOn(old, row)
BY DEF RowGoesOn, RowShows

LEMMA KnowsOn ==
  ASSUME NEW c, NEW old, NEW row, NEW keys, KnowsAnswers(c, old, keys), RowGoesOn(old, row)
  PROVE  KnowsAnswers(c, row, keys)
BY DEF KnowsAnswers, RowGoesOn

(* The same call, or a later point of it, knows as much.                   *)
LEMMA SameKnows ==
  ASSUME NEW c, NEW d, SameCall(c, d), d.pc \notin {"saveOrder", "markReserved"},
         NEW row, NEW keys, KnowsAnswers(c, row, keys)
  PROVE  KnowsAnswers(d, row, keys)
BY DEF KnowsAnswers, SameCall

(* A transition that the order accepts fits the answers that it needs.     *)
LEMMA TransitionFits ==
  ASSUME NEW old \in OrderRow, NEW row \in OrderRow, NEW e \in HistoryEntry,
         row.history = Append(old.history, e), e.to = row.status,
         row.cash = old.cash, row.stockReserved = old.stockReserved,
         CanTransition(old.status, row.status),
         NEW keys \in SUBSET RoutingKeys, AnswersFit(old, keys),
         row.status \notin ReturnStatuses,
         row.status = "PENDING_PAYMENT" => ~row.cash,
         row.status = "PAYMENT_APPROVED" => "financial.payment.processed" \in keys,
         row.status = "CONFIRMED" => /\ "product.inventory.reservation_confirmed" \in keys
                                     /\ row.cash \/ old.status = "PAYMENT_APPROVED",
         row.status = "DELIVERED" => "fulfillment.delivery.confirmed" \in keys
  PROVE  AnswersFit(row, keys) /\ RowGoesOn(old, row)
<1>1. \A status : Reached(row, status) <=> Reached(old, status) \/ row.status = status
  BY ReachedMore
<1>2. old.status \in Statuses /\ row.status \in Statuses
  BY SaleTransitions
<1>3. RowGoesOn(old, row)
  BY <1>1, <1>2, GoesOnWhen
<1>4. /\ row.status \in {"PENDING_PAYMENT", "PAYMENT_APPROVED"} =>
           row.status = "PENDING_PAYMENT" \/ old.status = "PENDING_PAYMENT"
      /\ row.status \in CONFIRMED_OR_LATER =>
           row.status = "CONFIRMED" \/ old.status \in CONFIRMED_OR_LATER \cup ReturnStatuses
      /\ old.status \in {"READY_FOR_PICKUP", "DELIVERED"} \cup STOCK_RELEASING_STATUSES =>
           row.status \in {"READY_FOR_PICKUP", "DELIVERED", "RETURNED", "PARTIALLY_RETURNED",
                           "RETURN_PENDING_APPROVAL"} \cup STOCK_RELEASING_STATUSES
      /\ "PAYMENT_APPROVED" \notin CONFIRMED_OR_LATER /\ "CONFIRMED" \in CONFIRMED_OR_LATER
  BY <1>2 DEF CanTransition, ORDER_TRANSITIONS, Statuses, CONFIRMED_OR_LATER, ReturnStatuses,
              STOCK_RELEASING_STATUSES
<1>5. old.status \notin ReturnStatuses
  BY DEF AnswersFit
<1>6. row.cash => /\ row.status \notin {"PENDING_PAYMENT", "PAYMENT_APPROVED"}
                  /\ keys \cap PaymentAnswers = {}
  BY <1>4 DEF AnswersFit
<1>7. row.stockReserved \/ row.status \in CONFIRMED_OR_LATER =>
        "product.inventory.reservation_confirmed" \in keys
  BY <1>4, <1>5 DEF AnswersFit
<1>8. ~row.cash /\ row.status \in {"PAYMENT_APPROVED"} \cup CONFIRMED_OR_LATER =>
        "financial.payment.processed" \in keys /\ Reached(row, "PAYMENT_APPROVED")
  BY <1>1, <1>4, <1>5 DEF AnswersFit
<1>9. keys \cap PickupAnswers # {} =>
        row.status \in {"READY_FOR_PICKUP", "DELIVERED"} \cup STOCK_RELEASING_STATUSES
  BY <1>4 DEF AnswersFit, ReturnStatuses
<1> QED  BY <1>2, <1>3, <1>6, <1>7, <1>8, <1>9 DEF AnswersFit

(* A row that only changes in what the answers say nothing about, or whose *)
(* reservation is recorded or was taken back.                              *)
LEMMA SameStatusFits ==
  ASSUME NEW old, NEW row, row.status = old.status, row.history = old.history,
         row.cash = old.cash, NEW keys, AnswersFit(old, keys),
         row.stockReserved => "product.inventory.reservation_confirmed" \in keys
  PROVE  AnswersFit(row, keys)
<1>1. \A status : Reached(row, status) <=> Reached(old, status)
  BY DEF Reached
<1> QED  BY <1>1 DEF AnswersFit

(* A new order: no answer was sent about it.                               *)
LEMMA NewOrderFits ==
  ASSUME NEW status \in {"DRAFT", "CREATED"}, NEW cash \in BOOLEAN, NEW op,
         NEW row, row = NewOrder(status, cash, op), NEW keys, AnswersFit(NoOrder, keys)
  PROVE  AnswersFit(row, keys) /\ RowGoesOn(NoOrder, row) /\ row.cash = cash
<1>1. /\ row.status = status /\ row.cash = cash /\ row.stockReserved = FALSE
      /\ NoOrder.status = "none" /\ NoOrder.history = <<>> /\ NoOrder.stockReserved = FALSE
  BY DEF NewOrder, EmptyRow, NoOrder
<1>2. keys = {}
  BY <1>1 DEF AnswersFit, Statuses
<1>3. status \in Statuses /\ status \notin CONFIRMED_OR_LATER
      /\ status \notin ReturnStatuses \cup {"PENDING_PAYMENT", "PAYMENT_APPROVED", "DELIVERED"}
  BY DEF Statuses, CONFIRMED_OR_LATER, ReturnStatuses
<1>4. \A s : ~Reached(NoOrder, s)
  BY <1>1 DEF Reached
<1>5. RowGoesOn(NoOrder, row)
  BY <1>1, <1>3, <1>4, GoesOnWhen DEF Statuses
<1> QED  BY <1>1, <1>2, <1>3, <1>5 DEF AnswersFit
-----------------------------------------------------------------------------
(* The steps of the lifecycle, seen from the answers.                      *)

\* Every order still fits its answers and shows what it showed, and every call
\* knows what it writes.
AnswersGoOn ==
  /\ \A p \in Orders :
       /\ AnswersFit(orders'[p], sent[p])
       /\ \A key : RowShows(orders[p], key) => RowShows(orders'[p], key)
       /\ orders'[p].status # "deleted"
       /\ orders'[p].status = "none" => outbox'[p] = <<>>
  /\ \A g \in Handlers : calls'[g] # IdleCall =>
       KnowsAnswers(calls'[g], orders'[calls'[g].order], sent[calls'[g].order])

(* One call steps, and at most the row and the events of its order change. *)
LEMMA GoesOnAt ==
  ASSUME InductiveInvariant, ConsumerInvariant, NEW h \in Handlers, NEW d, Leaves(h, d),
         NEW o \in Orders, NEW row,
         \A p \in Orders : orders'[p] = IF p = o THEN row ELSE orders[p],
         RowGoesOn(orders[o], row), AnswersFit(row, sent[o]),
         d # IdleCall => d.order = o /\ KnowsAnswers(d, row, sent[o]),
         \A p \in Orders : p # o => outbox'[p] = outbox[p]
  PROVE  AnswersGoOn
<1>1. ASSUME NEW p \in Orders
      PROVE  /\ AnswersFit(orders'[p], sent[p])
             /\ \A key : RowShows(orders[p], key) => RowShows(orders'[p], key)
             /\ orders'[p].status # "deleted"
             /\ orders'[p].status = "none" => outbox'[p] = <<>>
  <2>1. row.status # "none" /\ row.status # "deleted"
    BY DEF RowGoesOn, Statuses
  <2>2. OrderAnswered(p)
    BY DEF ConsumerInvariant
  <2>3. CASE p = o
    BY <2>1, <2>3 DEF RowGoesOn
  <2>4. CASE p # o
    BY <2>2, <2>4 DEF OrderAnswered
  <2> QED  BY <2>3, <2>4
<1>2. ASSUME NEW g \in Handlers, calls'[g] # IdleCall
      PROVE  KnowsAnswers(calls'[g], orders'[calls'[g].order], sent[calls'[g].order])
  <2>1. CASE g = h
    <3>1. calls'[g] = d
      BY <2>1 DEF Leaves, InductiveInvariant, CallsOK
    <3> QED  BY <1>2, <3>1
  <2>2. CASE g # h
    <3>1. PICK c : c = calls[g]
      OBVIOUS
    <3>2. calls'[g] = c
      BY <2>2, <3>1 DEF Leaves, InductiveInvariant, CallsOK
    <3>3. c \in Call /\ c.order \in Orders /\ KnowsAnswers(c, orders[c.order], sent[c.order])
      BY <1>2, <3>1, <3>2, CallFields DEF InductiveInvariant, CallsOK, ConsumerInvariant, CallKnows
    <3>4. CASE c.order = o
      BY <3>2, <3>3, <3>4, KnowsOn
    <3>5. CASE c.order # o
      BY <3>2, <3>3, <3>5
    <3> QED  BY <3>4, <3>5
  <2> QED  BY <2>1, <2>2
<1> QED  BY <1>1, <1>2 DEF AnswersGoOn

(* What a call in progress knows.                                          *)
LEMMA CallInHand ==
  ASSUME InductiveInvariant, ConsumerInvariant, NEW h \in Handlers, NEW c, c = calls[h], c \in Call
  PROVE  /\ c.order \in Orders /\ c # IdleCall
         /\ KnowsAnswers(c, orders[c.order], sent[c.order])
         /\ orders[c.order].status \in Statuses /\ OrderAnswered(c.order)
<1>1. c.order \in Orders /\ c # IdleCall
  BY CallFields DEF Call, Points, IdleCall
<1> QED  BY <1>1 DEF ConsumerInvariant, CallKnows, KnowsAnswers

(* A step that leaves the orders alone.                                    *)
LEMMA CallGoesOn ==
  ASSUME InductiveInvariant, ConsumerInvariant, NEW h \in Handlers, NEW d, Leaves(h, d),
         NEW o \in Orders, UNCHANGED orders, orders[o].status \in Statuses,
         d # IdleCall => d.order = o /\ KnowsAnswers(d, orders[o], sent[o]),
         \A p \in Orders : p # o => outbox'[p] = outbox[p]
  PROVE  AnswersGoOn
<1>1. PICK row : row = orders[o]
  OBVIOUS
<1>2. RowGoesOn(orders[o], row) /\ \A p \in Orders : orders'[p] = IF p = o THEN row ELSE orders[p]
  BY <1>1 DEF RowGoesOn
<1>3. AnswersFit(row, sent[o])
  BY <1>1 DEF ConsumerInvariant, OrderAnswered
<1> QED  BY <1>1, <1>2, <1>3, GoesOnAt

LEMMA MoveGoesOn ==
  ASSUME InductiveInvariant, ConsumerInvariant, NEW h \in Handlers,
         (\E d, e : Advances(h, d, e)) \/ (\E d : Fails(h, d)) \/ Returns(h)
  PROVE  AnswersGoOn
<1>1. PICK c : c = calls[h]
  OBVIOUS
<1>2. ASSUME NEW d, NEW e, Advances(h, d, e) \/ Fails(h, d) \/ (Returns(h) /\ d = IdleCall)
      PROVE  AnswersGoOn
  <2>1. c \in Call /\ UNCHANGED orders
    BY <1>1, <1>2 DEF Advances, Fails, Returns
  <2>2. d = IdleCall \/ (SameCall(c, d) /\ d.pc \notin {"saveOrder", "markReserved"})
    BY <1>1, <1>2 DEF Advances, Moves, Fails
  <2>3. /\ c.order \in Orders /\ KnowsAnswers(c, orders[c.order], sent[c.order])
        /\ orders[c.order].status \in Statuses
    BY <1>1, <2>1, CallInHand
  <2>4. d # IdleCall => d.order = c.order /\ KnowsAnswers(d, orders[c.order], sent[c.order])
    BY <2>2, <2>3, SameKnows DEF SameCall
  <2>5. Leaves(h, d)
    BY <1>2, IdleOwesNothing DEF Advances, Moves, Fails, Returns, SameCall, Leaves
  <2>6. \A p \in Orders : p # c.order => outbox'[p] = outbox[p]
    BY <1>1, <1>2 DEF Advances, Inserts, Publish, Fails, Returns, InductiveInvariant, OutboxOK
  <2> QED  BY <2>1, <2>3, <2>4, <2>5, <2>6, CallGoesOn
<1> QED  BY <1>2

LEMMA CommitGoesOn ==
  ASSUME InductiveInvariant, SignalsInvariant, MessagingTypeOK, ConsumerInvariant,
         NEW h \in Handlers, NEW d, NEW row, Commits(h, d, row)
  PROVE  AnswersGoOn
<1>1. PICK c : c = calls[h]
  OBVIOUS
<1>2. PICK o : o = c.order
  OBVIOUS
<1>3. /\ c \in Call /\ c.expected # "none" /\ CarriesTransition(c) /\ orders[o].status = c.expected
      /\ row \in OrderRow /\ row.status = c.row.status
      /\ row.history = Append(orders[o].history, LastEntry(c.row))
      /\ LastEntry(c.row) \in HistoryEntry
      /\ row.cash = orders[o].cash /\ row.stockReserved = orders[o].stockReserved
      /\ SameCall(c, d) /\ d.pc = "publishStatusChanged" /\ UNCHANGED outbox
  BY <1>1, <1>2 DEF Commits
<1>4. /\ o \in Orders /\ KnowsAnswers(c, orders[o], sent[o]) /\ OrderAnswered(o)
  BY <1>1, <1>2, <1>3, CallInHand
<1>5. \A p \in Orders : orders'[p] = IF p = o THEN row ELSE orders[p]
  BY <1>1, <1>2 DEF Commits, InductiveInvariant, RowsOK
<1>6. PICK old, keys, e : old = orders[o] /\ keys = sent[o] /\ e = LastEntry(c.row)
  OBVIOUS
<1>7. /\ old \in OrderRow /\ keys \in SUBSET RoutingKeys /\ AnswersFit(old, keys)
      /\ e.to = row.status /\ CanTransition(old.status, row.status)
  BY <1>3, <1>4, <1>6, RowAt DEF InductiveInvariant, MessagingTypeOK, OrderAnswered, CarriesTransition
<1>8. row.status = "CONFIRMED" => row.cash \/ old.status = "PAYMENT_APPROVED"
  BY <1>1, <1>2, <1>3, <1>6, CallInSignals DEF KnowsSignals
<1>9. /\ row.status \notin ReturnStatuses
      /\ row.status = "PENDING_PAYMENT" => ~row.cash
      /\ row.status = "PAYMENT_APPROVED" => "financial.payment.processed" \in keys
      /\ row.status = "CONFIRMED" => "product.inventory.reservation_confirmed" \in keys
      /\ row.status = "DELIVERED" => "fulfillment.delivery.confirmed" \in keys
  BY <1>3, <1>4, <1>6 DEF KnowsAnswers
<1>10. AnswersFit(row, keys) /\ RowGoesOn(old, row)
  BY <1>3, <1>6, <1>7, <1>8, <1>9, TransitionFits
<1>11. KnowsAnswers(d, row, keys) /\ d.order = o
  <2>1. KnowsAnswers(d, old, keys)
    BY <1>3, <1>4, <1>6, SameKnows
  <2> QED  BY <1>2, <1>3, <1>10, <2>1, KnowsOn DEF SameCall
<1>12. Leaves(h, d)
  BY DEF Commits, SameCall, Leaves
<1> QED  BY <1>3, <1>4, <1>5, <1>6, <1>10, <1>11, <1>12, GoesOnAt

LEMMA ReserveGoesOn ==
  ASSUME InductiveInvariant, ConsumerInvariant, NEW h \in Handlers, NEW d, NEW row,
         Reserves(h, d, row)
  PROVE  AnswersGoOn
<1>1. PICK c : c = calls[h]
  OBVIOUS
<1>2. PICK o : o = c.order
  OBVIOUS
<1>3. /\ c \in Call /\ c.pc = "markReserved"
      /\ row.status = orders[o].status /\ row.history = orders[o].history
      /\ row.cash = orders[o].cash /\ (orders[o].stockReserved => row.stockReserved)
      /\ SameCall(c, d) /\ d.pc = "confirmIfPaid" /\ UNCHANGED outbox
  BY <1>1, <1>2 DEF Reserves
<1>4. /\ o \in Orders /\ KnowsAnswers(c, orders[o], sent[o]) /\ OrderAnswered(o)
      /\ orders[o].status \in Statuses
  BY <1>1, <1>2, <1>3, CallInHand
<1>5. \A p \in Orders : orders'[p] = IF p = o THEN row ELSE orders[p]
  BY <1>1, <1>2 DEF Reserves, InductiveInvariant, RowsOK
<1>6. PICK old, keys : old = orders[o] /\ keys = sent[o]
  OBVIOUS
<1>7. "product.inventory.reservation_confirmed" \in keys
  BY <1>3, <1>4, <1>6, KeyCases, HandlersOfKeys DEF KnowsAnswers
<1>8. AnswersFit(row, keys)
  BY <1>3, <1>4, <1>6, <1>7, SameStatusFits DEF OrderAnswered
<1>9. RowGoesOn(old, row)
  <2>1. \A status : Reached(old, status) => Reached(row, status)
    BY <1>3, <1>6 DEF Reached
  <2> QED  BY <1>3, <1>4, <1>6, <2>1, GoesOnWhen
<1>10. KnowsAnswers(d, row, keys) /\ d.order = o
  <2>1. KnowsAnswers(d, old, keys)
    BY <1>3, <1>4, <1>6, SameKnows
  <2> QED  BY <1>2, <1>3, <1>9, <2>1, KnowsOn DEF SameCall
<1>11. Leaves(h, d)
  BY DEF Reserves, SameCall, Leaves
<1> QED  BY <1>3, <1>4, <1>5, <1>6, <1>8, <1>9, <1>10, <1>11, GoesOnAt

(* A snapshot that is saved may lack the reservation that was recorded     *)
(* since: by then its order was confirmed.                                 *)
LEMMA SaveGoesOn ==
  ASSUME InductiveInvariant, SaleInvariant, ConsumerInvariant, NEW h \in Handlers, NEW d,
         Saves(h, d)
  PROVE  AnswersGoOn
<1>1. PICK c : c = calls[h]
  OBVIOUS
<1>2. PICK o : o = c.order
  OBVIOUS
<1>3. PICK row : row = c.row
  OBVIOUS
<1>4. /\ c \in Call /\ c.pc = "saveOrder" /\ CallLegal(c)
      /\ orders[o] = DeletedOrder \/ orders[o].history = row.history
      /\ d = IdleCall \/ (SameCall(c, d) /\ d.pc \notin {"saveOrder", "markReserved"})
      /\ UNCHANGED outbox
  BY <1>1, <1>2, <1>3 DEF Saves
<1>5. /\ o \in Orders /\ KnowsAnswers(c, orders[o], sent[o]) /\ OrderAnswered(o)
      /\ orders[o].status \in Statuses
  BY <1>1, <1>2, <1>4, CallInHand
<1>6. \A p \in Orders : orders'[p] = IF p = o THEN row ELSE orders[p]
  BY <1>1, <1>2, <1>3 DEF Saves, InductiveInvariant, RowsOK
<1>7. PICK old, keys : old = orders[o] /\ keys = sent[o]
  OBVIOUS
<1>8. row.history = old.history
  BY <1>4, <1>5, <1>7 DEF OrderAnswered, DeletedOrder, EmptyRow
<1>9. row.status = old.status
  <2>1. LegalStory(row) /\ LegalStory(old)
    BY <1>3, <1>4, <1>5, <1>7, RowAt DEF CallLegal, InductiveInvariant
  <2> QED  BY <1>8, <2>1 DEF LegalStory, LastEntry
<1>10. row.cash = old.cash /\ (row.stockReserved => "product.inventory.reservation_confirmed" \in keys)
  BY <1>3, <1>4, <1>5, <1>7 DEF KnowsAnswers
<1>11. AnswersFit(row, keys)
  BY <1>5, <1>7, <1>8, <1>9, <1>10, SameStatusFits DEF OrderAnswered
<1>12. RowGoesOn(old, row)
  <2>1. \A status : Reached(old, status) => Reached(row, status)
    BY <1>8 DEF Reached
  <2>2. Reached(row, "CONFIRMED")
    BY <1>1, <1>3, <1>4, CallInSale DEF KnowsSale
  <2> QED  BY <1>5, <1>7, <1>9, <1>10, <2>1, <2>2, GoesOnWhen
<1>13. d # IdleCall => KnowsAnswers(d, row, keys) /\ d.order = o
  <2>1. d # IdleCall => KnowsAnswers(d, old, keys)
    BY <1>4, <1>5, <1>7, SameKnows
  <2> QED  BY <1>2, <1>4, <1>12, <2>1, KnowsOn DEF SameCall
<1>14. Leaves(h, d)
  BY DEF Saves, SameCall, Leaves
<1> QED  BY <1>4, <1>5, <1>6, <1>7, <1>11, <1>12, <1>13, <1>14, GoesOnAt

(* A call that starts, or takes the place of another.                      *)
LEMMA StartGoesOn ==
  ASSUME InductiveInvariant, ConsumerInvariant, NEW h \in Handlers, NEW d, Starts(h, d),
         NEW o, o = d.order, KnowsAnswers(d, orders[o], sent[o])
  PROVE  AnswersGoOn
<1>1. d \in Call /\ UNCHANGED orders /\ UNCHANGED outbox /\ orders[o].status \in Statuses
  BY DEF Starts, Snapshot
<1>2. Leaves(h, d)
  BY DEF Starts, Leaves
<1>3. o \in Orders
  BY <1>1, CallFields
<1> QED  BY <1>1, <1>2, <1>3, CallGoesOn

LEMMA ConfirmGoesOn ==
  ASSUME InductiveInvariant, CallsFit, ConsumerInvariant, NEW h \in Handlers,
         ConfirmIfPaidAndReserved(h)
  PROVE  AnswersGoOn
<1>1. PICK c : c = calls[h]
  OBVIOUS
<1>2. c.pc = "confirmIfPaid" /\ c.pc \in Points
  BY <1>1 DEF ConfirmIfPaidAndReserved, At, Points
<1>3. c \in Call /\ c.order \in Orders
  BY <1>1, <1>2, CallAt
<1>4. PICK o, row : o = c.order /\ row = orders[o]
  OBVIOUS
<1>5. CASE Returns(h)
  BY <1>5, MoveGoesOn
<1>6. ASSUME NEW d, Starts(h, d)
      PROVE  AnswersGoOn
  <2>1. d \in Call /\ d # IdleCall /\ calls'[h] = d
    BY <1>6 DEF Starts, Call, Points, IdleCall, InductiveInvariant, CallsOK
  <2>2. PICK t : t = Transitioning("confirmIfPaidAndReserved", "saveTransition", o, row, "CONFIRMED")
    OBVIOUS
  <2>3. calls'[h] = IF AwaitsConfirmation(row) THEN t ELSE IdleCall
    BY <1>1, <1>4, <2>2 DEF ConfirmIfPaidAndReserved, AwaitsConfirmation, InductiveInvariant, CallsOK
  <2>4. d = t /\ AwaitsConfirmation(row)
    BY <2>1, <2>3
  <2>5. /\ row \in OrderRow /\ row.pending.from \in RestorableStatuses
        /\ row.status = "PAYMENT_APPROVED" /\ row.stockReserved
    BY <1>3, <1>4, <2>4, RowAt DEF InductiveInvariant, AwaitsConfirmation
  <2>6. /\ row.status \in Statuses /\ CanTransition(row.status, "CONFIRMED") /\ SetsGoing(t, t)
        /\ "confirmIfPaidAndReserved" \in Operations
    BY <2>5 DEF Statuses, CanTransition, ORDER_TRANSITIONS, SetsGoing, Operations
  <2>7. /\ d.op = "confirmIfPaidAndReserved" /\ d.pc = "saveTransition" /\ d.order = o
        /\ d.row.status = "CONFIRMED"
    BY <1>3, <1>4, <2>2, <2>4, <2>5, <2>6, TransitioningFields
  <2>8. "product.inventory.reservation_confirmed" \in sent[o]
    BY <1>3, <1>4, <2>5 DEF ConsumerInvariant, OrderAnswered, AnswersFit
  <2>9. KnowsAnswers(d, row, sent[o])
    BY <2>6, <2>7, <2>8, HandlersDiffer DEF KnowsAnswers, ReturnStatuses
  <2> QED  BY <1>4, <1>6, <2>7, <2>9, StartGoesOn
<1> QED  BY <1>5, <1>6, ConfirmIfPaidAndReservedStarts

(* The awaited calls of an operation, and what interrupts them.            *)
LEMMA StepGoesOn ==
  ASSUME InductiveInvariant, CallsFit, SaleInvariant, SignalsInvariant, MessagingTypeOK,
         ConsumerInvariant, "deleteOrder" \notin Ops, NEW h \in Handlers,
         Step(h) \/ Abort(h) \/ ConversationFailure(h)
  PROVE  AnswersGoOn
<1>1. CASE SaveTransition(h)
  BY <1>1, SaveTransitionCommits, CommitGoesOn
<1>2. CASE MarkStockReserved(h)
  BY <1>2, MarkStockReservedReserves, ReserveGoesOn
<1>3. CASE SaveOrder(h)
  BY <1>3, SaveOrderSaves, SaveGoesOn, MoveGoesOn
<1>4. CASE ConfirmIfPaidAndReserved(h)
  BY <1>4, ConfirmGoesOn
<1>5. CASE DeleteRow(h)
  BY <1>5, DeleteRowDeletes DEF Deletes
<1>6. CASE Abort(h) \/ ConversationFailure(h)
  BY <1>6, FaultsFail, MoveGoesOn
<1>7. CASE \/ PublishCartCreated(h) \/ PublishCartItems(h) \/ PublishCreated(h)
           \/ PublishStatusChanged(h) \/ PublishConfirmed(h) \/ PublishReady(h)
           \/ PublishCancelled(h) \/ PublishReturnRequested(h) \/ PublishReturnConfirmed(h)
  BY <1>7, PlacingAdvances, PublishStatusChangedAdvances, PublishConfirmedAdvances,
     PublishReadyAdvances, PublishCancelledAdvances, PublishRequestAdvances,
     PublishReturnConfirmedAdvances, MoveGoesOn
<1>8. CASE \/ TransitionConflict(h) \/ FindConversation(h) \/ CreateConversation(h)
           \/ FindConversationToClose(h) \/ CloseConversation(h)
           \/ FindConversationToReopen(h) \/ ReopenConversation(h)
           \/ FindConversationForCard(h) \/ ReadCards(h)
           \/ SaveCard(h) \/ TouchConversation(h)
  BY <1>8, TransitionConflictAdvances, FindConversationAdvances, CreateConversationAdvances,
     FindConversationToCloseAdvances, FindConversationToReopenAdvances,
     FindConversationForCardAdvances, ReadCardsAdvances, ChatEditsAdvance, MoveGoesOn
<1> QED  BY <1>1, <1>2, <1>3, <1>4, <1>5, <1>6, <1>7, <1>8 DEF Step
-----------------------------------------------------------------------------
(* The operations that start.                                              *)

(* The call that a transition starts.                                      *)
LEMMA TransitFields ==
  ASSUME InductiveInvariant, NEW h \in Handlers, NEW o \in Orders, NEW op \in Operations,
         NEW to, NEW policy \in RefundPolicies, Transit(h, o, op, to, policy),
         NEW d, d = calls'[h]
  PROVE  /\ d.op = op /\ d.order = o /\ d.pc = "saveTransition" /\ d.row.status = to
         /\ d.expected = orders[o].status /\ orders[o].status \in Statuses
<1>1. PICK row : row = orders[o]
  OBVIOUS
<1>2. PICK t : t = Transitioning(op, "saveTransition", o, row, to)
  OBVIOUS
<1>3. d = [t EXCEPT !.policy = policy]
  BY <1>1, <1>2 DEF Transit, Begin, InductiveInvariant, CallsOK
<1>4. row \in OrderRow /\ row.pending.from \in RestorableStatuses
  BY <1>1, RowAt DEF InductiveInvariant
<1>5. row.status \in Statuses /\ CanTransition(row.status, to)
  BY <1>1 DEF Transit, Enabled, Stored
<1>6. SetsGoing(t, d)
  BY <1>3 DEF SetsGoing
<1> QED  BY <1>1, <1>2, <1>4, <1>5, <1>6, TransitioningFields

(* What such a call has to know.                                           *)
LEMMA TransitionKnows ==
  ASSUME NEW d, NEW row, NEW keys, row.status \in Statuses,
         \A key \in RoutingKeys : d.op = HandlerOf(key) => key \in keys,
         d.pc \in {"saveTransition", "publishCreated", "publishCartCreated"},
         \/ d.row.status \in {"CREATED", "IN_PREPARATION", "READY_FOR_PICKUP", "CANCELLED", "FAILED"}
         \/ d.row.status = "PENDING_PAYMENT" /\ ~row.cash
         \/ d.row.status = "PAYMENT_APPROVED" /\ "financial.payment.processed" \in keys
         \/ d.row.status = "CONFIRMED" /\ "product.inventory.reservation_confirmed" \in keys
         \/ d.row.status = "DELIVERED" /\ "fulfillment.delivery.confirmed" \in keys
  PROVE  KnowsAnswers(d, row, keys)
BY DEF KnowsAnswers, ReturnStatuses

LEMMA StartedCall ==
  ASSUME InductiveInvariant, NEW h \in Handlers, NEW e, Starts(h, e)
  PROVE  /\ e = calls'[h] /\ e \in Call /\ e # IdleCall /\ Leaves(h, e) /\ UNCHANGED orders
         /\ orders[e.order].status \in Statuses /\ e.order \in Orders
BY CallFields DEF Starts, Snapshot, Leaves, Call, Points, IdleCall, InductiveInvariant, CallsOK

(* A request of the vendor or the buyer writes nothing that an answer has  *)
(* to bring about.                                                         *)
LEMMA TransitRequestsGoOn ==
  ASSUME InductiveInvariant, ConsumerInvariant, SaleRunsItsCourse,
         NEW h \in Handlers, NEW o \in Orders, UpdateOrderStatus(h, o) \/ CancelOrder(h, o)
  PROVE  AnswersGoOn
<1>1. PICK d : Starts(h, d)
  BY TransitsStart
<1>2. d = calls'[h]
  BY <1>1, StartedCall
<1>3. {"updateOrderStatus", "cancelOrder"} \subseteq Operations
      /\ {"FULL", "HALF_PRODUCTS_ONLY"} \subseteq RefundPolicies
  BY DEF Operations, RefundPolicies
<1>4. PICK op, to, policy : /\ op \in {"updateOrderStatus", "cancelOrder"}
                            /\ to \in {"IN_PREPARATION", "READY_FOR_PICKUP", "CANCELLED", "FAILED"}
                            /\ policy \in {"FULL", "HALF_PRODUCTS_ONLY"}
                            /\ Transit(h, o, op, to, policy)
  BY DEF UpdateOrderStatus, CancelOrder, SaleRunsItsCourse
<1>5. /\ d.op = op /\ d.order = o /\ d.pc = "saveTransition" /\ d.row.status = to
      /\ orders[o].status \in Statuses
  BY <1>2, <1>3, <1>4, TransitFields
<1>6. KnowsAnswers(d, orders[o], sent[o])
  BY <1>4, <1>5, HandlersDiffer, TransitionKnows
<1> QED  BY <1>1, <1>5, <1>6, StartGoesOn

LEMMA CheckoutGoesOn ==
  ASSUME InductiveInvariant, ConsumerInvariant, NEW h \in Handlers, NEW o \in Orders,
         Checkout(h, o)
  PROVE  AnswersGoOn
<1>1. PICK d : Starts(h, d)
  BY CheckoutStarts
<1>2. d = calls'[h]
  BY <1>1, StartedCall
<1>3. PICK row, to : row = orders[o] /\ to = IF row.cash THEN "CREATED" ELSE "PENDING_PAYMENT"
  OBVIOUS
<1>4. d = Transitioning("checkout", "publishCreated", o, row, to)
  BY <1>2, <1>3 DEF Checkout, Begin, InductiveInvariant, CallsOK
<1>5. /\ row \in OrderRow /\ row.pending.from \in RestorableStatuses /\ row.status = "DRAFT"
      /\ "checkout" \in Operations /\ SetsGoing(d, d)
  BY <1>3, RowAt DEF InductiveInvariant, Checkout, Operations, SetsGoing
<1>6. row.status \in Statuses /\ CanTransition(row.status, to)
  BY <1>3, <1>5 DEF Statuses, CanTransition, ORDER_TRANSITIONS
<1>7. d.op = "checkout" /\ d.order = o /\ d.pc = "publishCreated" /\ d.row.status = to
  BY <1>4, <1>5, <1>6, TransitioningFields
<1>8. KnowsAnswers(d, row, sent[o])
  BY <1>3, <1>6, <1>7, HandlersDiffer, TransitionKnows
<1> QED  BY <1>1, <1>3, <1>7, <1>8, StartGoesOn

(* The snapshot that is to be saved knows the answers of the order.        *)
LEMMA SnapshotGoesOn ==
  ASSUME InductiveInvariant, ConsumerInvariant, NEW h \in Handlers, NEW o \in Orders,
         RateOrder(h, o) \/ RequestReturn(h, o)
  PROVE  AnswersGoOn
<1>1. PICK d : Starts(h, d)
  BY PlainOperationsStart
<1>2. d = calls'[h]
  BY <1>1, StartedCall
<1>3. PICK row : row = orders[o]
  OBVIOUS
<1>4. PICK saved, op : /\ saved = row \/ saved = [row EXCEPT !.rated = TRUE]
                       /\ op \in {"rateOrder", "requestReturn"}
                       /\ d = NewCall(op, "saveOrder", o, saved)
  BY <1>2, <1>3 DEF RateOrder, RequestReturn, Begin, InductiveInvariant, CallsOK
<1>5. row \in OrderRow /\ row.status \in Statuses /\ AnswersFit(row, sent[o])
  BY <1>3, RowAt DEF InductiveInvariant, RateOrder, RequestReturn, Enabled, Stored,
                     ConsumerInvariant, OrderAnswered
<1>6. saved.cash = row.cash /\ saved.stockReserved = row.stockReserved
  BY <1>4, <1>5 DEF OrderRow
<1>7. d.op = op /\ d.order = o /\ d.pc = "saveOrder" /\ d.expected = "none" /\ d.row = saved
  BY <1>4 DEF NewCall
<1>8. \A key \in RoutingKeys : d.op # HandlerOf(key)
  BY <1>4, <1>7, HandlersDiffer
<1>9. KnowsAnswers(d, row, sent[o])
  BY <1>5, <1>6, <1>7, <1>8 DEF KnowsAnswers, AnswersFit
<1> QED  BY <1>1, <1>3, <1>7, <1>9, StartGoesOn

LEMMA CreateGoesOn ==
  ASSUME InductiveInvariant, ConsumerInvariant, NEW h \in Handlers, NEW o \in Orders,
         NEW cash \in BOOLEAN, CreateOrder(h, o, cash) \/ CreateDraft(h, o, cash)
  PROVE  AnswersGoOn
<1>1. PICK d, row : Creates(h, d, row)
  BY CreateStepsCreate
<1>2. /\ calls'[h] = d /\ d \in Call /\ d.order \in Orders /\ Leaves(h, d)
      /\ d.pc = "publishCartCreated"
      /\ d.expected # "none" => d.row.status = "PENDING_PAYMENT"
      /\ UNCHANGED outbox
  BY <1>1, CallFields DEF Creates, Leaves, InductiveInvariant, CallsOK
<1>3. PICK status, op, created : /\ status \in {"DRAFT", "CREATED"}
                                 /\ op \in {"createOrder", "createDraft"}
                                 /\ created = NewOrder(status, cash, op)
                                 /\ orders[o] = NoOrder
                                 /\ orders' = [orders EXCEPT ![o] = created]
                                 /\ \/ calls'[h] = NewCall(op, "publishCartCreated", o, created)
                                    \/ /\ ~cash /\ op = "createOrder" /\ status = "CREATED"
                                       /\ calls'[h] = Transitioning(op, "publishCartCreated", o, created,
                                                                    "PENDING_PAYMENT")
  BY DEF CreateOrder, CreateDraft, Begin, InductiveInvariant, CallsOK
<1>4. AnswersFit(created, sent[o]) /\ RowGoesOn(NoOrder, created) /\ created.cash = cash
  BY <1>3, NewOrderFits DEF ConsumerInvariant, OrderAnswered
<1>5. d.op = op /\ d.order = o /\ (d.expected # "none" => ~cash)
  <2>1. CASE d = NewCall(op, "publishCartCreated", o, created)
    BY <2>1 DEF NewCall
  <2>2. CASE ~cash /\ d = Transitioning(op, "publishCartCreated", o, created, "PENDING_PAYMENT")
    BY <2>2 DEF Transitioning, NewCall
  <2> QED  BY <1>2, <1>3, <2>1, <2>2
<1>6. \A key \in RoutingKeys : d.op # HandlerOf(key)
  BY <1>3, <1>5, HandlersDiffer
<1>7. KnowsAnswers(d, created, sent[o])
  BY <1>2, <1>4, <1>5, <1>6 DEF KnowsAnswers, RowGoesOn, ReturnStatuses
<1>8. \A p \in Orders : orders'[p] = IF p = o THEN created ELSE orders[p]
  BY <1>3 DEF InductiveInvariant, RowsOK
<1> QED  BY <1>2, <1>3, <1>4, <1>5, <1>7, <1>8, GoesOnAt

LEMMA RequestGoesOn ==
  ASSUME InductiveInvariant, ConsumerInvariant, SaleRunsItsCourse,
         NEW h \in Handlers, NEW o \in Orders, HttpRequest(h, o)
  PROVE  AnswersGoOn
<1>1. ~DeleteOrder(h, o)
  BY DEF DeleteOrder, Enabled, SaleRunsItsCourse
<1>2. ~ApproveReturn(h, o) /\ ~RejectReturn(h, o)
  BY DEF ApproveReturn, RejectReturn, ConsumerInvariant, OrderAnswered, AnswersFit, ReturnStatuses
<1> QED
  BY <1>1, <1>2, CreateGoesOn, CheckoutGoesOn, TransitRequestsGoOn, SnapshotGoesOn
  DEF HttpRequest

(* The statuses that the handlers of the messages ask for.                 *)
LEMMA Targets ==
  /\ Target("financial.payment.processed") = "PAYMENT_APPROVED"
  /\ Target("financial.payment.failed") = "FAILED"
  /\ Target("product.inventory.reservation_confirmed") = "CONFIRMED"
  /\ Target("product.inventory.reservation_rejected") = "CANCELLED"
  /\ Target("fulfillment.delivery.confirmed") = "DELIVERED"
  /\ Target("fulfillment.delivery.failed") = "FAILED"
  /\ Target("fulfillment.qr.expired") = "CANCELLED"
BY DEF Target

(* An order that reached the target of a message shows it.                 *)
LEMMA TargetShows ==
  ASSUME NEW key \in RoutingKeys, NEW row, Reached(row, Target(key))
  PROVE  RowShows(row, key)
BY KeyCases, Targets DEF RowShows

(* The operation of a message starts a call that makes the order show it.  *)
LEMMA OperationGoesOn ==
  ASSUME InductiveInvariant, ConsumerInvariant, NEW h \in Handlers, NEW o \in Orders,
         NEW key \in sent[o], key \in RoutingKeys, Operation(h, o, key)
  PROVE  /\ AnswersGoOn /\ UNCHANGED orders
         /\ calls'[h] # IdleCall /\ calls'[h].order = o /\ WillShow(calls'[h], key)
         /\ \A g \in Handlers \ {h} : calls'[g] = calls[g]
<1>1. PICK d : Starts(h, d)
  BY OperationIsMessage, TransitsStart, HandleStockReservationConfirmedStarts DEF Operation
<1>2. d = calls'[h] /\ d # IdleCall /\ d \in Call /\ UNCHANGED orders
  BY <1>1, StartedCall
<1>3. \A g \in Handlers \ {h} : calls'[g] = calls[g]
  BY <1>1 DEF Starts, InductiveInvariant, CallsOK
<1>4. \A k \in RoutingKeys : HandlerOf(key) = HandlerOf(k) => k \in sent[o]
  BY HandlersDiffer
<1>5. CASE \E policy \in RefundPolicies : Transit(h, o, HandlerOf(key), Target(key), policy)
  <2>1. HandlerOf(key) \in Operations
    BY KeyCases, HandlersOfKeys DEF Operations
  <2>2. /\ d.op = HandlerOf(key) /\ d.order = o /\ d.pc = "saveTransition"
        /\ d.row.status = Target(key) /\ orders[o].status \in Statuses
    BY <1>2, <1>5, <2>1, TransitFields
  <2>3. \/ Target(key) \in {"CANCELLED", "FAILED"}
        \/ Target(key) = "PAYMENT_APPROVED" /\ "financial.payment.processed" \in sent[o]
        \/ Target(key) = "CONFIRMED" /\ "product.inventory.reservation_confirmed" \in sent[o]
        \/ Target(key) = "DELIVERED" /\ "fulfillment.delivery.confirmed" \in sent[o]
    BY KeyCases, Targets
  <2>4. KnowsAnswers(d, orders[o], sent[o])
    BY <1>4, <2>2, <2>3, TransitionKnows
  <2>5. WillShow(d, key)
    BY <2>2 DEF WillShow
  <2> QED  BY <1>1, <1>2, <1>3, <2>2, <2>4, <2>5, StartGoesOn
<1>6. CASE /\ key = "product.inventory.reservation_confirmed" /\ orders[o].status \in Statuses
           /\ Begin(h, NewCall("handleStockReservationConfirmed", "markReserved", o, orders[o]))
  <2>1. d = NewCall("handleStockReservationConfirmed", "markReserved", o, orders[o])
    BY <1>2, <1>6 DEF Begin, InductiveInvariant, CallsOK
  <2>2. /\ d.op = HandlerOf(key) /\ d.order = o /\ d.pc = "markReserved" /\ d.expected = "none"
        /\ d.op = "handleStockReservationConfirmed"
    BY <1>6, <2>1, HandlersOfKeys DEF NewCall
  <2>3. KnowsAnswers(d, orders[o], sent[o])
    BY <1>4, <1>6, <2>2 DEF KnowsAnswers
  <2>4. WillShow(d, key)
    BY <1>6, <2>2 DEF WillShow
  <2> QED  BY <1>1, <1>2, <1>3, <2>2, <2>3, <2>4, StartGoesOn
<1>7. {"FULL", "NO_REFUND"} \subseteq RefundPolicies
  BY DEF RefundPolicies
<1> QED
  BY <1>5, <1>6, <1>7, HandlersOfKeys, Targets
  DEF Operation, ApplyPaymentApproved, ApplyPaymentFailed, HandleStockReservationConfirmed,
      HandleStockReservationRejected, MarkDelivered, MarkFailed, HandleQrExpired, Enabled, Stored
-----------------------------------------------------------------------------
(* The invariant of the consumer, step by step.                            *)

LEMMA NothingGoesOn ==
  ASSUME ConsumerInvariant, UNCHANGED vars
  PROVE  AnswersGoOn
BY DEF vars, ConsumerInvariant, OrderAnswered, CallKnows, AnswersGoOn

\* What h holds is as fit after the step.
HoldingKept(h) ==
  \/ calls'[h] = calls[h] /\ consuming'[h] = consuming[h]
  \/ ~Holds(h)'
  \/ HoldingFits(h)'

(* Nothing is sent: the orders go on, what is recorded or missed is shown  *)
(* or missed, and every message in hand still fits.                        *)
LEMMA ConsumerKept ==
  ASSUME MessagingTypeOK, ConsumerInvariant, AnswersGoOn, UNCHANGED sent,
         \A o \in Orders : inbox'[o] \subseteq sent[o],
         \A o \in Orders : missed[o] \subseteq missed'[o],
         \A o \in Orders : \A key \in processed'[o] \ missed'[o] :
           key \in processed[o] \/ RowShows(orders'[o], key),
         \A h \in Handlers : HoldingKept(h)
  PROVE  ConsumerInvariant'
<1>1. ASSUME NEW o \in Orders
      PROVE  OrderAnswered(o)'
  <2>1. ASSUME NEW key \in processed'[o] \ missed'[o]
        PROVE  RowShows(orders'[o], key)
    <3>1. CASE key \in processed[o]
      <4>1. Shows(o, key)
        BY <2>1, <3>1 DEF ConsumerInvariant, OrderAnswered
      <4> QED  BY <4>1, ShowsRow DEF AnswersGoOn
    <3> QED  BY <2>1, <3>1
  <2>2. \A key \in processed'[o] \ missed'[o] : Shows(o, key)'
    BY <2>1 DEF Shows, Released, RowShows
  <2> QED  BY <2>2 DEF AnswersGoOn, OrderAnswered
<1>2. ASSUME NEW h \in Handlers
      PROVE  CallKnows(h)'
  BY DEF AnswersGoOn, CallKnows
<1>3. ASSUME NEW h \in Handlers, Holds(h)'
      PROVE  HoldingFits(h)'
  <2>1. CASE calls'[h] = calls[h] /\ consuming'[h] = consuming[h]
    <3>1. PICK d : d = consuming[h]
      OBVIOUS
    <3>2. Holds(h) /\ HoldingFits(h)
      BY <1>3, <2>1 DEF Holds, ConsumerInvariant
    <3>3. d.order \in Orders
      BY <3>1, <3>2, HeldDelivery
    <3>4. Shows(d.order, d.key) => Shows(d.order, d.key)'
      <4>1. Shows(d.order, d.key) => RowShows(orders'[d.order], d.key)
        BY <3>3, ShowsRow DEF AnswersGoOn
      <4> QED  BY <4>1 DEF Shows, Released, RowShows
    <3> QED  BY <2>1, <3>1, <3>2, <3>3, <3>4 DEF HoldingFits
  <2>2. CASE HoldingFits(h)'
    BY <2>2
  <2> QED  BY <1>3, <2>1, <2>2 DEF HoldingKept
<1> QED  BY <1>1, <1>2, <1>3 DEF ConsumerInvariant

LEMMA SendKeeps ==
  ASSUME InductiveInvariant, OnceWithoutDeletion, MessagingTypeOK, ConsumerInvariant,
         NEW o \in Orders, NEW key \in RoutingKeys, Send(o, key)
  PROVE  ConsumerInvariant'
<1>1. /\ UNCHANGED <<orders, calls, outbox>> /\ UNCHANGED <<processed, consuming, missed>>
      /\ \A p \in Orders : /\ sent'[p] = IF p = o THEN sent[p] \cup {key} ELSE sent[p]
                           /\ inbox'[p] = IF p = o THEN inbox[p] \cup {key} ELSE inbox[p]
  BY DEF Send, vars, MessagingTypeOK
<1>2. AnswersFit(orders[o], sent[o] \cup {key})
  BY SendFits DEF Send, MessagingTypeOK, ConsumerInvariant
<1>3. \A p, k : Shows(p, k)' <=> Shows(p, k)
  BY <1>1 DEF Shows, Released, Reached
<1>4. ASSUME NEW p \in Orders
      PROVE  OrderAnswered(p)'
  <2>1. OrderAnswered(p)
    BY DEF ConsumerInvariant
  <2>2. AnswersFit(orders'[p], sent'[p]) /\ inbox'[p] \subseteq sent'[p]
    BY <1>1, <1>2, <2>1 DEF OrderAnswered
  <2>3. \A k \in processed'[p] \ missed'[p] : Shows(p, k)'
    BY <1>1, <1>3, <2>1 DEF OrderAnswered
  <2>4. orders'[p].status # "deleted" /\ (orders'[p].status = "none" => outbox'[p] = <<>>)
    BY <1>1, <2>1 DEF OrderAnswered
  <2> QED  BY <2>2, <2>3, <2>4 DEF OrderAnswered
<1>5. ASSUME NEW h \in Handlers
      PROVE  CallKnows(h)'
  <2>1. PICK c : c = calls[h]
    OBVIOUS
  <2>2. CASE c # IdleCall
    <3>1. c.order \in Orders /\ KnowsAnswers(c, orders[c.order], sent[c.order])
      BY <2>1, <2>2, CallFields DEF InductiveInvariant, CallsOK, ConsumerInvariant, CallKnows
    <3>2. sent[c.order] \subseteq sent'[c.order]
      BY <1>1, <3>1
    <3>3. \A keys : sent[c.order] \subseteq keys => KnowsAnswers(c, orders[c.order], keys)
      BY <3>1 DEF KnowsAnswers
    <3> QED  BY <1>1, <2>1, <3>2, <3>3 DEF CallKnows
  <2>3. CASE c = IdleCall
    BY <1>1, <2>1, <2>3 DEF CallKnows
  <2> QED  BY <2>2, <2>3
<1>6. ASSUME NEW h \in Handlers, Holds(h)'
      PROVE  HoldingFits(h)'
  <2>1. Holds(h) /\ HoldingFits(h)
    BY <1>1, <1>6 DEF Holds, ConsumerInvariant
  <2>2. consuming[h].order \in Orders
    BY <2>1, HeldDelivery
  <2> QED  BY <1>1, <1>3, <2>1, <2>2 DEF HoldingFits
<1> QED  BY <1>4, <1>5, <1>6 DEF ConsumerInvariant

LEMMA BusKeeps ==
  ASSUME MessagingTypeOK, ConsumerInvariant, NEW o \in Orders, NEW key \in RoutingKeys,
         DeliverAgain(o, key) \/ Skip(o, key)
  PROVE  ConsumerInvariant'
<1>1. UNCHANGED vars /\ UNCHANGED <<sent, processed, consuming, missed>> /\ UNCHANGED calls
  BY DEF DeliverAgain, Skip, vars
<1>2. \A p \in Orders : inbox'[p] \subseteq sent[p]
  BY DEF DeliverAgain, Skip, MessagingTypeOK, ConsumerInvariant, OrderAnswered
<1>3. \A h \in Handlers : HoldingKept(h)
  BY <1>1 DEF HoldingKept
<1> QED  BY <1>1, <1>2, <1>3, NothingGoesOn, ConsumerKept

LEMMA ReceiveKeeps ==
  ASSUME MessagingTypeOK, ConsumerInvariant, NEW h \in Handlers, NEW o \in Orders,
         NEW key \in RoutingKeys, Receive(h, o, key)
  PROVE  ConsumerInvariant'
<1>1. UNCHANGED vars /\ UNCHANGED <<sent, processed, missed>> /\ UNCHANGED calls
  BY DEF Receive, vars
<1>2. \A p \in Orders : inbox'[p] \subseteq sent[p]
  BY DEF Receive, MessagingTypeOK, ConsumerInvariant, OrderAnswered
<1>3. \A g \in Handlers \ {h} : HoldingKept(g)
  BY <1>1 DEF Receive, MessagingTypeOK, HoldingKept
<1>4. HoldingFits(h)'
  <2>1. /\ consuming'[h] = [order |-> o, key |-> key, at |-> "dispatch"]
        /\ key \in sent[o] /\ calls'[h] = IdleCall
    BY <1>1 DEF Receive, MessagingTypeOK, ConsumerInvariant, OrderAnswered
  <2> QED  BY <1>1, <2>1 DEF HoldingFits
<1> QED  BY <1>1, <1>2, <1>3, <1>4, NothingGoesOn, ConsumerKept DEF HoldingKept

(* The step of a call that is about to write: what it may be.              *)
LEMMA WritingSteps ==
  ASSUME NEW h \in Handlers, Step(h)
  PROVE  /\ At(h, "saveTransition") => SaveTransition(h) \/ TransitionConflict(h)
         /\ At(h, "markReserved") => MarkStockReserved(h)
<1>1. CASE SaveTransition(h) \/ TransitionConflict(h) \/ MarkStockReserved(h)
  BY <1>1 DEF SaveTransition, TransitionConflict, MarkStockReserved, At
<1>2. CASE \/ PublishCartCreated(h) \/ PublishCartItems(h) \/ PublishCreated(h)
           \/ PublishStatusChanged(h) \/ PublishConfirmed(h) \/ PublishReady(h)
           \/ PublishCancelled(h) \/ PublishReturnRequested(h) \/ PublishReturnConfirmed(h)
  BY <1>2 DEF PublishCartCreated, PublishCartItems, PublishCreated, PublishStatusChanged,
              PublishConfirmed, PublishReady, PublishCancelled, PublishReturnRequested,
              PublishReturnConfirmed, At
<1>3. CASE ConfirmIfPaidAndReserved(h) \/ SaveOrder(h) \/ DeleteRow(h)
  BY <1>3 DEF ConfirmIfPaidAndReserved, SaveOrder, DeleteRow, At
<1>4. CASE \/ FindConversation(h) \/ CreateConversation(h)
           \/ FindConversationToClose(h) \/ CloseConversation(h)
           \/ FindConversationToReopen(h) \/ ReopenConversation(h)
           \/ FindConversationForCard(h) \/ ReadCards(h)
           \/ SaveCard(h) \/ TouchConversation(h)
  BY <1>4 DEF FindConversation, CreateConversation, FindConversationToClose, CloseConversation,
              FindConversationToReopen, ReopenConversation, FindConversationForCard, ReadCards,
              SaveCard, TouchConversation, At
<1> QED  BY <1>1, <1>2, <1>3, <1>4 DEF Step

(* The order shows the answer once the write has succeeded.                *)
LEMMA WriteShows ==
  ASSUME InductiveInvariant, CallsFit, ConsumerInvariant, NEW h \in Handlers,
         NEW c, c = calls[h], c \in Call, NEW key \in RoutingKeys, WillShow(c, key),
         Step(h), ~(At(h, "saveTransition") /\ calls'[h] = IdleCall)
  PROVE  RowShows(orders'[c.order], key)
<1>1. PICK o : o = c.order
  OBVIOUS
<1>2. o \in Orders /\ orders[o].status \in Statuses
  BY <1>1, CallInHand
<1>3. PICK old : old = orders[o]
  OBVIOUS
<1>4. old \in OrderRow /\ orders \in [Orders -> OrderRow]
  BY <1>2, <1>3, RowAt DEF InductiveInvariant, RowsOK
<1>5. CASE c.pc = "saveTransition"
  <2>1. ~TransitionConflict(h)
    BY <1>5 DEF TransitionConflict, Finish, At, InductiveInvariant, CallsOK
  <2>2. SaveTransition(h)
    BY <1>5, <2>1, WritingSteps DEF At
  <2>3. PICK d, row : Commits(h, d, row)
    BY <2>2, SaveTransitionCommits
  <2>4. PICK e : e = LastEntry(c.row)
    OBVIOUS
  <2>5. /\ row.history = Append(old.history, e) /\ e \in HistoryEntry
        /\ orders'[o] = row /\ CarriesTransition(c)
    BY <1>1, <1>2, <1>3, <1>4, <2>3, <2>4 DEF Commits
  <2>6. e.to = Target(key)
    BY <1>5, <2>4, <2>5 DEF CarriesTransition, WillShow
  <2>7. Reached(row, Target(key))
    BY <1>4, <2>5, <2>6, ReachedMore
  <2> QED  BY <1>1, <2>5, <2>7, TargetShows
<1>6. CASE c.pc = "markReserved"
  <2>1. MarkStockReserved(h) /\ key = "product.inventory.reservation_confirmed"
    BY <1>6, WritingSteps DEF At, WillShow
  <2>2. orders' = [orders EXCEPT ![o].stockReserved = Stored(o) \/ @] /\ Stored(o)
    BY <1>1, <1>2, <2>1 DEF MarkStockReserved, Stored
  <2>3. orders'[o] = [old EXCEPT !.stockReserved = TRUE]
    BY <1>2, <1>3, <1>4, <2>2
  <2>4. orders'[o].stockReserved
    BY <1>4, <2>3 DEF OrderRow
  <2> QED  BY <1>1, <2>1, <2>4 DEF RowShows
<1> QED  BY <1>5, <1>6 DEF WillShow

(* A message begins its operation.                                         *)
LEMMA DispatchKeeps ==
  ASSUME InductiveInvariant, MessagingTypeOK, ConsumerInvariant, NEW h \in Handlers, Dispatch(h)
  PROVE  ConsumerInvariant'
<1>1. PICK o, key : o = consuming[h].order /\ key = consuming[h].key
  OBVIOUS
<1>2. Holds(h)
  BY BusyHolds DEF Dispatch
<1>3. o \in Orders /\ key \in RoutingKeys /\ key \in sent[o]
  BY <1>1, <1>2, HeldDelivery DEF ConsumerInvariant, HoldingFits
<1>4. Operation(h, o, key)
  BY <1>1 DEF Dispatch
<1>5. /\ AnswersGoOn /\ UNCHANGED orders
      /\ calls'[h] # IdleCall /\ calls'[h].order = o /\ WillShow(calls'[h], key)
      /\ \A g \in Handlers \ {h} : calls'[g] = calls[g]
  BY <1>3, <1>4, OperationGoesOn
<1>6. /\ UNCHANGED <<sent, inbox, processed, missed>>
      /\ consuming' = [consuming EXCEPT ![h].at = "handler"]
      /\ consuming \in [Handlers -> Delivery \cup {Nothing}]
  BY DEF Dispatch, MessagingTypeOK
<1>7. \A g \in Handlers \ {h} : HoldingKept(g)
  BY <1>5, <1>6 DEF HoldingKept
<1>8. HoldingFits(h)'
  <2>1. consuming'[h].order = o /\ consuming'[h].key = key /\ consuming'[h].at = "handler"
    BY <1>1, <1>2, <1>6, HeldDelivery DEF Delivery
  <2> QED  BY <1>3, <1>5, <1>6, <2>1 DEF HoldingFits
<1>9. \A p \in Orders : inbox'[p] \subseteq sent[p]
  BY <1>6 DEF ConsumerInvariant, OrderAnswered
<1> QED  BY <1>5, <1>6, <1>7, <1>8, <1>9, ConsumerKept DEF HoldingKept

(* A message that its handler ignores came too early, or is moot.          *)
LEMMA IgnoreKeeps ==
  ASSUME InductiveInvariant, SaleInvariant, MessagingTypeOK, ConsumerInvariant,
         NEW h \in Handlers, Ignore(h)
  PROVE  ConsumerInvariant'
<1>1. PICK o, key : o = consuming[h].order /\ key = consuming[h].key
  OBVIOUS
<1>2. Holds(h)
  BY BusyHolds DEF Ignore
<1>3. /\ o \in Orders /\ key \in RoutingKeys /\ key \in sent[o] /\ calls[h] = IdleCall
      /\ OrderAnswered(o) /\ consuming[h] \in Delivery
  BY <1>1, <1>2, HeldDelivery DEF ConsumerInvariant, HoldingFits, Ignore
<1>4. /\ UNCHANGED vars /\ UNCHANGED calls /\ UNCHANGED <<sent, inbox, processed>>
      /\ UNCHANGED orders
      /\ consuming' = [consuming EXCEPT ![h].at = "save"] /\ ~Accepts(o, key)
      /\ missed' = IF orders[o].status \in {"DRAFT", "CREATED"}
                   THEN [missed EXCEPT ![o] = @ \cup {key}] ELSE missed
      /\ consuming \in [Handlers -> Delivery \cup {Nothing}]
      /\ sent \in [Orders -> SUBSET RoutingKeys] /\ missed \in [Orders -> SUBSET RoutingKeys]
  BY <1>1 DEF Ignore, vars, MessagingTypeOK
<1>5. \A p \in Orders : missed[p] \subseteq missed'[p]
  BY <1>4
<1>6. key \in missed'[o] \/ Shows(o, key)
  <2>1. CASE orders[o].status \in {"DRAFT", "CREATED"}
    BY <1>3, <1>4, <2>1
  <2>2. CASE orders[o].status \notin {"DRAFT", "CREATED"}
    <3>1. PICK row, keys : row = orders[o] /\ keys = sent[o]
      OBVIOUS
    <3>2. /\ row \in OrderRow /\ (row.status \in Statuses => LegalStory(row)) /\ RowSold(row)
          /\ keys \in SUBSET RoutingKeys /\ AnswersFit(row, keys) /\ key \in keys
      BY <1>3, <1>4, <3>1, RowAt DEF InductiveInvariant, SaleInvariant, SaleStory, OrderAnswered
    <3>3. RowShows(row, key)
      BY <1>3, <1>4, <2>2, <3>1, <3>2, IgnoredShows
    <3> QED  BY <3>1, <3>3, ShowsRow
  <2> QED  BY <2>1, <2>2
<1>7. \A g \in Handlers \ {h} : HoldingKept(g)
  BY <1>4 DEF HoldingKept
<1>8. HoldingFits(h)'
  <2>1. consuming'[h].order = o /\ consuming'[h].key = key /\ consuming'[h].at = "save"
    BY <1>1, <1>3, <1>4 DEF Delivery
  <2>2. Shows(o, key) => Shows(o, key)'
    BY <1>4 DEF Shows, Released
  <2> QED  BY <1>3, <1>4, <1>6, <2>1, <2>2 DEF HoldingFits
<1>9. \A p \in Orders : inbox'[p] \subseteq sent[p]
  BY <1>4 DEF ConsumerInvariant, OrderAnswered
<1>10. AnswersGoOn
  BY <1>4, NothingGoesOn
<1> QED  BY <1>4, <1>5, <1>7, <1>8, <1>9, <1>10, ConsumerKept DEF HoldingKept

(* The step of a call leaves the other calls alone.                        *)
LEMMA CallsApart ==
  ASSUME InductiveInvariant, CallsFit, NEW h \in Handlers,
         Step(h) \/ Abort(h) \/ ConversationFailure(h)
  PROVE  /\ \A g \in Handlers \ {h} : calls'[g] = calls[g]
         /\ calls[h] # IdleCall /\ calls'[h] # IdleCall => calls'[h].order = calls[h].order
<1>1. HandlerSteps(h)
  BY AwaitedSteps, FaultsFail DEF HandlerSteps
<1>2. PICK d : Leaves(h, d)
  BY <1>1, StepLeaves
<1> QED  BY <1>2 DEF Leaves, InductiveInvariant, CallsOK

(* What the operation of a message in hand has shown or is about to show.  *)
LEMMA HeldCall ==
  ASSUME InductiveInvariant, MessagingTypeOK, ConsumerInvariant, NEW h \in Handlers,
         consuming[h].at = "handler", NEW o, o = consuming[h].order,
         NEW key, key = consuming[h].key, NEW c, c = calls[h]
  PROVE  /\ o \in Orders /\ key \in RoutingKeys /\ key \in sent[o]
         /\ c \in Call /\ c # IdleCall /\ c.order = o /\ consuming[h] \in Delivery
         /\ RowShows(orders[o], key) \/ WillShow(c, key)
<1>1. Holds(h)
  BY BusyHolds
<1>2. o \in Orders /\ key \in RoutingKeys /\ consuming[h] \in Delivery
  BY <1>1, HeldDelivery
<1>3. key \in sent[o] /\ c # IdleCall /\ c.order = o /\ (Shows(o, key) \/ WillShow(c, key))
  BY <1>1 DEF ConsumerInvariant, HoldingFits
<1>4. c \in Call
  BY <1>3 DEF InductiveInvariant, CallsOK
<1> QED  BY <1>2, <1>3, <1>4, ShowsRow

LEMMA HandlerStepKeeps ==
  ASSUME InductiveInvariant, CallsFit, SaleInvariant, SignalsInvariant, MessagingTypeOK,
         ConsumerInvariant, "deleteOrder" \notin Ops, NEW h \in Handlers, HandlerStep(h)
  PROVE  ConsumerInvariant'
<1>1. PICK o, key, c : o = consuming[h].order /\ key = consuming[h].key /\ c = calls[h]
  OBVIOUS
<1>2. consuming[h].at = "handler" /\ Step(h) /\ ~(At(h, "saveTransition") /\ calls'[h] = IdleCall)
  BY DEF HandlerStep
<1>3. /\ o \in Orders /\ key \in RoutingKeys /\ key \in sent[o]
      /\ c \in Call /\ c # IdleCall /\ c.order = o /\ consuming[h] \in Delivery
      /\ RowShows(orders[o], key) \/ WillShow(c, key)
  BY <1>1, <1>2, HeldCall
<1>4. AnswersGoOn
  BY <1>2, StepGoesOn
<1>5. /\ \A g \in Handlers \ {h} : calls'[g] = calls[g]
      /\ calls'[h] # IdleCall => calls'[h].order = o
  BY <1>1, <1>2, <1>3, CallsApart
<1>6. RowShows(orders'[o], key)
  <2>1. CASE RowShows(orders[o], key)
    BY <1>3, <1>4, <2>1 DEF AnswersGoOn
  <2>2. CASE WillShow(c, key)
    BY <1>1, <1>2, <1>3, <2>2, WriteShows
  <2> QED  BY <1>3, <2>1, <2>2
<1>7. PICK at : at = IF calls'[h] = IdleCall THEN "save" ELSE "handler"
  OBVIOUS
<1>8. /\ consuming' = [consuming EXCEPT ![h].at = at]
      /\ UNCHANGED <<sent, inbox, processed, missed>>
      /\ consuming \in [Handlers -> Delivery \cup {Nothing}]
  BY <1>7 DEF HandlerStep, MessagingTypeOK
<1>9. \A g \in Handlers \ {h} : HoldingKept(g)
  BY <1>5, <1>8 DEF HoldingKept
<1>10. HoldingFits(h)'
  <2>1. consuming'[h].order = o /\ consuming'[h].key = key /\ consuming'[h].at = at
    BY <1>1, <1>3, <1>8 DEF Delivery
  <2>2. Shows(o, key)'
    BY <1>6 DEF Shows, Released, RowShows
  <2> QED  BY <1>3, <1>5, <1>7, <1>8, <2>1, <2>2 DEF HoldingFits
<1>11. \A p \in Orders : inbox'[p] \subseteq sent[p]
  BY <1>8 DEF ConsumerInvariant, OrderAnswered
<1> QED  BY <1>4, <1>8, <1>9, <1>10, <1>11, ConsumerKept DEF HoldingKept

(* A conflict that confirmIfPaidAndReserved swallows comes after the       *)
(* answer was written; any other loses the message, and is counted.        *)
LEMMA HandlerConflictKeeps ==
  ASSUME InductiveInvariant, CallsFit, SaleInvariant, SignalsInvariant, MessagingTypeOK,
         ConsumerInvariant, "deleteOrder" \notin Ops, NEW h \in Handlers, HandlerConflict(h)
  PROVE  ConsumerInvariant'
<1>1. PICK o, key, c : o = consuming[h].order /\ key = consuming[h].key /\ c = calls[h]
  OBVIOUS
<1>2. consuming[h].at = "handler" /\ TransitionConflict(h) /\ Step(h)
  BY DEF HandlerConflict, Step
<1>3. /\ o \in Orders /\ key \in RoutingKeys /\ key \in sent[o]
      /\ c \in Call /\ c # IdleCall /\ c.order = o /\ consuming[h] \in Delivery
      /\ RowShows(orders[o], key) \/ WillShow(c, key)
  BY <1>1, <1>2, HeldCall
<1>4. AnswersGoOn
  BY <1>2, StepGoesOn
<1>5. \A g \in Handlers \ {h} : calls'[g] = calls[g]
  BY <1>2, CallsApart
<1>6. calls'[h] = IdleCall
  BY <1>2 DEF TransitionConflict, Finish, InductiveInvariant, CallsOK
<1>7. /\ UNCHANGED <<sent, inbox, processed>>
      /\ consuming \in [Handlers -> Delivery \cup {Nothing}]
      /\ missed \in [Orders -> SUBSET RoutingKeys]
      /\ \/ /\ c.op = "confirmIfPaidAndReserved"
            /\ consuming' = [consuming EXCEPT ![h].at = "save"]
            /\ UNCHANGED missed
         \/ /\ consuming' = [consuming EXCEPT ![h] = Nothing]
            /\ missed' = [missed EXCEPT ![o] = @ \cup {key}]
  BY <1>1 DEF HandlerConflict, MessagingTypeOK
<1>8. \A p \in Orders : missed[p] \subseteq missed'[p] /\ inbox'[p] \subseteq sent[p]
  BY <1>7 DEF ConsumerInvariant, OrderAnswered
<1>9. \A g \in Handlers \ {h} : HoldingKept(g)
  BY <1>5, <1>7 DEF HoldingKept
<1>10. HoldingKept(h)
  <2>1. CASE consuming' = [consuming EXCEPT ![h] = Nothing]
    BY <1>7, <2>1 DEF HoldingKept, Holds
  <2>2. CASE /\ c.op = "confirmIfPaidAndReserved"
             /\ consuming' = [consuming EXCEPT ![h].at = "save"]
    <3>1. RowShows(orders'[o], key)
      BY <1>3, <1>4, <2>2, HandlersDiffer DEF WillShow, AnswersGoOn
    <3>2. consuming'[h].order = o /\ consuming'[h].key = key /\ consuming'[h].at = "save"
      BY <1>1, <1>3, <1>7, <2>2 DEF Delivery
    <3>3. Shows(o, key)'
      BY <3>1 DEF Shows, Released, RowShows
    <3> QED  BY <1>3, <1>6, <1>7, <3>2, <3>3 DEF HoldingKept, HoldingFits
  <2> QED  BY <1>7, <2>1, <2>2
<1> QED  BY <1>4, <1>7, <1>8, <1>9, <1>10, ConsumerKept

(* What is recorded is shown, or was missed.                               *)
LEMMA RecordKeeps ==
  ASSUME MessagingTypeOK, ConsumerInvariant, NEW h \in Handlers, Record(h)
  PROVE  ConsumerInvariant'
<1>1. PICK o, key : o = consuming[h].order /\ key = consuming[h].key
  OBVIOUS
<1>2. o \in Orders /\ (Shows(o, key) \/ key \in missed[o])
  BY <1>1, BusyHolds, HeldDelivery DEF Record, ConsumerInvariant, HoldingFits
<1>3. /\ UNCHANGED vars /\ UNCHANGED calls /\ UNCHANGED orders
      /\ UNCHANGED <<sent, inbox, missed>>
      /\ consuming' = [consuming EXCEPT ![h] = Nothing]
      /\ processed' = [processed EXCEPT ![o] = @ \cup {key}]
      /\ consuming \in [Handlers -> Delivery \cup {Nothing}]
      /\ processed \in [Orders -> SUBSET RoutingKeys]
  BY <1>1 DEF Record, vars, MessagingTypeOK
<1>4. ASSUME NEW p \in Orders, NEW k \in processed'[p] \ missed'[p]
      PROVE  k \in processed[p] \/ RowShows(orders'[p], k)
  <2>1. k \in processed[p] \/ (p = o /\ k = key)
    BY <1>3
  <2>2. p = o /\ k = key => RowShows(orders'[p], k)
    BY <1>2, <1>3, ShowsRow
  <2> QED  BY <2>1, <2>2
<1>5. \A g \in Handlers : HoldingKept(g)
  BY <1>3 DEF HoldingKept, Holds
<1>6. \A p \in Orders : inbox'[p] \subseteq sent[p] /\ missed[p] \subseteq missed'[p]
  BY <1>3 DEF ConsumerInvariant, OrderAnswered
<1>7. AnswersGoOn
  BY <1>3, NothingGoesOn
<1> QED  BY <1>3, <1>4, <1>5, <1>6, <1>7, ConsumerKept

(* A call that is lost: its message is gone and counted, or comes again.   *)
LEMMA LostCallKeeps ==
  ASSUME InductiveInvariant, CallsFit, SaleInvariant, SignalsInvariant, MessagingTypeOK,
         ConsumerInvariant, "deleteOrder" \notin Ops, NEW h \in Handlers,
         HandlerFails(h) \/ Crash(h)
  PROVE  ConsumerInvariant'
<1>1. PICK o, key : o = consuming[h].order /\ key = consuming[h].key
  OBVIOUS
<1>2. consuming[h].at = "handler" /\ Abort(h)
  BY DEF HandlerFails, Crash
<1>3. o \in Orders /\ key \in sent[o]
  BY <1>1, <1>2, HeldCall
<1>4. AnswersGoOn
  BY <1>2, StepGoesOn
<1>5. \A g \in Handlers \ {h} : calls'[g] = calls[g]
  BY <1>2, CallsApart
<1>6. /\ UNCHANGED <<sent, processed>>
      /\ consuming' = [consuming EXCEPT ![h] = Nothing]
      /\ consuming \in [Handlers -> Delivery \cup {Nothing}]
      /\ missed \in [Orders -> SUBSET RoutingKeys] /\ inbox \in [Orders -> SUBSET RoutingKeys]
      /\ \/ UNCHANGED inbox /\ missed' = [missed EXCEPT ![o] = @ \cup {key}]
         \/ UNCHANGED missed /\ inbox' = [inbox EXCEPT ![o] = @ \cup {key}]
  BY <1>1 DEF HandlerFails, Crash, MessagingTypeOK
<1>7. \A p \in Orders : inbox[p] \subseteq sent[p]
  BY DEF ConsumerInvariant, OrderAnswered
<1>8. \A p \in Orders : inbox'[p] \subseteq sent[p] /\ missed[p] \subseteq missed'[p]
  BY <1>3, <1>6, <1>7
<1>9. \A g \in Handlers : HoldingKept(g)
  BY <1>5, <1>6 DEF HoldingKept, Holds
<1> QED  BY <1>4, <1>6, <1>8, <1>9, ConsumerKept

LEMMA CrashBeforeRecordKeeps ==
  ASSUME MessagingTypeOK, ConsumerInvariant, NEW h \in Handlers, CrashBeforeRecord(h)
  PROVE  ConsumerInvariant'
<1>1. PICK o, key : o = consuming[h].order /\ key = consuming[h].key
  OBVIOUS
<1>2. o \in Orders /\ key \in sent[o]
  BY <1>1, BusyHolds, HeldDelivery DEF CrashBeforeRecord, ConsumerInvariant, HoldingFits
<1>3. /\ UNCHANGED vars /\ UNCHANGED calls /\ UNCHANGED <<sent, processed, missed>>
      /\ consuming' = [consuming EXCEPT ![h] = Nothing]
      /\ inbox' = [inbox EXCEPT ![o] = @ \cup {key}]
      /\ consuming \in [Handlers -> Delivery \cup {Nothing}]
      /\ inbox \in [Orders -> SUBSET RoutingKeys]
  BY <1>1 DEF CrashBeforeRecord, vars, MessagingTypeOK
<1>4. \A p \in Orders : inbox[p] \subseteq sent[p]
  BY DEF ConsumerInvariant, OrderAnswered
<1>5. \A p \in Orders : inbox'[p] \subseteq sent[p] /\ missed[p] \subseteq missed'[p]
  BY <1>2, <1>3, <1>4
<1>6. \A g \in Handlers : HoldingKept(g)
  BY <1>3 DEF HoldingKept, Holds
<1>7. AnswersGoOn
  BY <1>3, NothingGoesOn
<1> QED  BY <1>3, <1>5, <1>6, <1>7, ConsumerKept

(* A request, or what is left of one: no message is in hand.               *)
LEMMA ServeKeeps ==
  ASSUME InductiveInvariant, CallsFit, SaleInvariant, SignalsInvariant, MessagingTypeOK,
         ConsumerInvariant, SaleRunsItsCourse, NEW h \in Handlers, Serve(h) \/ ServeStep(h)
  PROVE  ConsumerInvariant'
<1>1. ~Holds(h) /\ UNCHANGED <<sent, inbox, processed, consuming, missed>>
  BY DEF Serve, ServeStep, messagingVars
<1>2. AnswersGoOn /\ \A g \in Handlers \ {h} : calls'[g] = calls[g]
  <2>1. CASE Step(h) \/ Abort(h)
    BY <2>1, StepGoesOn, CallsApart DEF SaleRunsItsCourse
  <2>2. ASSUME NEW o \in Orders, HttpRequest(h, o)
        PROVE  AnswersGoOn /\ \A g \in Handlers \ {h} : calls'[g] = calls[g]
    <3>1. HandlerSteps(h)
      BY <2>2, CreateStepsCreate, CheckoutStarts, TransitsStart, PlainOperationsStart,
         DecideReturnStarts
      DEF HttpRequest, HandlerSteps
    <3>2. PICK d : Leaves(h, d)
      BY <3>1, StepLeaves
    <3>3. \A g \in Handlers \ {h} : calls'[g] = calls[g]
      BY <3>2 DEF Leaves, InductiveInvariant, CallsOK
    <3> QED  BY <2>2, <3>3, RequestGoesOn
  <2> QED  BY <2>1, <2>2 DEF Serve, ServeStep
<1>3. \A g \in Handlers : HoldingKept(g)
  BY <1>1, <1>2 DEF HoldingKept, Holds
<1>4. \A p \in Orders : inbox'[p] \subseteq sent[p]
  BY <1>1 DEF ConsumerInvariant, OrderAnswered
<1> QED  BY <1>1, <1>2, <1>3, <1>4, ConsumerKept

(* The chat fails: the answer of a message in hand is already written.     *)
LEMMA ChatFailsKeeps ==
  ASSUME InductiveInvariant, CallsFit, SaleInvariant, SignalsInvariant, MessagingTypeOK,
         ConsumerInvariant, "deleteOrder" \notin Ops, NEW h \in Handlers, ChatFails(h)
  PROVE  ConsumerInvariant'
<1>1. /\ ConversationFailure(h) /\ UNCHANGED <<sent, inbox, processed, missed>>
      /\ consuming' = IF Holds(h) /\ calls'[h] = IdleCall
                      THEN [consuming EXCEPT ![h].at = "save"] ELSE consuming
      /\ consuming \in [Handlers -> Delivery \cup {Nothing}]
  BY DEF ChatFails, MessagingTypeOK
<1>2. AnswersGoOn
  BY <1>1, StepGoesOn
<1>3. PICK o, key, c : o = consuming[h].order /\ key = consuming[h].key /\ c = calls[h]
  OBVIOUS
<1>4. c.pc \in {"findChat", "createChat"} /\ c # IdleCall
  BY <1>1, <1>3, IdleOwesNothing DEF ConversationFailure, At
<1>5. /\ \A g \in Handlers \ {h} : calls'[g] = calls[g]
      /\ calls'[h] # IdleCall => calls'[h].order = c.order
  BY <1>1, <1>3, <1>4, CallsApart
<1>6. \A g \in Handlers \ {h} : HoldingKept(g)
  BY <1>1, <1>5 DEF HoldingKept
<1>7. ASSUME Holds(h)
      PROVE  HoldingFits(h)'
  <2>1. consuming[h].at = "handler"
    BY <1>3, <1>4, <1>7 DEF ConsumerInvariant, HoldingFits
  <2>2. /\ o \in Orders /\ key \in RoutingKeys /\ key \in sent[o]
        /\ c.order = o /\ consuming[h] \in Delivery
        /\ RowShows(orders[o], key) \/ WillShow(c, key)
    BY <1>3, <2>1, HeldCall
  <2>3. RowShows(orders'[o], key)
    BY <1>2, <1>4, <2>2 DEF AnswersGoOn, WillShow
  <2>4. Shows(o, key)'
    BY <2>3 DEF Shows, Released, RowShows
  <2>5. /\ consuming'[h].order = o /\ consuming'[h].key = key
        /\ consuming'[h].at = IF calls'[h] = IdleCall THEN "save" ELSE "handler"
    BY <1>1, <1>3, <1>7, <2>1, <2>2 DEF Delivery
  <2> QED  BY <1>1, <1>5, <2>2, <2>4, <2>5 DEF HoldingFits
<1>8. HoldingKept(h)
  BY <1>1, <1>7 DEF HoldingKept, Holds
<1>9. \A p \in Orders : inbox'[p] \subseteq sent[p]
  BY <1>1 DEF ConsumerInvariant, OrderAnswered
<1> QED  BY <1>1, <1>2, <1>6, <1>8, <1>9, ConsumerKept

LEMMA ConsumerInitially ==
  MessagingInit => ConsumerInvariant
<1> SUFFICES ASSUME MessagingInit  PROVE ConsumerInvariant
  OBVIOUS
<1>1. ASSUME NEW o \in Orders
      PROVE  OrderAnswered(o)
  <2>1. PICK start \in StartStates : orders[o] = start.row /\ outbox[o] = start.outbox
    BY DEF MessagingInit, Init
  <2>2. start.row.status # "deleted" /\ AnsweredStart(start)
    BY <2>1, StartSettled, StartAnswered DEF SettledStart
  <2>3. sent[o] = AnsweredBefore(start.row) /\ processed[o] = sent[o] /\ inbox[o] = {}
    BY <2>1 DEF MessagingInit
  <2>4. \A key \in processed[o] : Shows(o, key)
    BY <2>1, <2>2, <2>3, ShowsRow DEF AnsweredStart
  <2> QED  BY <2>1, <2>2, <2>3, <2>4 DEF OrderAnswered, AnsweredStart
<1>2. \A h \in Handlers : calls[h] = IdleCall /\ consuming[h] = Nothing
  BY DEF MessagingInit, Init
<1> QED  BY <1>1, <1>2 DEF ConsumerInvariant, CallKnows, Holds

LEMMA ConsumerIsKept ==
  ASSUME SaleRunsItsCourse, InductiveInvariant, CallsFit, SaleInvariant, SignalsInvariant,
         OnceWithoutDeletion, MessagingTypeOK, ConsumerInvariant, [MessagingNext]_allVars
  PROVE  ConsumerInvariant'
<1>1. "deleteOrder" \notin Ops
  BY DEF SaleRunsItsCourse
<1>2. ASSUME NEW o \in Orders, NEW key \in RoutingKeys,
             Send(o, key) \/ DeliverAgain(o, key) \/ Skip(o, key)
      PROVE  ConsumerInvariant'
  BY <1>2, SendKeeps, BusKeeps
<1>3. ASSUME NEW h \in Handlers, Consume(h)
      PROVE  ConsumerInvariant'
  BY <1>1, <1>3, ReceiveKeeps, DispatchKeeps, IgnoreKeeps, HandlerStepKeeps, HandlerConflictKeeps,
     RecordKeeps
  DEF Consume
<1>4. ASSUME NEW h \in Handlers,
             \/ ServeStep(h) \/ Serve(h) \/ ChatFails(h)
             \/ HandlerFails(h) \/ Crash(h) \/ CrashBeforeRecord(h)
      PROVE  ConsumerInvariant'
  BY <1>1, <1>4, ServeKeeps, ChatFailsKeeps, LostCallKeeps, CrashBeforeRecordKeeps
<1>5. CASE UNCHANGED allVars
  <2>1. UNCHANGED vars /\ UNCHANGED calls /\ UNCHANGED <<sent, inbox, processed, consuming, missed>>
    BY <1>5 DEF allVars, vars, messagingVars
  <2>2. \A h \in Handlers : HoldingKept(h)
    BY <2>1 DEF HoldingKept
  <2>3. \A p \in Orders : inbox'[p] \subseteq sent[p]
    BY <2>1 DEF ConsumerInvariant, OrderAnswered
  <2> QED  BY <2>1, <2>2, <2>3, NothingGoesOn, ConsumerKept
<1> QED  BY <1>2, <1>3, <1>4, <1>5 DEF MessagingNext

(* What the answers of the other services are owed holds throughout a sale *)
(* that runs its course: the state of every order fits what was answered   *)
(* about it, every call writes only what was answered, and every message   *)
(* that a handler holds is shown, about to be, or counted as missed.       *)
THEOREM AnswersAreHonoured ==
  ASSUME SaleRunsItsCourse
  PROVE  MessagingSpec => []ConsumerInvariant
<1>1. {"CONFIRMED", "PAYMENT_APPROVED"} \cap PatchTargets = {} /\ "deleteOrder" \notin Ops
  BY DEF SaleRunsItsCourse
<1>2. Spec => [](InductiveInvariant /\ CallsFit /\ SaleInvariant /\ SignalsInvariant /\ OnceWithoutDeletion)
  <2>1. Spec => []SignalsInvariant
    BY <1>1, SignalsHold
  <2>2. DebtsFinite /\ NothingRemoved /\ EverythingOnce => OnceWithoutDeletion
    BY <1>1 DEF OnceWithoutDeletion
  <2>3. Spec => []OnceWithoutDeletion
    BY <2>2, DebtsAlwaysFinite, NothingRemovedHolds, OnceHolds, PTL
  <2> QED  BY <2>1, <2>3, InvariantHolds, CallsAlwaysFit, SaleHolds, PTL
<1>3. /\ InductiveInvariant /\ CallsFit /\ SaleInvariant /\ SignalsInvariant /\ OnceWithoutDeletion
      /\ MessagingTypeOK /\ ConsumerInvariant /\ [MessagingNext]_allVars
      => ConsumerInvariant'
  BY ConsumerIsKept
<1> QED
  BY <1>2, <1>3, ConsumerInitially, MessagingTypeCorrect, ImplementsLifecycle, PTL
  DEF MessagingSpec

(* What the consumer has recorded as processed is visible in the order,    *)
(* unless the message came too early or its call failed: no crash between  *)
(* the operation and the record, no repeated delivery, no second instance  *)
(* that holds the same message and no lost race makes an answer vanish.    *)
THEOREM RecordedAnswersShow ==
  ASSUME SaleRunsItsCourse
  PROVE  MessagingSpec => []RecordedIsApplied
<1>1. ConsumerInvariant => RecordedIsApplied
  BY DEF ConsumerInvariant, OrderAnswered, RecordedIsApplied
<1> QED  BY <1>1, AnswersAreHonoured, PTL

=============================================================================
