-------------------------- MODULE OrderProperties --------------------------
(***************************************************************************)
(* What OrderLifecycle promises.  The properties speak of the rows, the    *)
(* outbox and the conversations, never of the calls, except to say that no *)
(* call on an order is in progress.                                        *)
(***************************************************************************)
EXTENDS OrderLifecycle

\* No call on this order is in progress.
Quiet(o) == \A h \in Handlers : calls[h].order # o

\* The returns that the stored history records as paid.
PayingEntries(o) == PayingIn(orders[o].history)

-----------------------------------------------------------------------------
(* The audit trail of a stored order tells one legal story that ends in    *)
(* its status: it starts at the creation, every entry starts where the     *)
(* previous one ended, every entry is in ORDER_TRANSITIONS.  Two calls     *)
(* that raced from one status must not both have left an entry.            *)
HistoryConsistent ==
  \A o \in Orders : Stored(o) => LegalStory(orders[o])

(* No step takes back a recorded transition while the row exists: neither  *)
(* the compare-and-set nor the whole-entity save of requestReturn and      *)
(* rateOrder, whose snapshot may be stale.                                 *)
TransitionsNeverUndone ==
  [][\A o \in Orders : Stored(o) /\ Stored(o)' =>
       /\ Len(orders[o].history) <= Len(orders'[o].history)
       /\ \A i \in DOMAIN orders[o].history : orders'[o].history[i] = orders[o].history[i]]_vars

(* products-service is told that an order releases its stock, the shop     *)
(* that it is confirmed or ready, at most once for each time that its row  *)
(* was inserted: CANCELLED and FAILED publish the same event, and FAILED   *)
(* -> CANCELLED is legal.  A row is inserted by its creation, and again    *)
(* when requestReturn or rateOrder save the order after its deletion.      *)
Insertions(o) == removed[o].rows + (IF Stored(o) THEN 1 ELSE 0)

AnnouncedOnce ==
  \A o \in Orders :
    \A key \in {"order.order.cancelled", "order.order.confirmed", "order.order.ready_for_pickup"} :
      Cardinality(EventsOf(o, key)) <= Insertions(o)

(* wasSold of order.order.cancelled is true exactly when the order had     *)
(* been CONFIRMED, at whatever later point it was cancelled or failed: if  *)
(* not, products-service would restock units never sold, or lose units.    *)
WasSoldAccurate ==
  \A o \in Orders : Stored(o) =>
    \A i \in EventsOf(o, "order.order.cancelled") :
      outbox[o][i].wasSold <=> Reached(orders[o], "CONFIRMED")

(* An order has at most one conversation, and none before it reaches       *)
(* CONFIRMED: ensureConversationForOrder checks before it inserts, and     *)
(* order_id is not unique in the conversations table.                      *)
OneConversation ==
  \A o \in Orders :
    /\ Len(chats[o]) <= 1
    /\ chats[o] # <<>> /\ Stored(o) => Reached(orders[o], "CONFIRMED")

(* A digital order is CONFIRMED only out of PAYMENT_APPROVED and with its  *)
(* stock reserved, whichever of the two signals came first.                *)
DigitalConfirmedWithStock ==
  \A o \in Orders :
    \A i \in DOMAIN orders[o].history :
      ~orders[o].cash /\ orders[o].history[i].to = "CONFIRMED" =>
        orders[o].stockReserved /\ orders[o].history[i].from = "PAYMENT_APPROVED"

(* No lost wake-up: a digital order that is paid and reserved is not left  *)
(* waiting when the handlers of the two signals have returned (a call lost *)
(* to a crash aside).                                                      *)
NoLostConfirmation ==
  \A o \in Orders :
    aborts = 0 /\ Quiet(o) => ~( /\ ~orders[o].cash
                   /\ orders[o].status = "PAYMENT_APPROVED"
                   /\ orders[o].stockReserved )

\* Everything that the history of an order says has been announced: its
\* confirmation, its being ready, the release of its stock, and one authorised
\* refund for each return it records.
FullyAnnounced(o) ==
    /\ Reached(orders[o], "CONFIRMED") => Announced(o, "order.order.confirmed")
    /\ Reached(orders[o], "READY_FOR_PICKUP") => Announced(o, "order.order.ready_for_pickup")
    /\ Reached(orders[o], "CANCELLED") \/ Reached(orders[o], "FAILED")
         => Announced(o, "order.order.cancelled")
    /\ Cardinality(EventsOf(o, "order.return.confirmed"))
         >= Cardinality(PayingEntries(o))

(* When no call on an order is in progress, and none was lost, its whole   *)
(* history has been announced.                                             *)
AnnouncementsComplete ==
  \A o \in Orders : aborts = 0 /\ Quiet(o) /\ Stored(o) => FullyAnnounced(o)

(* financial-service is never told to refund more often than a return was  *)
(* recorded, in the history of the order or in one that was deleted: two   *)
(* answers, or an answer and an approval, must not both pay for one        *)
(* transition.                                                             *)
RefundsAreRecorded ==
  \A o \in Orders :
    Cardinality(EventsOf(o, "order.return.confirmed"))
      <= Cardinality(PayingEntries(o)) + removed[o].returns

(* An order that waits for the store's approval always holds the amount to *)
(* refund and the status to go back to, which is the one it came from.     *)
PendingReturnRecorded ==
  \A o \in Orders : orders[o].status = "RETURN_PENDING_APPROVAL" =>
    /\ orders[o].pending.amount > 0
    /\ orders[o].pending.from = LastEntry(orders[o]).from

(* A price never applies a return of an order that was picked up, unless   *)
(* the return already waits for the store and the price is a second one:   *)
(* an order delivered, or returned in part, since it was read is caught by *)
(* the compare-and-set.                                                    *)
PickedUpReturnsWait ==
  \A o \in Orders : \A i \in DOMAIN orders[o].history :
    LET entry == orders[o].history[i] IN
    /\ entry.by = "applyReturnPriced" /\ entry.to \in {"RETURNED", "PARTIALLY_RETURNED"}
    /\ \E j \in 1..(i - 1) : orders[o].history[j].to = "DELIVERED"
    => entry.from = "RETURN_PENDING_APPROVAL" /\ answers[o] >= 2

-----------------------------------------------------------------------------
(* Claims of the comments and documents that the code does not keep.       *)

(* "La cotizacion es un reemplazo completo e idempotente" (event-consumer): *)
(* products.return.priced is applied without the deduplication by          *)
(* idempotencyKey, and yet one requested return is refunded once.  The     *)
(* same message delivered twice is a second return.                        *)
OneRefundPerRequest ==
  \A o \in Orders :
    Cardinality(EventsOf(o, "order.return.confirmed"))
      <= Cardinality(EventsOf(o, "order.return.requested"))

(* "Cada evento de dominio se guarda en la misma transaccion que el cambio *)
(* de negocio. Garantiza que no se pierdan eventos" (outbox-event.entity): *)
(* when no call is in progress everything has been announced, whatever     *)
(* crashed.  finalize commits the transition before it publishes.          *)
EventsNeverLost ==
  \A o \in Orders : Quiet(o) /\ Stored(o) => FullyAnnounced(o)

-----------------------------------------------------------------------------
(* The inductive invariant behind TypeOK and HistoryConsistent: what a     *)
(* call carries is fit to be written when its turn comes.                  *)

\* A call that writes a transition holds a legal one, as its last history entry.
CarriesTransition(c) ==
  /\ c.row.status \in Statuses
  /\ CanTransition(c.expected, c.row.status)
  /\ c.row.history # <<>>
  /\ LastEntry(c.row).from = c.expected
  /\ LastEntry(c.row).to = c.row.status

CallLegal(c) ==
  /\ c.row.pending.from \in RestorableStatuses
  /\ c.expected # "none" => CarriesTransition(c)
  /\ c.pc \in {"saveTransition", "publishStatusChanged"} => c.expected # "none"
  /\ c.pc = "saveOrder" => c.row.status \in Statuses /\ LegalStory(c.row)

\* A call that is about to use a conversation found one: rows are never deleted.
ChatPoints == {"closeChat", "reopenChat", "readCards", "saveCard", "touchChat"}
ChatInHand(c) == c.pc \in ChatPoints => c.chat.at \in DOMAIN chats[c.order]

OrderLegal(row) ==
  /\ row.pending.from \in RestorableStatuses
  /\ row.status \in Statuses => LegalStory(row)

RowsOK == orders \in [Orders -> OrderRow] /\ \A o \in Orders : OrderLegal(orders[o])
ChatsOK == chats \in [Orders -> Seq(Conversation)]
OutboxOK == outbox \in [Orders -> Seq(Event)]
CallsOK ==
  /\ calls \in [Handlers -> Call \cup {IdleCall}]
  /\ \A h \in Handlers : CallLegal(calls[h]) /\ ChatInHand(calls[h])
CountersOK ==
  answers \in [Orders -> Nat] /\ aborts \in Nat /\ removed \in [Orders -> Removed]

(* Type correctness, every row legal, every call fit to write.             *)
InductiveInvariant == RowsOK /\ ChatsOK /\ OutboxOK /\ CallsOK /\ CountersOK

=============================================================================
