-------------------------- MODULE OrderInvariants --------------------------
(***************************************************************************)
(* The inductive invariants behind the promises of OrderProperties, one    *)
(* for each story that the code tells: the sale and its conversation, the  *)
(* two signals that confirm a digital order, the returns, and what is      *)
(* still to be announced.  They say what the calls in progress may yet do  *)
(* to the rows, which the promises leave out.                              *)
(***************************************************************************)
EXTENDS OrderProperties

\* A call in progress on this order.
Busy(h, o) == calls[h] # IdleCall /\ calls[h].order = o

EventsIn(events, key) == {i \in DOMAIN events : events[i].key = key}

-----------------------------------------------------------------------------
(* What a call owes: the announcements that its transition calls for, from *)
(* the compare-and-set until they are in the outbox.                       *)

DebtPoints ==
  [key \in {"order.order.confirmed", "order.order.ready_for_pickup", "order.order.cancelled",
            "order.return.confirmed"} |->
     {"publishStatusChanged"} \cup
     CASE key = "order.order.confirmed"        -> {"publishConfirmed"}
       [] key = "order.order.ready_for_pickup" -> {"publishReady"}
       [] key = "order.order.cancelled"        -> {"findChatToClose", "closeChat", "publishCancelled"}
       [] key = "order.return.confirmed"       -> {"publishReturnConfirmed"}]

DebtKeys == DOMAIN DebtPoints

\* The transition of this call calls for this event.
Incurs(c, key) ==
  /\ c.expected # "none"
  /\ \/ key = "order.order.confirmed" /\ c.row.status = "CONFIRMED"
     \/ key = "order.order.ready_for_pickup" /\ c.row.status = "READY_FOR_PICKUP"
     \/ key = "order.order.cancelled" /\ ReleasesStock(c)
     \/ key = "order.return.confirmed" /\ c.row.status \in PaidStatuses /\ c.op \in PayingOps

Owes(c, key) == key \in DebtKeys /\ Incurs(c, key) /\ c.pc \in DebtPoints[key]

Owing(o, key) == {h \in Handlers : calls[h].order = o /\ Owes(calls[h], key)}

-----------------------------------------------------------------------------
(* What a call carries, whatever happens to the order meanwhile.           *)

\* The operations that save a whole order again, and the statuses it may have.
SavingOps == {"requestReturn", "rateOrder"}
SavedStatuses == {"CONFIRMED", "READY_FOR_PICKUP", "DELIVERED", "PARTIALLY_RETURNED"}

\* The operation and the transition it carries belong together.
OperationFits(c) ==
  /\ LastEntry(c.row).by = c.op
  /\ c.op = "applyPaymentApproved" => c.row.status = "PAYMENT_APPROVED"
  /\ c.op = "approveReturn" => c.row.status \in PaidStatuses
  /\ c.op = "applyReturnPriced" =>
       \/ c.row.status = "RETURN_PENDING_APPROVAL"
       \/ c.row.status \in PaidStatuses /\ c.expected \notin {"DELIVERED", "PARTIALLY_RETURNED"}
  /\ c.row.status = "PAYMENT_APPROVED" =>
       c.op = "applyPaymentApproved" \/ "PAYMENT_APPROVED" \in PatchTargets
  /\ c.row.status = "RETURN_PENDING_APPROVAL" =>
       \/ "RETURN_PENDING_APPROVAL" \in PatchTargets
       \/ /\ c.op = "applyReturnPriced"
          /\ c.row.pending.amount > 0
          /\ c.row.pending.from = c.expected

\* The point where it stands and what it carries belong together.
PointFits(c) ==
  /\ c.pc \in {"publishConfirmed", "findChat", "createChat"} => Incurs(c, "order.order.confirmed")
  /\ c.pc = "publishReady" => Incurs(c, "order.order.ready_for_pickup")
  /\ c.pc = "publishCancelled" => Incurs(c, "order.order.cancelled")
  /\ c.pc = "publishReturnConfirmed" => Incurs(c, "order.return.confirmed")
  /\ c.pc \in {"findChatToClose", "closeChat"} =>
       c.expected # "none" /\ c.row.status \in {"DELIVERED", "CANCELLED"}
  /\ c.pc = "saveOrder" =>
       c.expected = "none" /\ c.row.status \in SavedStatuses /\ Ops \cap SavingOps # {}
  /\ c.pc = "deleteRow" => "deleteOrder" \in Ops

CallFits(c) == PointFits(c) /\ (c.expected # "none" => OperationFits(c))

CallsFit == \A h \in Handlers : CallFits(calls[h])

-----------------------------------------------------------------------------
(* The sale: what an order that was confirmed, or released, remembers.     *)

BeforeSale == {"none", "DRAFT", "CREATED", "PENDING_PAYMENT", "PAYMENT_APPROVED"}
SoldStatuses == {"CONFIRMED", "IN_PREPARATION", "READY_FOR_PICKUP", "DELIVERED",
                 "PARTIALLY_RETURNED", "RETURNED", "RETURN_PENDING_APPROVAL"}
GoneStatuses == STOCK_RELEASING_STATUSES \cup {"deleted"}

RowSold(row) ==
  /\ row.status \in BeforeSale => ~Reached(row, "CONFIRMED")
  /\ row.status \in SoldStatuses => Reached(row, "CONFIRMED")

\* An announced release of the stock said the truth, and goes on saying it.
ReleaseFits(row, wasSold) ==
  /\ wasSold \in BOOLEAN
  /\ wasSold => /\ row.status \notin BeforeSale
                /\ row.status \in Statuses => Reached(row, "CONFIRMED")
  /\ ~wasSold => /\ row.status \in GoneStatuses
                 /\ row.status \in Statuses => ~Reached(row, "CONFIRMED")

\* The row, the number of conversations and the events of one order tell one sale.
SaleStory(row, talks, events) ==
  /\ RowSold(row)
  /\ row.status \in BeforeSale => talks = 0 /\ EventsIn(events, "order.order.cancelled") = {}
  /\ \A i \in EventsIn(events, "order.order.cancelled") : ReleaseFits(row, events[i].wasSold)
  /\ talks <= 1
  /\ talks # 0 /\ row.status \in Statuses => Reached(row, "CONFIRMED")

\* A call that may still create the conversation of its order.
OpensChat(c) ==
  /\ Incurs(c, "order.order.confirmed")
  /\ c.pc \in {"publishStatusChanged", "publishConfirmed", "findChat", "createChat"}

\* An order that was sold, and is not offered again.
WasConfirmed(row) ==
  row.status \notin BeforeSale /\ (row.status \in Statuses => Reached(row, "CONFIRMED"))

\* What a call knows about the sale of its order, and the order about the call.
KnowsSale(c, row, talks) ==
  /\ row.status # "none"
  /\ c.pc = "saveOrder" => Reached(c.row, "CONFIRMED") /\ WasConfirmed(row)
  /\ OpensChat(c) => WasConfirmed(row) /\ talks = 0
  /\ Owes(c, "order.order.cancelled") => ReleaseFits(row, c.expected \in CONFIRMED_OR_LATER)

\* A release of unsold stock leaves no call behind that could insert the row again.
UnsoldStaysGone(o) ==
  \/ \A h \in Handlers : ~(calls[h].pc = "saveOrder" /\ calls[h].order = o)
  \/ /\ \A i \in EventsOf(o, "order.order.cancelled") : outbox[o][i].wasSold
     /\ \A h \in Owing(o, "order.order.cancelled") : calls[h].expected \in CONFIRMED_OR_LATER

OneOpener ==
  \A g, h \in Handlers :
    OpensChat(calls[g]) /\ OpensChat(calls[h]) /\ calls[g].order = calls[h].order => g = h

SaleInvariant ==
  /\ \A o \in Orders : SaleStory(orders[o], Len(chats[o]), outbox[o]) /\ UnsoldStaysGone(o)
  /\ \A h \in Handlers : calls[h] # IdleCall =>
       KnowsSale(calls[h], orders[calls[h].order], Len(chats[calls[h].order]))
  /\ OneOpener

-----------------------------------------------------------------------------
(* The two signals: how far an order has come towards its confirmation.    *)

Stage(status) ==
  CASE status = "none"             -> 0
    [] status = "DRAFT"            -> 1
    [] status = "CREATED"          -> 2
    [] status = "PENDING_PAYMENT"  -> 3
    [] status = "PAYMENT_APPROVED" -> 4
    [] OTHER                       -> 5

RowConfirmed(row) ==
  \A i \in DOMAIN row.history :
    ~row.cash /\ row.history[i].to = "CONFIRMED" =>
      row.stockReserved /\ row.history[i].from = "PAYMENT_APPROVED"

AwaitsConfirmation(row) == ~row.cash /\ row.status = "PAYMENT_APPROVED" /\ row.stockReserved

\* A call that confirms the order, or ends its wait in another way.
EndsWait(c) ==
  \/ c.pc = "confirmIfPaid"
  \/ c.pc = "saveTransition" /\ c.expected = "PAYMENT_APPROVED"
  \/ c.pc = "publishStatusChanged" /\ c.op = "applyPaymentApproved"

KnowsSignals(c, row) ==
  /\ c.expected # "none" => Stage(c.expected) <= Stage(row.status)
  /\ c.pc \in {"saveOrder", "deleteRow"} => Stage(row.status) = 5
  /\ c.pc = "saveOrder" => RowConfirmed(c.row)
  /\ c.expected # "none" /\ c.row.status = "CONFIRMED" /\ row.status = c.expected =>
       row.cash \/ (c.expected = "PAYMENT_APPROVED" /\ row.stockReserved)

SignalsInvariant ==
  /\ \A o \in Orders : RowConfirmed(orders[o])
  /\ \A h \in Handlers : calls[h] # IdleCall => KnowsSignals(calls[h], orders[calls[h].order])
  /\ \A o \in Orders : aborts = 0 /\ AwaitsConfirmation(orders[o]) =>
                         \E h \in Handlers : Busy(h, o) /\ EndsWait(calls[h])

-----------------------------------------------------------------------------
(* Returns.                                                                *)

AfterPickup == {"DELIVERED", "RETURN_PENDING_APPROVAL", "RETURNED", "PARTIALLY_RETURNED"}

\* A pending return is complete, and the price that holds it was delivered.
PendingFits(row, priced) ==
  row.status = "RETURN_PENDING_APPROVAL" =>
    /\ row.pending.amount > 0
    /\ row.pending.from = LastEntry(row).from
    /\ priced >= 1

\* An order that was picked up stays so, and a price applies to it only while
\* another one waits for the store.
PickupFits(row, priced) ==
  /\ Reached(row, "DELIVERED") => row.status \in AfterPickup
  /\ \A i \in DOMAIN row.history :
       LET entry == row.history[i] IN
       /\ entry.by = "applyReturnPriced" /\ entry.to \in PaidStatuses
       /\ \E j \in 1..(i - 1) : row.history[j].to = "DELIVERED"
       => entry.from = "RETURN_PENDING_APPROVAL" /\ priced >= 2

KnowsReturns(c, priced) ==
  /\ c.pc = "saveOrder" => PickupFits(c.row, priced)
  /\ c.op = "applyReturnPriced" => priced >= 1
  /\ c.op = "applyReturnPriced" /\ c.expected = "RETURN_PENDING_APPROVAL" => priced >= 2

ReturnsInvariant ==
  /\ \A o \in Orders : PendingFits(orders[o], answers[o]) /\ PickupFits(orders[o], answers[o])
  /\ \A h \in Handlers : calls[h] # IdleCall => KnowsReturns(calls[h], answers[calls[h].order])

-----------------------------------------------------------------------------
(* The announcements, made or owed.                                        *)

\* The statuses whose entry in the history calls for the event.
Telling ==
  [key \in {"order.order.confirmed", "order.order.ready_for_pickup", "order.order.cancelled"} |->
     CASE key = "order.order.confirmed"        -> {"CONFIRMED"}
       [] key = "order.order.ready_for_pickup" -> {"READY_FOR_PICKUP"}
       [] key = "order.order.cancelled"        -> STOCK_RELEASING_STATUSES]

OnceKeys == DOMAIN Telling

\* The statuses in which an order may be once the event is made or owed.
Past ==
  [key \in OnceKeys |->
     CASE key = "order.order.confirmed"        -> SoldStatuses \cup GoneStatuses
       [] key = "order.order.ready_for_pickup" -> {"READY_FOR_PICKUP"} \cup AfterPickup
                                                    \cup GoneStatuses
       [] key = "order.order.cancelled"        -> GoneStatuses]

\* The announcements made, or owed by a call.
InHand(o, key) == Cardinality(EventsOf(o, key)) + Cardinality(Owing(o, key))

\* Once for each row that was deleted, and once for the row that is past it.
OnceAtMost(o, key) ==
  InHand(o, key)
    <= removed[o].rows + (IF orders[o].status \in Past[key] \ {"deleted"} THEN 1 ELSE 0)

\* The refunds authorised, or about to be.
RefundsInHand(o) == InHand(o, "order.return.confirmed")

\* Whatever this history says is announced, or owed by a call in progress.
AllTold(o, history) ==
  /\ \A key \in OnceKeys : \A i \in DOMAIN history :
       history[i].to \in Telling[key] => EventsOf(o, key) # {} \/ Owing(o, key) # {}
  /\ RefundsInHand(o) >= Cardinality(PayingIn(history))

EverythingOnce == \A o \in Orders : \A key \in OnceKeys : OnceAtMost(o, key)

RefundsCovered ==
  \A o \in Orders :
    /\ RefundsInHand(o) <= Cardinality(PayingIn(orders[o].history)) + removed[o].returns
    /\ orders[o].status = "deleted" => orders[o].history = <<>>

\* An instance without deletion removes nothing.
NothingRemoved ==
  "deleteOrder" \notin Ops =>
    \A o \in Orders : removed[o].rows = 0 /\ orders[o].status # "deleted"

EverythingTold ==
  aborts = 0 =>
    /\ \A o \in Orders : AllTold(o, orders[o].history)
    /\ \A h \in Handlers : calls[h].pc = "saveOrder" => AllTold(calls[h].order, calls[h].row.history)

DebtsFinite == \A o \in Orders, key \in DebtKeys : IsFiniteSet(Owing(o, key))

-----------------------------------------------------------------------------
(* Where a behaviour may start: from orders whose past tells the same      *)
(* stories, with no call in progress and everything announced, once.       *)

SettledStart(start) ==
  LET row == start.row IN
  /\ row.status # "deleted"
  /\ SaleStory(row, Len(start.chats), start.outbox)
  /\ RowConfirmed(row) /\ ~AwaitsConfirmation(row)
  /\ PendingFits(row, 0) /\ PickupFits(row, 0)
  /\ \A key \in OnceKeys :
       /\ \A i, j \in EventsIn(start.outbox, key) : i = j
       /\ EventsIn(start.outbox, key) # {} => row.status \in Past[key]
       /\ \A i \in DOMAIN row.history :
            row.history[i].to \in Telling[key] => EventsIn(start.outbox, key) # {}
  /\ Cardinality(EventsIn(start.outbox, "order.return.confirmed"))
       = Cardinality(PayingIn(row.history))

ASSUME StartSettled == \A start \in StartStates : SettledStart(start)

=============================================================================
