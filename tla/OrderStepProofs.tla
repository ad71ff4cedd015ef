-------------------------- MODULE OrderStepProofs --------------------------
(***************************************************************************)
(* What the steps of OrderLifecycle have in common.  Every step is of one  *)
(* of ten kinds, and what the invariants of OrderInvariants need to know   *)
(* of it is said once here: which call it moves, what that call carries,   *)
(* what it owes before and after, and what is written.                     *)
(***************************************************************************)
EXTENDS OrderInvariants, OrderLifecycleProofs

-----------------------------------------------------------------------------
(* Debts, point by point.                                                  *)

(* What it takes to owe each of the four events.                           *)
LEMMA DebtCases ==
  ASSUME NEW c
  PROVE  /\ DebtKeys = {"order.order.confirmed", "order.order.ready_for_pickup",
                        "order.order.cancelled", "order.return.confirmed"}
         /\ Owes(c, "order.order.confirmed") <=>
              /\ Incurs(c, "order.order.confirmed")
              /\ c.pc \in {"publishStatusChanged", "publishConfirmed"}
         /\ Owes(c, "order.order.ready_for_pickup") <=>
              /\ Incurs(c, "order.order.ready_for_pickup")
              /\ c.pc \in {"publishStatusChanged", "publishReady"}
         /\ Owes(c, "order.order.cancelled") <=>
              /\ Incurs(c, "order.order.cancelled")
              /\ c.pc \in {"publishStatusChanged", "findChatToClose", "closeChat",
                           "publishCancelled"}
         /\ Owes(c, "order.return.confirmed") <=>
              /\ Incurs(c, "order.return.confirmed")
              /\ c.pc \in {"publishStatusChanged", "publishReturnConfirmed"}
BY DEF Owes, DebtKeys, DebtPoints

(* What it takes to incur each of them.                                    *)
LEMMA IncurCases ==
  ASSUME NEW c
  PROVE  /\ Incurs(c, "order.order.confirmed") <=>
              c.expected # "none" /\ c.row.status = "CONFIRMED"
         /\ Incurs(c, "order.order.ready_for_pickup") <=>
              c.expected # "none" /\ c.row.status = "READY_FOR_PICKUP"
         /\ Incurs(c, "order.order.cancelled") <=>
              /\ c.expected # "none"
              /\ c.row.status \in {"CANCELLED", "FAILED"}
              /\ c.expected \notin {"CANCELLED", "FAILED"}
         /\ Incurs(c, "order.return.confirmed") <=>
              /\ c.expected # "none"
              /\ c.row.status \in {"RETURNED", "PARTIALLY_RETURNED"}
              /\ c.op \in {"applyReturnPriced", "approveReturn"}
BY DEF Incurs, ReleasesStock, STOCK_RELEASING_STATUSES, PaidStatuses, PayingOps

\* Two values of one call: where it stands and what it found may differ.
SameCall(c, d) ==
  d.op = c.op /\ d.order = c.order /\ d.row = c.row /\ d.expected = c.expected

(* What a call incurs depends on what it carries alone.                    *)
LEMMA SameIncurs ==
  ASSUME NEW c, NEW d, SameCall(c, d), NEW key
  PROVE  Incurs(d, key) <=> Incurs(c, key)
BY DEF SameCall, Incurs, ReleasesStock

(* A call that is over owes nothing.                                       *)
LEMMA IdleOwesNothing ==
  /\ CallFits(IdleCall)
  /\ IdleCall.pc = "idle" /\ IdleCall.expected = "none"
  /\ \A key : ~Owes(IdleCall, key) /\ ~Incurs(IdleCall, key)
  /\ ~OpensChat(IdleCall)
BY DEF IdleCall, Owes, Incurs, OpensChat, CallFits, PointFits

\* The debts of a call when it becomes d, having published an event of this key.
Settles(c, d, published) ==
  \A key \in DebtKeys :
    /\ Owes(c, key) <=> (Owes(d, key) \/ published = key)
    /\ ~(Owes(d, key) /\ published = key)

\* The call becomes d, at one of the points that only publish or look up.
Moves(c, d, published) ==
  /\ c.pc \notin {"confirmIfPaid", "saveOrder", "deleteRow", "markReserved"}
  /\ \/ d = IdleCall
     \/ /\ d \in Call /\ SameCall(c, d)
        /\ d.pc \notin {"saveOrder", "deleteRow", "markReserved"}
        /\ d.pc = "saveTransition" => c.pc = "publishCreated"
  /\ CallFits(d)
  /\ Settles(c, d, published)
  /\ OpensChat(d) => OpensChat(c)
  /\ c.pc = "publishStatusChanged" /\ c.op = "applyPaymentApproved" => d.pc = "confirmIfPaid"

(* The call that Continue leaves behind.                                   *)
LEMMA Continued ==
  ASSUME NEW c \in Call, NEW pc \in Points \cup {"idle"},
         NEW b, b = c \/ \E f \in FoundChat : b = [c EXCEPT !.chat = f],
         NEW d, d = IF pc = "idle" THEN IdleCall ELSE [b EXCEPT !.pc = pc]
  PROVE  /\ d.pc = pc
         /\ pc = "idle" => d = IdleCall
         /\ pc # "idle" => d \in Call /\ SameCall(c, d)
<1>1. b \in Call /\ SameCall(c, b)
  BY DEF Call, SameCall
<1>2. CASE pc = "idle"
  BY <1>2, IdleOwesNothing
<1>3. CASE pc # "idle"
  <2>1. d = [b EXCEPT !.pc = pc]
    BY <1>3
  <2>2. d \in Call
    BY <1>1, <1>3, <2>1 DEF Call
  <2>3. d.pc = pc /\ SameCall(b, d)
    BY <1>1, <2>1 DEF Call, SameCall
  <2> QED  BY <1>1, <1>3, <2>2, <2>3 DEF SameCall
<1> QED  BY <1>2, <1>3

\* The call may go on to this point, having published an event of this key:
\* the point fits what the call carries, and its debts are settled.
Leads(c, pc, published) ==
  /\ c.pc \notin {"confirmIfPaid", "saveOrder", "deleteRow", "markReserved"}
  /\ pc \notin {"saveOrder", "deleteRow", "markReserved"}
  /\ pc = "saveTransition" => c.pc = "publishCreated"
  /\ pc \in {"publishConfirmed", "findChat", "createChat"} => Incurs(c, "order.order.confirmed")
  /\ pc = "publishReady" => Incurs(c, "order.order.ready_for_pickup")
  /\ pc = "publishCancelled" => Incurs(c, "order.order.cancelled")
  /\ pc = "publishReturnConfirmed" => Incurs(c, "order.return.confirmed")
  /\ pc \in {"findChatToClose", "closeChat"} =>
       c.expected # "none" /\ c.row.status \in {"DELIVERED", "CANCELLED"}
  /\ \A key \in DebtKeys :
       /\ Owes(c, key) <=> ((Incurs(c, key) /\ pc \in DebtPoints[key]) \/ published = key)
       /\ ~(Incurs(c, key) /\ pc \in DebtPoints[key] /\ published = key)
  /\ pc \in {"publishStatusChanged", "publishConfirmed", "findChat", "createChat"} => OpensChat(c)
  /\ c.pc = "publishStatusChanged" /\ c.op = "applyPaymentApproved" => pc = "confirmIfPaid"

LEMMA MovesWhen ==
  ASSUME NEW c \in Call, CallFits(c), NEW d, NEW pc, NEW published,
         d.pc = pc,
         pc = "idle" => d = IdleCall,
         pc # "idle" => d \in Call /\ SameCall(c, d),
         Leads(c, pc, published)
  PROVE  Moves(c, d, published)
<1>1. \A key \in DebtKeys : "idle" \notin DebtPoints[key]
  BY DEF DebtKeys, DebtPoints
<1>2. CASE pc = "idle"
  <2>1. Settles(c, d, published)
    BY <1>1, <1>2, IdleOwesNothing DEF Settles, Leads
  <2> QED  BY <1>2, <2>1, IdleOwesNothing DEF Moves, Leads
<1>3. CASE pc # "idle"
  <2>1. d \in Call /\ SameCall(c, d) /\ d.pc = pc
    BY <1>3
  <2>2. \A key : Incurs(d, key) <=> Incurs(c, key)
    BY <2>1, SameIncurs
  <2>3. Settles(c, d, published)
    BY <2>1, <2>2 DEF Settles, Owes, Leads
  <2>4. PointFits(d)
    BY <2>1, <2>2 DEF PointFits, SameCall, Leads
  <2>5. d.expected # "none" => OperationFits(d)
    BY <2>1 DEF CallFits, OperationFits, SameCall
  <2> QED  BY <2>1, <2>3, <2>4, <2>5 DEF Moves, CallFits, OpensChat, Leads
<1> QED  BY <1>2, <1>3

(* To show that a call may go on: the four debts, one by one.              *)
LEMMA DebtsSettled ==
  ASSUME NEW c, NEW pc, NEW published,
         \A key \in {"order.order.confirmed", "order.order.ready_for_pickup",
                     "order.order.cancelled", "order.return.confirmed"} :
           /\ Owes(c, key) <=> ((Incurs(c, key) /\ pc \in DebtPoints[key]) \/ published = key)
           /\ ~(Incurs(c, key) /\ pc \in DebtPoints[key] /\ published = key)
  PROVE  \A key \in DebtKeys :
           /\ Owes(c, key) <=> ((Incurs(c, key) /\ pc \in DebtPoints[key]) \/ published = key)
           /\ ~(Incurs(c, key) /\ pc \in DebtPoints[key] /\ published = key)
BY DebtCases

-----------------------------------------------------------------------------
(* The steps that publish and look up.                                     *)

\* What the step inserts in the outbox: nothing, or one event of this key.
Inserts(c, published) ==
  \/ published = "none" /\ UNCHANGED outbox
  \/ \E event \in Event :
       /\ Publish(c.order, event)
       /\ event.key = published
       /\ published = "order.order.cancelled" =>
            event.wasSold = (c.expected \in CONFIRMED_OR_LATER)

\* What the step does to the conversations: no new one, or the one it opens.
Opens(c, d) ==
  \/ \A o \in Orders : Len(chats'[o]) = Len(chats[o])
  \/ /\ OpensChat(c) /\ ~OpensChat(d)
     /\ \E chat : chats' = [chats EXCEPT ![c.order] = Append(@, chat)]

\* A step of the call of h, which leaves the orders alone.
Advances(h, d, published) ==
  /\ calls[h] \in Call
  /\ calls' = [calls EXCEPT ![h] = d]
  /\ UNCHANGED <<orders, answers, aborts, removed>>
  /\ Moves(calls[h], d, published)
  /\ calls[h].pc = "saveTransition" => orders[calls[h].order].status # calls[h].expected
  /\ Inserts(calls[h], published)
  /\ Opens(calls[h], d)

LEMMA AdvanceWhen ==
  ASSUME InductiveInvariant, CallsFit, NEW h \in Handlers, calls[h].pc \in Points,
         NEW c, c = calls[h],
         NEW b, b = c \/ \E f \in FoundChat : b = [c EXCEPT !.chat = f],
         NEW pc \in Points \cup {"idle"}, NEW published,
         Continue(h, b, pc), UNCHANGED <<orders, answers, aborts, removed>>,
         Leads(c, pc, published),
         c.pc = "saveTransition" => orders[c.order].status # c.expected,
         Inserts(c, published),
         \/ \A o \in Orders : Len(chats'[o]) = Len(chats[o])
         \/ /\ OpensChat(c)
            /\ pc \notin {"publishStatusChanged", "publishConfirmed", "findChat", "createChat"}
            /\ \E chat : chats' = [chats EXCEPT ![c.order] = Append(@, chat)]
  PROVE  \E d, e : Advances(h, d, e)
<1>2. PICK d : d = IF pc = "idle" THEN IdleCall ELSE [b EXCEPT !.pc = pc]
  OBVIOUS
<1>3. c \in Call /\ CallFits(c)
  BY AtPoint DEF InductiveInvariant, CallsFit
<1>4. /\ d.pc = pc
      /\ pc = "idle" => d = IdleCall
      /\ pc # "idle" => d \in Call /\ SameCall(c, d)
  BY <1>2, <1>3, Continued, SMTT(30)
<1>5. Moves(c, d, published)
  BY <1>3, <1>4, MovesWhen
<1>6. Opens(c, d)
  BY <1>4, IdleOwesNothing DEF Opens, OpensChat
<1>7. calls' = [calls EXCEPT ![h] = d]
  BY <1>2 DEF Continue
<1> QED  BY <1>3, <1>5, <1>6, <1>7 DEF Advances

\* A call at one of its points is in progress, and fits the point.
LEMMA CallAt ==
  ASSUME InductiveInvariant, CallsFit, NEW h \in Handlers, NEW c, c = calls[h], c.pc \in Points
  PROVE  c \in Call /\ CallLegal(c) /\ CallFits(c) /\ c.order \in Orders
BY AtPoint, CallFields DEF InductiveInvariant, CallsFit

(* A step that publishes one event and goes on.                            *)
LEMMA PublishAdvances ==
  ASSUME InductiveInvariant, CallsFit, NEW h \in Handlers,
         NEW c, c = calls[h], c.pc \in Points \ {"saveTransition"},
         NEW event \in Event, Publish(c.order, event),
         event.key = "order.order.cancelled" =>
           event.wasSold = (c.expected \in CONFIRMED_OR_LATER),
         NEW pc \in Points \cup {"idle"}, Continue(h, c, pc), Leads(c, pc, event.key),
         UNCHANGED <<orders, chats, answers, aborts, removed>>
  PROVE  \E d, e : Advances(h, d, e)
<1>1. Inserts(c, event.key)
  BY DEF Inserts
<1>2. \A o \in Orders : Len(chats'[o]) = Len(chats[o])
  OBVIOUS
<1>3. PICK key : key = event.key
  OBVIOUS
<1> QED  BY <1>1, <1>2, <1>3, AdvanceWhen

(* A step that only looks up, and goes on with what it found.              *)
LEMMA LookUpAdvances ==
  ASSUME InductiveInvariant, CallsFit, NEW h \in Handlers,
         NEW c, c = calls[h], c.pc \in Points,
         NEW b, b = c \/ \E f \in FoundChat : b = [c EXCEPT !.chat = f],
         NEW pc \in Points \cup {"idle"}, Continue(h, b, pc), Leads(c, pc, "none"),
         c.pc = "saveTransition" => orders[c.order].status # c.expected,
         UNCHANGED <<orders, chats, outbox, answers, aborts, removed>>
  PROVE  \E d, e : Advances(h, d, e)
<1>1. Inserts(c, "none")
  BY DEF Inserts
<1>2. \A o \in Orders : Len(chats'[o]) = Len(chats[o])
  OBVIOUS
<1> QED  BY <1>1, <1>2, AdvanceWhen

(* A step that rewrites a conversation and goes on.                        *)
LEMMA ChatEditAdvances ==
  ASSUME InductiveInvariant, CallsFit, NEW h \in Handlers,
         NEW c, c = calls[h], c.pc \in Points \ {"saveTransition"},
         NEW pc \in Points \cup {"idle"}, Continue(h, c, pc), Leads(c, pc, "none"),
         \A o \in Orders : Len(chats'[o]) = Len(chats[o]),
         UNCHANGED <<orders, outbox, answers, aborts, removed>>
  PROVE  \E d, e : Advances(h, d, e)
<1>1. Inserts(c, "none")
  BY DEF Inserts
<1> QED  BY <1>1, AdvanceWhen

LEMMA PublishStatusChangedAdvances ==
  ASSUME InductiveInvariant, CallsFit, NEW h \in Handlers, PublishStatusChanged(h)
  PROVE  \E d, e : Advances(h, d, e)
<1>1. PICK c : c = calls[h]
  OBVIOUS
<1>2. c.pc = "publishStatusChanged"
  BY <1>1 DEF PublishStatusChanged, At
<1>3. /\ c \in Call /\ CallFits(c) /\ CallLegal(c) /\ c.expected # "none"
      /\ CanTransition(c.expected, c.row.status)
  BY <1>1, <1>2, CallAt DEF CallLegal, CarriesTransition, Points
<1>4. c.expected # c.row.status /\ c.row.status \in Statuses
  BY <1>3 DEF CanTransition, Statuses, ORDER_TRANSITIONS
<1>5. PICK pc : pc = AfterStatusChanged(c)
  OBVIOUS
<1>6. Leads(c, pc, "order.order.status_changed")
  BY <1>2, <1>3, <1>4, <1>5, DebtCases, IncurCases
  DEF Leads, CallFits, OperationFits, OpensChat, AfterStatusChanged, AfterClose, AfterFinalize,
      ReleasesStock, STOCK_RELEASING_STATUSES, DebtPoints, PaidStatuses
<1>7. PICK event : event = [key |-> "order.order.status_changed", status |-> c.row.status]
  OBVIOUS
<1>8. event \in Event /\ event.key = "order.order.status_changed"
  BY <1>4, <1>7 DEF Event
<1>9. pc \in Points \cup {"idle"} /\ Continue(h, c, pc) /\ Publish(c.order, event)
  BY <1>1, <1>5, <1>7, LaterPointsFacts DEF PublishStatusChanged
<1>10. UNCHANGED <<orders, answers, aborts, removed, chats>>
  BY DEF PublishStatusChanged
<1>11. c.pc \in Points \ {"saveTransition"}
  BY <1>2 DEF Points
<1> QED  BY <1>1, <1>6, <1>8, <1>9, <1>10, <1>11, PublishAdvances

LEMMA PublishConfirmedAdvances ==
  ASSUME InductiveInvariant, CallsFit, NEW h \in Handlers, PublishConfirmed(h)
  PROVE  \E d, e : Advances(h, d, e)
<1>1. PICK c : c = calls[h]
  OBVIOUS
<1>2. c.pc = "publishConfirmed" /\ c.pc \in Points \ {"saveTransition"}
  BY <1>1 DEF PublishConfirmed, At, Points
<1>3. c \in Call /\ CallFits(c)
  BY <1>1, <1>2, CallAt
<1>4. Leads(c, "findChat", "order.order.confirmed")
  BY <1>2, <1>3, DebtCases, IncurCases DEF Leads, CallFits, PointFits, OpensChat, DebtPoints
<1>5. PICK event : event = [key |-> "order.order.confirmed"]
  OBVIOUS
<1>6. event \in Event /\ event.key = "order.order.confirmed" /\ Publish(c.order, event)
  BY <1>1, <1>5 DEF Event, PublishConfirmed
<1>7. "findChat" \in Points /\ Continue(h, c, "findChat") /\ UNCHANGED <<orders, chats, answers, aborts, removed>>
  BY <1>1 DEF PublishConfirmed, Points
<1> QED  BY <1>1, <1>2, <1>4, <1>6, <1>7, PublishAdvances

LEMMA PublishReadyAdvances ==
  ASSUME InductiveInvariant, CallsFit, NEW h \in Handlers, PublishReady(h)
  PROVE  \E d, e : Advances(h, d, e)
<1>1. PICK c : c = calls[h]
  OBVIOUS
<1>2. c.pc = "publishReady" /\ c.pc \in Points \ {"saveTransition"}
  BY <1>1 DEF PublishReady, At, Points
<1>3. c \in Call /\ CallFits(c)
  BY <1>1, <1>2, CallAt
<1>4. PICK pc : pc = AfterFinalize(c)
  OBVIOUS
<1>5. Leads(c, pc, "order.order.ready_for_pickup")
  BY <1>2, <1>3, <1>4, DebtCases, IncurCases
  DEF Leads, CallFits, PointFits, OperationFits, OpensChat, DebtPoints, AfterFinalize, PaidStatuses
<1>6. PICK event : event = [key |-> "order.order.ready_for_pickup"]
  OBVIOUS
<1>7. event \in Event /\ event.key = "order.order.ready_for_pickup" /\ Publish(c.order, event)
  BY <1>1, <1>6 DEF Event, PublishReady
<1>8. pc \in Points \cup {"idle"} /\ Continue(h, c, pc) /\ UNCHANGED <<orders, chats, answers, aborts, removed>>
  BY <1>1, <1>4, LaterPointsFacts DEF PublishReady
<1> QED  BY <1>1, <1>2, <1>5, <1>7, <1>8, PublishAdvances

LEMMA PublishCancelledAdvances ==
  ASSUME InductiveInvariant, CallsFit, NEW h \in Handlers, PublishCancelled(h)
  PROVE  \E d, e : Advances(h, d, e)
<1>1. PICK c : c = calls[h]
  OBVIOUS
<1>2. c.pc = "publishCancelled" /\ c.pc \in Points \ {"saveTransition"}
  BY <1>1 DEF PublishCancelled, At, Points
<1>3. c \in Call /\ CallFits(c) /\ c.policy \in RefundPolicies
  BY <1>1, <1>2, CallAt, CallFields
<1>4. PICK pc : pc = AfterFinalize(c)
  OBVIOUS
<1>5. Leads(c, pc, "order.order.cancelled")
  BY <1>2, <1>3, <1>4, DebtCases, IncurCases
  DEF Leads, CallFits, PointFits, OperationFits, OpensChat, DebtPoints, AfterFinalize, PaidStatuses
<1>6. PICK event : event = [key |-> "order.order.cancelled",
                            wasSold |-> c.expected \in CONFIRMED_OR_LATER,
                            refundPolicy |-> c.policy]
  OBVIOUS
<1>7. /\ event \in Event /\ event.key = "order.order.cancelled"
      /\ event.wasSold = (c.expected \in CONFIRMED_OR_LATER)
  BY <1>3, <1>6 DEF Event
<1>8. Publish(c.order, event)
  BY <1>1, <1>6 DEF PublishCancelled
<1>9. pc \in Points \cup {"idle"} /\ Continue(h, c, pc) /\ UNCHANGED <<orders, chats, answers, aborts, removed>>
  BY <1>1, <1>4, LaterPointsFacts DEF PublishCancelled
<1> QED  BY <1>1, <1>2, <1>5, <1>7, <1>8, <1>9, PublishAdvances

LEMMA PublishReturnConfirmedAdvances ==
  ASSUME InductiveInvariant, CallsFit, NEW h \in Handlers, PublishReturnConfirmed(h)
  PROVE  \E d, e : Advances(h, d, e)
<1>1. PICK c : c = calls[h]
  OBVIOUS
<1>2. c.pc = "publishReturnConfirmed" /\ c.pc \in Points \ {"saveTransition"}
  BY <1>1 DEF PublishReturnConfirmed, At, Points
<1>3. c \in Call /\ CallFits(c) /\ c.refund \in Refund
  BY <1>1, <1>2, CallAt, CallFields
<1>4. PICK pc : pc = IF c.op = "approveReturn" THEN "findChatToResolve" ELSE "idle"
  OBVIOUS
<1>5. Leads(c, pc, "order.return.confirmed")
  BY <1>2, <1>3, <1>4, DebtCases, IncurCases DEF Leads, CallFits, PointFits, OpensChat, DebtPoints
<1>6. PICK event : event = [key |-> "order.return.confirmed", full |-> c.refund.full,
                            refundAmount |-> c.refund.amount]
  OBVIOUS
<1>7. event \in Event /\ event.key = "order.return.confirmed"
  BY <1>3, <1>6 DEF Event, Refund
<1>8. Publish(c.order, event)
  BY <1>1, <1>6 DEF PublishReturnConfirmed
<1>9. /\ pc \in Points \cup {"idle"} /\ Continue(h, c, pc)
      /\ UNCHANGED <<orders, chats, answers, aborts, removed>>
  BY <1>1, <1>4 DEF PublishReturnConfirmed, Points
<1> QED  BY <1>1, <1>2, <1>5, <1>7, <1>8, <1>9, PublishAdvances

LEMMA PublishRequestAdvances ==
  ASSUME InductiveInvariant, CallsFit, NEW h \in Handlers, PublishReturnRequested(h)
  PROVE  \E d, e : Advances(h, d, e)
<1>1. PICK c : c = calls[h]
  OBVIOUS
<1>2. c.pc = "publishReturnRequested" /\ c.pc \in Points \ {"saveTransition"}
  BY <1>1 DEF PublishReturnRequested, At, Points
<1>3. Leads(c, "idle", "order.return.requested")
  BY <1>2, DebtCases, IncurCases DEF Leads, DebtPoints
<1>4. PICK event : event = [key |-> "order.return.requested"]
  OBVIOUS
<1>5. event \in Event /\ event.key = "order.return.requested" /\ Publish(c.order, event)
  BY <1>1, <1>4 DEF Event, PublishReturnRequested
<1>6. Continue(h, c, "idle") /\ UNCHANGED <<orders, chats, answers, aborts, removed>>
  BY DEF PublishReturnRequested, Continue, Finish
<1> QED  BY <1>1, <1>2, <1>3, <1>5, <1>6, PublishAdvances

(* The announcements of a cart or an order that is being placed.           *)
LEMMA PlacingAdvances ==
  ASSUME InductiveInvariant, CallsFit, NEW h \in Handlers,
         PublishCartCreated(h) \/ PublishCartItems(h) \/ PublishCreated(h)
  PROVE  \E d, e : Advances(h, d, e)
<1>1. PICK c : c = calls[h]
  OBVIOUS
<1>2. CASE PublishCartCreated(h)
  <2>1. c.pc = "publishCartCreated" /\ c.pc \in Points \ {"saveTransition"}
    BY <1>1, <1>2 DEF PublishCartCreated, At, Points
  <2>2. PICK pc : pc = IF c.op = "createOrder" THEN "publishCartItems" ELSE "idle"
    OBVIOUS
  <2>3. Leads(c, pc, "order.cart.created")
    BY <2>1, <2>2, DebtCases, IncurCases DEF Leads, DebtPoints
  <2>4. PICK event : event = [key |-> "order.cart.created"]
    OBVIOUS
  <2>5. event \in Event /\ event.key = "order.cart.created" /\ Publish(c.order, event)
    BY <1>1, <1>2, <2>4 DEF Event, PublishCartCreated
  <2>6. /\ pc \in Points \cup {"idle"} /\ Continue(h, c, pc)
        /\ UNCHANGED <<orders, chats, answers, aborts, removed>>
    BY <1>1, <1>2, <2>2 DEF PublishCartCreated, Points
  <2> QED  BY <1>1, <2>1, <2>3, <2>5, <2>6, PublishAdvances
<1>3. CASE PublishCartItems(h)
  <2>1. c.pc = "publishCartItems" /\ c.pc \in Points \ {"saveTransition"}
    BY <1>1, <1>3 DEF PublishCartItems, At, Points
  <2>2. Leads(c, "publishCreated", "order.cart.item_changed")
    BY <2>1, DebtCases, IncurCases DEF Leads, DebtPoints
  <2>3. PICK event : event = [key |-> "order.cart.item_changed"]
    OBVIOUS
  <2>4. event \in Event /\ event.key = "order.cart.item_changed" /\ Publish(c.order, event)
    BY <1>1, <1>3, <2>3 DEF Event, PublishCartItems
  <2>5. /\ "publishCreated" \in Points /\ Continue(h, c, "publishCreated")
        /\ UNCHANGED <<orders, chats, answers, aborts, removed>>
    BY <1>1, <1>3 DEF PublishCartItems, Points
  <2> QED  BY <1>1, <2>1, <2>2, <2>4, <2>5, PublishAdvances
<1>4. CASE PublishCreated(h)
  <2>1. c.pc = "publishCreated" /\ c.pc \in Points \ {"saveTransition"}
    BY <1>1, <1>4 DEF PublishCreated, At, Points
  <2>2. PICK pc : pc = IF c.expected = "none" THEN "idle" ELSE "saveTransition"
    OBVIOUS
  <2>3. Leads(c, pc, "order.order.created")
    BY <2>1, <2>2, DebtCases, IncurCases DEF Leads, DebtPoints
  <2>4. PICK event : event = [key |-> "order.order.created"]
    OBVIOUS
  <2>5. event \in Event /\ event.key = "order.order.created" /\ Publish(c.order, event)
    BY <1>1, <1>4, <2>4 DEF Event, PublishCreated
  <2>6. /\ pc \in Points \cup {"idle"} /\ Continue(h, c, pc)
        /\ UNCHANGED <<orders, chats, answers, aborts, removed>>
    BY <1>1, <1>4, <2>2 DEF PublishCreated, Points
  <2> QED  BY <1>1, <2>1, <2>3, <2>5, <2>6, PublishAdvances
<1> QED  BY <1>2, <1>3, <1>4

LEMMA TransitionConflictAdvances ==
  ASSUME InductiveInvariant, CallsFit, NEW h \in Handlers, TransitionConflict(h)
  PROVE  \E d, e : Advances(h, d, e)
<1>1. PICK c : c = calls[h]
  OBVIOUS
<1>2. c.pc = "saveTransition" /\ c.pc \in Points /\ orders[c.order].status # c.expected
  BY <1>1 DEF TransitionConflict, At, Points
<1>3. Leads(c, "idle", "none")
  BY <1>2, DebtCases, IncurCases DEF Leads, DebtPoints
<1>4. Continue(h, c, "idle") /\ UNCHANGED <<orders, chats, outbox, answers, aborts, removed>>
  BY DEF TransitionConflict, Continue, Finish
<1> QED  BY <1>1, <1>2, <1>3, <1>4, LookUpAdvances

LEMMA FindConversationAdvances ==
  ASSUME InductiveInvariant, CallsFit, NEW h \in Handlers, FindConversation(h)
  PROVE  \E d, e : Advances(h, d, e)
<1>1. PICK c : c = calls[h]
  OBVIOUS
<1>2. c.pc = "findChat" /\ c.pc \in Points
  BY <1>1 DEF FindConversation, At, Points
<1>3. c \in Call /\ CallFits(c)
  BY <1>1, <1>2, CallAt
<1>4. PICK pc : pc = IF chats[c.order] = <<>> THEN "createChat" ELSE AfterFinalize(c)
  OBVIOUS
<1>5. Leads(c, pc, "none")
  BY <1>2, <1>3, <1>4, DebtCases, IncurCases
  DEF Leads, CallFits, PointFits, OperationFits, OpensChat, DebtPoints, AfterFinalize, PaidStatuses
<1>6. /\ pc \in Points \cup {"idle"} /\ Continue(h, c, pc)
      /\ UNCHANGED <<orders, chats, outbox, answers, aborts, removed>>
  BY <1>1, <1>4, LaterPointsFacts DEF FindConversation, Points
<1> QED  BY <1>1, <1>2, <1>5, <1>6, LookUpAdvances

LEMMA CreateConversationAdvances ==
  ASSUME InductiveInvariant, CallsFit, NEW h \in Handlers, CreateConversation(h)
  PROVE  \E d, e : Advances(h, d, e)
<1>1. PICK c : c = calls[h]
  OBVIOUS
<1>2. c.pc = "createChat" /\ c.pc \in Points
  BY <1>1 DEF CreateConversation, At, Points
<1>3. c \in Call /\ CallFits(c)
  BY <1>1, <1>2, CallAt
<1>4. PICK pc : pc = AfterFinalize(c)
  OBVIOUS
<1>5. Leads(c, pc, "none") /\ pc \notin {"publishStatusChanged", "publishConfirmed", "findChat", "createChat"}
  BY <1>2, <1>3, <1>4, DebtCases, IncurCases
  DEF Leads, CallFits, PointFits, OperationFits, OpensChat, DebtPoints, AfterFinalize, PaidStatuses
<1>6. OpensChat(c)
  BY <1>2, <1>3 DEF OpensChat, CallFits, PointFits
<1>7. /\ pc \in Points \cup {"idle"} /\ Continue(h, c, pc)
      /\ UNCHANGED <<orders, outbox, answers, aborts, removed>>
      /\ chats' = [chats EXCEPT ![c.order] = Append(@, [status |-> "active", cards |-> <<>>])]
  BY <1>1, <1>4, LaterPointsFacts DEF CreateConversation
<1>8. Inserts(c, "none") /\ c.pc # "saveTransition"
  BY <1>2, <1>7 DEF Inserts
<1> QED  BY <1>1, <1>2, <1>5, <1>6, <1>7, <1>8, AdvanceWhen

LEMMA FindConversationToCloseAdvances ==
  ASSUME InductiveInvariant, CallsFit, NEW h \in Handlers, FindConversationToClose(h)
  PROVE  \E d, e : Advances(h, d, e)
<1>1. PICK c : c = calls[h]
  OBVIOUS
<1>2. c.pc = "findChatToClose" /\ c.pc \in Points
  BY <1>1 DEF FindConversationToClose, At, Points
<1>3. c \in Call /\ CallFits(c) /\ c.order \in Orders
  BY <1>1, <1>2, CallAt
<1>4. PICK pc : pc = AfterClose(c)
  OBVIOUS
<1>5. Leads(c, pc, "none") /\ Leads(c, "closeChat", "none")
  BY <1>2, <1>3, <1>4, DebtCases, IncurCases
  DEF Leads, CallFits, PointFits, OperationFits, OpensChat, DebtPoints, AfterClose, AfterFinalize,
      PaidStatuses, ReleasesStock, STOCK_RELEASING_STATUSES
<1>6. UNCHANGED <<orders, chats, outbox, answers, aborts, removed>>
  BY DEF FindConversationToClose
<1>7. CASE Continue(h, c, pc)
  BY <1>1, <1>2, <1>4, <1>5, <1>6, <1>7, LookUpAdvances, LaterPointsFacts
<1>8. ASSUME NEW f \in FoundChat, Continue(h, [c EXCEPT !.chat = f], "closeChat")
      PROVE  \E d, e : Advances(h, d, e)
  <2>1. PICK b : b = [c EXCEPT !.chat = f]
    OBVIOUS
  <2>2. "closeChat" \in Points /\ c.pc # "saveTransition"
    BY <1>2 DEF Points
  <2> QED  BY <1>1, <1>2, <1>5, <1>6, <1>8, <2>1, <2>2, LookUpAdvances
<1>9. \A i \in DOMAIN chats[c.order] :
        [at |-> i, status |-> chats[c.order][i].status, card |-> 0] \in FoundChat
  BY <1>3, ChatFound DEF InductiveInvariant
<1> QED  BY <1>1, <1>4, <1>7, <1>8, <1>9 DEF FindConversationToClose

LEMMA FindConversationToReopenAdvances ==
  ASSUME InductiveInvariant, CallsFit, NEW h \in Handlers, FindConversationToReopen(h)
  PROVE  \E d, e : Advances(h, d, e)
<1>1. PICK c : c = calls[h]
  OBVIOUS
<1>2. c.pc = "findChatToReopen" /\ c.pc \in Points
  BY <1>1 DEF FindConversationToReopen, At, Points
<1>3. c \in Call /\ CallFits(c) /\ c.order \in Orders
  BY <1>1, <1>2, CallAt
<1>4. Leads(c, "publishReturnRequested", "none") /\ Leads(c, "reopenChat", "none")
  BY <1>2, DebtCases, IncurCases DEF Leads, DebtPoints
<1>5. UNCHANGED <<orders, chats, outbox, answers, aborts, removed>> /\ c.pc # "saveTransition"
  BY <1>2 DEF FindConversationToReopen
<1>6. {"publishReturnRequested", "reopenChat"} \subseteq Points
  BY DEF Points
<1>7. CASE Continue(h, c, "publishReturnRequested")
  BY <1>1, <1>2, <1>4, <1>5, <1>6, <1>7, LookUpAdvances
<1>8. ASSUME NEW f \in FoundChat, Continue(h, [c EXCEPT !.chat = f], "reopenChat")
      PROVE  \E d, e : Advances(h, d, e)
  <2>1. PICK b : b = [c EXCEPT !.chat = f]
    OBVIOUS
  <2> QED  BY <1>1, <1>2, <1>4, <1>5, <1>6, <1>8, <2>1, LookUpAdvances
<1>9. \A i \in DOMAIN chats[c.order] :
        [at |-> i, status |-> chats[c.order][i].status, card |-> 0] \in FoundChat
  BY <1>3, ChatFound DEF InductiveInvariant
<1> QED  BY <1>1, <1>7, <1>8, <1>9 DEF FindConversationToReopen

LEMMA FindConversationForCardAdvances ==
  ASSUME InductiveInvariant, CallsFit, NEW h \in Handlers, FindConversationForCard(h)
  PROVE  \E d, e : Advances(h, d, e)
<1>1. PICK c : c = calls[h]
  OBVIOUS
<1>2. c.pc \in {"findChatForCard", "findChatToResolve"} /\ c.pc \in Points
  BY <1>1 DEF FindConversationForCard, At, Points
<1>3. c \in Call /\ CallFits(c) /\ c.order \in Orders
  BY <1>1, <1>2, CallAt
<1>4. PICK next : next = IF c.pc = "findChatForCard" THEN "saveCard" ELSE "readCards"
  OBVIOUS
<1>5. Leads(c, "idle", "none") /\ Leads(c, next, "none")
  BY <1>2, <1>4, DebtCases, IncurCases DEF Leads, DebtPoints
<1>6. UNCHANGED <<orders, chats, outbox, answers, aborts, removed>> /\ c.pc # "saveTransition"
  BY <1>2 DEF FindConversationForCard
<1>7. next \in Points
  BY <1>4 DEF Points
<1>8. CASE Finish(h)
  <2>1. Continue(h, c, "idle")
    BY <1>8 DEF Finish, Continue
  <2> QED  BY <1>1, <1>2, <1>5, <1>6, <2>1, LookUpAdvances
<1>9. ASSUME NEW f \in FoundChat, Continue(h, [c EXCEPT !.chat = f], next)
      PROVE  \E d, e : Advances(h, d, e)
  <2>1. PICK b : b = [c EXCEPT !.chat = f]
    OBVIOUS
  <2> QED  BY <1>1, <1>2, <1>5, <1>6, <1>7, <1>9, <2>1, LookUpAdvances
<1>10. \A i \in DOMAIN chats[c.order] :
         [at |-> i, status |-> chats[c.order][i].status, card |-> 0] \in FoundChat
  BY <1>3, ChatFound DEF InductiveInvariant
<1> QED  BY <1>1, <1>4, <1>8, <1>9, <1>10 DEF FindConversationForCard, At

LEMMA ReadCardsAdvances ==
  ASSUME InductiveInvariant, CallsFit, NEW h \in Handlers, ReadCards(h)
  PROVE  \E d, e : Advances(h, d, e)
<1>1. PICK c : c = calls[h]
  OBVIOUS
<1>2. c.pc = "readCards" /\ c.pc \in Points
  BY <1>1 DEF ReadCards, At, Points
<1>3. c \in Call /\ CallFits(c) /\ c.order \in Orders /\ ChatInHand(c) /\ c.chat \in FoundChat
  BY <1>1, <1>2, CallAt, AtPoint, CallFields DEF InductiveInvariant
<1>4. PICK last : last = Len(chats[c.order][c.chat.at].cards)
  OBVIOUS
<1>5. last \in Nat
  <2>1. c.chat.at \in DOMAIN chats[c.order] /\ chats[c.order] \in Seq(Conversation)
    BY <1>2, <1>3 DEF ChatInHand, ChatPoints, InductiveInvariant, ChatsOK
  <2>2. chats[c.order][c.chat.at] \in Conversation
    BY <2>1, LenProperties, ElementOfSeq
  <2> QED  BY <1>4, <2>2 DEF Conversation
<1>6. Leads(c, "idle", "none") /\ Leads(c, "saveCard", "none")
  BY <1>2, DebtCases, IncurCases DEF Leads, DebtPoints
<1>7. UNCHANGED <<orders, chats, outbox, answers, aborts, removed>> /\ c.pc # "saveTransition"
  BY <1>2 DEF ReadCards
<1>8. CASE Finish(h)
  <2>1. Continue(h, c, "idle")
    BY <1>8 DEF Finish, Continue
  <2> QED  BY <1>1, <1>2, <1>6, <1>7, <2>1, LookUpAdvances
<1>9. CASE Continue(h, [c EXCEPT !.chat.card = last], "saveCard")
  <2>1. PICK f : f = [c.chat EXCEPT !.card = last]
    OBVIOUS
  <2>2. f \in FoundChat /\ [c EXCEPT !.chat.card = last] = [c EXCEPT !.chat = f]
    BY <1>3, <1>5, <2>1 DEF FoundChat, Call
  <2>3. PICK b : b = [c EXCEPT !.chat = f]
    OBVIOUS
  <2>4. "saveCard" \in Points /\ Continue(h, b, "saveCard")
    BY <1>9, <2>2, <2>3 DEF Points
  <2> QED  BY <1>1, <1>2, <1>6, <1>7, <2>2, <2>3, <2>4, LookUpAdvances
<1> QED  BY <1>1, <1>4, <1>8, <1>9 DEF ReadCards

(* Rewriting one conversation adds none.                                   *)
LEMMA EditKeepsCount ==
  ASSUME ChatsOK, NEW o \in Orders, NEW i, NEW chat,
         chats' = [chats EXCEPT ![o] = [chats[o] EXCEPT ![i] = chat]]
  PROVE  \A p \in Orders : Len(chats'[p]) = Len(chats[p])
<1>1. chats[o] \in Seq(Conversation)
  BY DEF ChatsOK
<1>2. Len([chats[o] EXCEPT ![i] = chat]) = Len(chats[o])
  <2>1. CASE i \in DOMAIN chats[o]
    <3>1. chats[o] \in Seq(Conversation \cup {chat})
      BY <1>1
    <3> QED  BY <2>1, <3>1, ExceptSeq
  <2>2. CASE i \notin DOMAIN chats[o]
    <3>1. [chats[o] EXCEPT ![i] = chat] = chats[o]
      <4>1. [chats[o] EXCEPT ![i] = chat] = [j \in DOMAIN chats[o] |-> chats[o][j]]
        BY <2>2
      <4>2. chats[o] = [j \in DOMAIN chats[o] |-> chats[o][j]]
        BY <1>1
      <4> QED  BY <4>1, <4>2
    <3> QED  BY <3>1
  <2> QED  BY <2>1, <2>2
<1> QED  BY <1>2 DEF ChatsOK

(* The steps that rewrite a conversation.                                  *)
LEMMA ChatEditsAdvance ==
  ASSUME InductiveInvariant, CallsFit, NEW h \in Handlers,
         \/ CloseConversation(h) \/ ReopenConversation(h)
         \/ SaveCard(h) \/ TouchConversation(h)
  PROVE  \E d, e : Advances(h, d, e)
<1>1. PICK c : c = calls[h]
  OBVIOUS
<1>2. /\ c.pc \in {"closeChat", "reopenChat", "saveCard", "touchChat"}
      /\ c.pc \in Points \ {"saveTransition"}
  BY <1>1 DEF CloseConversation, ReopenConversation, SaveCard, TouchConversation, At, Points
<1>3. c \in Call /\ CallFits(c) /\ c.order \in Orders
  BY <1>1, <1>2, CallAt
<1>4. UNCHANGED <<orders, outbox, answers, aborts, removed>>
  BY DEF CloseConversation, ReopenConversation, SaveCard, TouchConversation
<1>5. \A o \in Orders : Len(chats'[o]) = Len(chats[o])
  <2>1. ASSUME NEW status, chats' = [chats EXCEPT ![c.order][c.chat.at].status = status]
        PROVE  \E chat : chats' = [chats EXCEPT ![c.order] =
                                     [chats[c.order] EXCEPT ![c.chat.at] = chat]]
    BY <1>3, <2>1 DEF InductiveInvariant, ChatsOK
  <2>2. ASSUME NEW cards, chats' = [chats EXCEPT ![c.order][c.chat.at].cards = cards]
        PROVE  \E chat : chats' = [chats EXCEPT ![c.order] =
                                     [chats[c.order] EXCEPT ![c.chat.at] = chat]]
    BY <1>3, <2>2 DEF InductiveInvariant, ChatsOK
  <2>3. \/ \E status : chats' = [chats EXCEPT ![c.order][c.chat.at].status = status]
        \/ \E cards : chats' = [chats EXCEPT ![c.order][c.chat.at].cards = cards]
    <3>1. CASE CloseConversation(h)
      BY <1>1, <3>1 DEF CloseConversation
    <3>2. CASE ReopenConversation(h)
      BY <1>1, <3>2 DEF ReopenConversation
    <3>3. CASE TouchConversation(h)
      BY <1>1, <3>3 DEF TouchConversation
    <3>4. CASE SaveCard(h)
      <4>1. PICK cards : cards =
              IF c.op = "applyReturnPriced"
              THEN Append(chats[c.order][c.chat.at].cards, "requested")
              ELSE [chats[c.order][c.chat.at].cards EXCEPT
                      ![c.chat.card] = IF c.op = "approveReturn" THEN "approved" ELSE "rejected"]
        OBVIOUS
      <4>2. chats' = [chats EXCEPT ![c.order][c.chat.at].cards = cards]
        BY <1>1, <1>3, <3>4, <4>1 DEF SaveCard, InductiveInvariant, ChatsOK
      <4> QED  BY <4>2
    <3> QED  BY <3>1, <3>2, <3>3, <3>4
  <2>4. PICK chat : chats' = [chats EXCEPT ![c.order] =
                                [chats[c.order] EXCEPT ![c.chat.at] = chat]]
    BY <2>1, <2>2, <2>3
  <2>5. PICK i : i = c.chat.at
    OBVIOUS
  <2> QED  BY <1>3, <2>4, <2>5, EditKeepsCount DEF InductiveInvariant
<1>6. PICK pc : pc = CASE c.pc = "closeChat"  -> AfterClose(c)
                       [] c.pc = "reopenChat" -> "publishReturnRequested"
                       [] c.pc = "saveCard"   -> "touchChat"
                       [] c.pc = "touchChat"  -> "idle"
  OBVIOUS
<1>7. pc \in Points \cup {"idle"}
  BY <1>2, <1>6, LaterPointsFacts DEF Points
<1>8. Continue(h, c, pc)
  BY <1>1, <1>6
  DEF CloseConversation, ReopenConversation, SaveCard, TouchConversation, At, Continue, Finish
<1>9. Leads(c, pc, "none")
  <2>1. CASE c.pc = "closeChat"
    BY <1>2, <1>3, <1>6, <2>1, DebtCases, IncurCases
    DEF Leads, CallFits, PointFits, OperationFits, OpensChat, DebtPoints, AfterClose,
        AfterFinalize, PaidStatuses, ReleasesStock, STOCK_RELEASING_STATUSES
  <2>2. CASE c.pc # "closeChat"
    BY <1>2, <1>6, <2>2, DebtCases, IncurCases DEF Leads, DebtPoints
  <2> QED  BY <2>1, <2>2
<1> QED  BY <1>1, <1>2, <1>4, <1>5, <1>7, <1>8, <1>9, ChatEditAdvances

-----------------------------------------------------------------------------
(* The operations that start on a stored order.                            *)

\* What a call that just started knows of the order it read.
Snapshot(d) ==
  LET row == orders[d.order] IN
  /\ row.status \in Statuses
  /\ d.pc \in {"saveTransition", "publishCreated", "saveOrder", "deleteRow", "markReserved"}
  /\ d.expected = IF d.pc \in {"saveTransition", "publishCreated"} THEN row.status ELSE "none"
  /\ d.pc = "saveOrder" => /\ d.row.status = row.status /\ row.status \in SavedStatuses
                           /\ d.row.history = row.history
                           /\ d.row.cash = row.cash /\ d.row.stockReserved = row.stockReserved
  /\ d.pc = "deleteRow" => row.status \in {"DELIVERED", "CANCELLED", "FAILED"}
  /\ d.expected # "none" /\ d.row.status = "CONFIRMED" =>
       \/ row.cash
       \/ row.status = "PAYMENT_APPROVED" /\ row.stockReserved
       \/ "CONFIRMED" \in PatchTargets

\* The call d starts, or takes the place of one that looked whether to confirm.
Starts(h, d) ==
  /\ d \in Call
  /\ \/ calls[h] = IdleCall
     \/ /\ calls[h] \in Call /\ calls[h].pc = "confirmIfPaid"
        /\ calls[h].order = d.order /\ EndsWait(d)
  /\ calls' = [calls EXCEPT ![h] = d]
  /\ UNCHANGED <<orders, chats, outbox, aborts, removed>>
  /\ CallFits(d) /\ Snapshot(d)
  /\ \A o \in Orders : answers'[o] >= answers[o]
  /\ d.op = "applyReturnPriced" => answers'[d.order] >= answers[d.order] + 1

\* The transition suits the operation that asks for it.
Suits(op, row, to) ==
  /\ op = "applyPaymentApproved" => to = "PAYMENT_APPROVED"
  /\ op = "approveReturn" => to \in PaidStatuses
  /\ op = "applyReturnPriced" =>
       \/ to = "RETURN_PENDING_APPROVAL"
       \/ to \in PaidStatuses /\ row.status \notin {"DELIVERED", "PARTIALLY_RETURNED"}
  /\ to = "PAYMENT_APPROVED" => op = "applyPaymentApproved" \/ "PAYMENT_APPROVED" \in PatchTargets
  /\ to = "RETURN_PENDING_APPROVAL" =>
       \/ "RETURN_PENDING_APPROVAL" \in PatchTargets
       \/ op = "applyReturnPriced" /\ row.pending.amount > 0 /\ row.pending.from = row.status
  /\ to = "CONFIRMED" =>
       \/ row.cash
       \/ row.status = "PAYMENT_APPROVED" /\ row.stockReserved
       \/ "CONFIRMED" \in PatchTargets

\* The three ways in which the code sets a transition going.
SetsGoing(t, d) ==
  \/ d = t
  \/ \E p \in RefundPolicies : d = [t EXCEPT !.policy = p]
  \/ \E r \in Refund : d = [t EXCEPT !.refund = r]

LEMMA TransitioningFields ==
  ASSUME NEW op \in Operations, NEW o \in Orders, NEW row \in OrderRow,
         NEW pc \in {"saveTransition", "publishCreated", "publishCartCreated"}, NEW to,
         row.status \in Statuses, CanTransition(row.status, to),
         row.pending.from \in RestorableStatuses,
         NEW t, t = Transitioning(op, pc, o, row, to),
         NEW d, SetsGoing(t, d)
  PROVE  /\ d \in Call /\ d.op = op /\ d.pc = pc /\ d.order = o /\ d.expected = row.status
         /\ d.row.status = to /\ d.row.pending = row.pending
         /\ LastEntry(d.row).by = op
<1>1. PICK new : new = TransitionOrder(row, to, op)
  OBVIOUS
<1>2. new.status = to /\ new.pending = row.pending /\ LastEntry(new).by = op
  <2>1. PICK e : e = [from |-> row.status, to |-> to, by |-> op]
    OBVIOUS
  <2>2. to \in Statuses
    BY DEF CanTransition, ORDER_TRANSITIONS, Statuses
  <2>3. e \in HistoryEntry /\ e.by = op
    BY <2>1, <2>2 DEF HistoryEntry
  <2>4. row.history \in Seq(HistoryEntry)
    BY DEF OrderRow
  <2>5. new.history = Append(row.history, e) /\ new.status = to /\ new.pending = row.pending
    BY <1>1, <2>1 DEF TransitionOrder, OrderRow
  <2>6. new.history[Len(new.history)] = e
    BY <2>3, <2>4, <2>5
  <2> QED  BY <2>3, <2>5, <2>6 DEF LastEntry
<1>3. pc \in Points \ {"saveOrder"}
  BY DEF Points
<1>4. t \in Call
  BY <1>3, TransitioningLegal
<1>5. /\ t.op = op /\ t.pc = pc /\ t.order = o /\ t.expected = row.status /\ t.row = new
  BY <1>1 DEF Transitioning, NewCall
<1>6. d \in Call /\ d.op = t.op /\ d.pc = t.pc /\ d.order = t.order
      /\ d.expected = t.expected /\ d.row = t.row
  BY <1>4 DEF SetsGoing, Call
<1> QED  BY <1>2, <1>5, <1>6

\* A price that is applied was answered.
AnswersGrow(op, o) ==
  /\ \A p \in Orders : answers'[p] >= answers[p]
  /\ op = "applyReturnPriced" => answers'[o] >= answers[o] + 1

LEMMA SameAnswersGrow ==
  ASSUME InductiveInvariant, UNCHANGED answers, NEW op, op # "applyReturnPriced", NEW o
  PROVE  AnswersGrow(op, o)
BY DEF InductiveInvariant, CountersOK, AnswersGrow

LEMMA AnsweredGrow ==
  ASSUME InductiveInvariant, NEW o \in Orders, Answered(o), NEW op
  PROVE  AnswersGrow(op, o)
BY DEF InductiveInvariant, CountersOK, AnswersGrow, Answered

(* A call that carries a transition starts.                                *)
LEMMA TransitionStarts ==
  ASSUME InductiveInvariant, NEW h \in Handlers, NEW op \in Operations, NEW o \in Orders,
         NEW row \in OrderRow, NEW pc \in {"saveTransition", "publishCreated"}, NEW to,
         row.status \in Statuses, CanTransition(row.status, to),
         row.pending.from \in RestorableStatuses, Suits(op, row, to),
         row.status = orders[o].status, row.cash = orders[o].cash,
         row.stockReserved = orders[o].stockReserved,
         NEW t, t = Transitioning(op, pc, o, row, to),
         NEW d, SetsGoing(t, d),
         \/ calls[h] = IdleCall
         \/ /\ calls[h] \in Call /\ calls[h].pc = "confirmIfPaid"
            /\ calls[h].order = o /\ row.status = "PAYMENT_APPROVED" /\ pc = "saveTransition",
         calls' = [calls EXCEPT ![h] = d],
         UNCHANGED <<orders, chats, outbox, aborts, removed>>,
         AnswersGrow(op, o)
  PROVE  \E e : Starts(h, e)
<1>1. pc \in {"saveTransition", "publishCreated", "publishCartCreated"}
  OBVIOUS
<1>2. /\ d \in Call /\ d.op = op /\ d.pc = pc /\ d.order = o /\ d.expected = row.status
      /\ d.row.status = to /\ d.row.pending = row.pending
      /\ LastEntry(d.row).by = op
  BY <1>1, TransitioningFields
<1>3. row.status # "none" /\ pc \notin {"publishConfirmed", "findChat", "createChat", "publishReady",
         "publishCancelled", "publishReturnConfirmed", "findChatToClose", "closeChat", "saveOrder",
         "deleteRow"}
  BY DEF Statuses
<1>4. PointFits(d) /\ OperationFits(d)
  BY <1>2, <1>3 DEF PointFits, OperationFits, Suits
<1>5. Snapshot(d)
  BY <1>2, <1>3 DEF Snapshot, Suits
<1>6. \A p \in Orders : answers'[p] >= answers[p]
  BY DEF AnswersGrow
<1>7. op = "applyReturnPriced" => answers'[o] >= answers[o] + 1
  BY DEF AnswersGrow
<1>8. CallFits(d)
  BY <1>4 DEF CallFits
<1>9. calls[h] # IdleCall => EndsWait(d)
  BY <1>2 DEF EndsWait
<1> QED  BY <1>2, <1>5, <1>6, <1>7, <1>8, <1>9 DEF Starts

LEMMA TransitStarts ==
  ASSUME InductiveInvariant, NEW h \in Handlers, NEW o \in Orders, NEW op \in Operations,
         NEW to, NEW policy \in RefundPolicies, Transit(h, o, op, to, policy),
         op # "applyReturnPriced", Suits(op, orders[o], to)
  PROVE  \E e : Starts(h, e)
<1>1. PICK row : row = orders[o]
  OBVIOUS
<1>2. PICK t : t = Transitioning(op, "saveTransition", o, row, to)
  OBVIOUS
<1>3. PICK d : d = [t EXCEPT !.policy = policy]
  OBVIOUS
<1>4. row \in OrderRow /\ row.pending.from \in RestorableStatuses /\ Suits(op, row, to)
  BY <1>1, RowAt DEF InductiveInvariant
<1>5. row.status \in Statuses /\ CanTransition(row.status, to)
  BY <1>1 DEF Transit, Enabled, Stored
<1>6. SetsGoing(t, d)
  BY <1>3 DEF SetsGoing
<1>7. calls[h] = IdleCall /\ calls' = [calls EXCEPT ![h] = d]
      /\ UNCHANGED <<orders, chats, outbox, aborts, removed>> /\ AnswersGrow(op, o)
  BY <1>1, <1>2, <1>3, SameAnswersGrow DEF Transit, Begin
<1> QED  BY <1>1, <1>2, <1>4, <1>5, <1>6, <1>7, TransitionStarts

LEMMA TransitsStart ==
  ASSUME InductiveInvariant, NEW h \in Handlers, NEW o \in Orders,
         \/ UpdateOrderStatus(h, o) \/ CancelOrder(h, o)
         \/ ApplyPaymentApproved(h, o) \/ ApplyPaymentFailed(h, o)
         \/ HandleStockReservationRejected(h, o)
         \/ MarkDelivered(h, o) \/ MarkFailed(h, o) \/ HandleQrExpired(h, o)
  PROVE  \E e : Starts(h, e)
<1>1. {"updateOrderStatus", "cancelOrder", "applyPaymentApproved", "applyPaymentFailed",
       "handleStockReservationRejected", "markDelivered", "markFailed", "handleQrExpired"}
         \subseteq Operations \ {"applyReturnPriced"}
  BY DEF Operations
<1>2. {"FULL", "HALF_PRODUCTS_ONLY", "NO_REFUND"} \subseteq RefundPolicies
  BY DEF RefundPolicies
<1>3. ASSUME NEW to \in PatchTargets
      PROVE  Suits("updateOrderStatus", orders[o], to)
  BY <1>3 DEF Suits
<1>4. /\ Suits("cancelOrder", orders[o], "CANCELLED")
      /\ Suits("applyPaymentApproved", orders[o], "PAYMENT_APPROVED")
      /\ Suits("applyPaymentFailed", orders[o], "FAILED")
      /\ Suits("handleStockReservationRejected", orders[o], "CANCELLED")
      /\ Suits("markDelivered", orders[o], "DELIVERED")
      /\ Suits("markFailed", orders[o], "FAILED")
      /\ Suits("handleQrExpired", orders[o], "CANCELLED")
  BY DEF Suits
<1> QED
  BY <1>1, <1>2, <1>3, <1>4, TransitStarts
  DEF UpdateOrderStatus, CancelOrder, ApplyPaymentApproved, ApplyPaymentFailed,
      HandleStockReservationRejected, MarkDelivered, MarkFailed, HandleQrExpired

LEMMA CheckoutStarts ==
  ASSUME InductiveInvariant, NEW h \in Handlers, NEW o \in Orders, Checkout(h, o)
  PROVE  \E e : Starts(h, e)
<1>1. PICK row : row = orders[o]
  OBVIOUS
<1>2. PICK to : to = IF row.cash THEN "CREATED" ELSE "PENDING_PAYMENT"
  OBVIOUS
<1>3. PICK t : t = Transitioning("checkout", "publishCreated", o, row, to)
  OBVIOUS
<1>4. row \in OrderRow /\ row.pending.from \in RestorableStatuses /\ row.status = "DRAFT"
  BY <1>1, RowAt DEF InductiveInvariant, Checkout
<1>5. row.status \in Statuses /\ CanTransition(row.status, to) /\ Suits("checkout", row, to)
  BY <1>2, <1>4 DEF Statuses, CanTransition, ORDER_TRANSITIONS, Suits
<1>6. SetsGoing(t, t) /\ "checkout" \in Operations
  BY DEF SetsGoing, Operations
<1>7. calls[h] = IdleCall /\ calls' = [calls EXCEPT ![h] = t]
      /\ UNCHANGED <<orders, chats, outbox, aborts, removed>> /\ AnswersGrow("checkout", o)
  BY <1>1, <1>2, <1>3, SameAnswersGrow DEF Checkout, Begin
<1> QED  BY <1>1, <1>3, <1>4, <1>5, <1>6, <1>7, TransitionStarts

LEMMA HoldPricedReturnStarts ==
  ASSUME InductiveInvariant, NEW h \in Handlers, NEW o \in Orders,
         NEW amount \in RefundAmounts, NEW full \in BOOLEAN, HoldPricedReturn(h, o, amount, full)
  PROVE  \E e : Starts(h, e)
<1>1. PICK p : p = [amount |-> amount, full |-> full, from |-> orders[o].status]
  OBVIOUS
<1>2. PICK row : row = [orders[o] EXCEPT !.pending = p]
  OBVIOUS
<1>3. PICK t : t = Transitioning("applyReturnPriced", "saveTransition", o, row,
                                 "RETURN_PENDING_APPROVAL")
  OBVIOUS
<1>4. orders[o] \in OrderRow /\ orders[o].status \in {"DELIVERED", "PARTIALLY_RETURNED"}
  BY RowAt DEF InductiveInvariant, HoldPricedReturn
<1>5. p \in PendingReturn /\ p.from \in RestorableStatuses /\ p.amount > 0 /\ p.from = orders[o].status
  BY <1>1, <1>4, ConstantsAssumed
  DEF PendingReturn, RestorableStatuses, Statuses, ConstantsAssumption, HoldPricedReturn
<1>6. /\ row \in OrderRow /\ row.status = orders[o].status /\ row.pending = p
      /\ row.cash = orders[o].cash /\ row.stockReserved = orders[o].stockReserved
  BY <1>2, <1>4, <1>5 DEF OrderRow
<1>7. /\ row.status \in Statuses /\ CanTransition(row.status, "RETURN_PENDING_APPROVAL")
      /\ Suits("applyReturnPriced", row, "RETURN_PENDING_APPROVAL")
      /\ row.pending.from \in RestorableStatuses
  BY <1>4, <1>5, <1>6 DEF Statuses, CanTransition, ORDER_TRANSITIONS, Suits
<1>8. SetsGoing(t, t) /\ "applyReturnPriced" \in Operations
  BY DEF SetsGoing, Operations
<1>9. /\ calls[h] = IdleCall /\ calls' = [calls EXCEPT ![h] = t]
      /\ UNCHANGED <<orders, chats, outbox, aborts, removed>>
      /\ AnswersGrow("applyReturnPriced", o)
  BY <1>1, <1>2, <1>3, AnsweredGrow DEF HoldPricedReturn, Begin
<1> QED  BY <1>3, <1>6, <1>7, <1>8, <1>9, TransitionStarts

LEMMA ApplyPricedReturnStarts ==
  ASSUME InductiveInvariant, NEW h \in Handlers, NEW o \in Orders,
         NEW amount \in RefundAmounts, NEW full \in BOOLEAN, ApplyPricedReturn(h, o, amount, full)
  PROVE  \E e : Starts(h, e)
<1>1. PICK row : row = orders[o]
  OBVIOUS
<1>2. PICK to : to = IF full THEN "RETURNED" ELSE "PARTIALLY_RETURNED"
  OBVIOUS
<1>3. PICK r : r = [amount |-> amount, full |-> full]
  OBVIOUS
<1>4. PICK t : t = Transitioning("applyReturnPriced", "saveTransition", o, row, to)
  OBVIOUS
<1>5. PICK d : d = [t EXCEPT !.refund = r]
  OBVIOUS
<1>6. row \in OrderRow /\ row.pending.from \in RestorableStatuses
  BY <1>1, RowAt DEF InductiveInvariant
<1>7. /\ row.status \in Statuses /\ CanTransition(row.status, to)
      /\ row.status \notin {"DELIVERED", "PARTIALLY_RETURNED"}
  BY <1>1, <1>2 DEF ApplyPricedReturn, Enabled, Stored
<1>8. Suits("applyReturnPriced", row, to)
  BY <1>2, <1>7 DEF Suits, PaidStatuses
<1>9. r \in Refund
  BY <1>3, ConstantsAssumed DEF Refund, ConstantsAssumption
<1>10. SetsGoing(t, d) /\ "applyReturnPriced" \in Operations
  BY <1>5, <1>9 DEF SetsGoing, Operations
<1>11. /\ calls[h] = IdleCall /\ calls' = [calls EXCEPT ![h] = d]
       /\ UNCHANGED <<orders, chats, outbox, aborts, removed>>
       /\ AnswersGrow("applyReturnPriced", o)
  BY <1>1, <1>2, <1>3, <1>4, <1>5, AnsweredGrow DEF ApplyPricedReturn, Begin
<1> QED  BY <1>1, <1>4, <1>6, <1>7, <1>8, <1>10, <1>11, TransitionStarts

LEMMA DecideReturnStarts ==
  ASSUME InductiveInvariant, NEW h \in Handlers, NEW o \in Orders,
         ApproveReturn(h, o) \/ RejectReturn(h, o)
  PROVE  \E e : Starts(h, e)
<1>1. PICK row : row = [orders[o] EXCEPT !.pending = NoPendingReturn]
  OBVIOUS
<1>2. orders[o] \in OrderRow /\ orders[o].pending.from \in RestorableStatuses
      /\ orders[o].status = "RETURN_PENDING_APPROVAL" /\ orders[o].pending \in PendingReturn
  BY RowAt, RowFields DEF InductiveInvariant, ApproveReturn, RejectReturn
<1>3. /\ row \in OrderRow /\ row.status = "RETURN_PENDING_APPROVAL"
      /\ row.pending.from \in RestorableStatuses
      /\ row.cash = orders[o].cash /\ row.stockReserved = orders[o].stockReserved
  BY <1>1, <1>2, ClearedRow DEF OrderRow
<1>4. {"approveReturn", "rejectReturn"} \subseteq Operations /\ row.status \in Statuses
  BY <1>3 DEF Operations, Statuses
<1>5. CASE ApproveReturn(h, o)
  <2>1. PICK r : r = [amount |-> orders[o].pending.amount, full |-> orders[o].pending.full]
    OBVIOUS
  <2>2. PICK to : to = IF orders[o].pending.full THEN "RETURNED" ELSE "PARTIALLY_RETURNED"
    OBVIOUS
  <2>3. PICK t : t = Transitioning("approveReturn", "saveTransition", o, row, to)
    OBVIOUS
  <2>4. PICK d : d = [t EXCEPT !.refund = r]
    OBVIOUS
  <2>5. r \in Refund
    BY <1>2, <2>1 DEF PendingReturn, Refund
  <2>6. CanTransition(row.status, to) /\ Suits("approveReturn", row, to)
    BY <1>3, <1>4, <2>2 DEF CanTransition, ORDER_TRANSITIONS, Suits, PaidStatuses
  <2>7. SetsGoing(t, d)
    BY <2>4, <2>5 DEF SetsGoing
  <2>8. calls[h] = IdleCall /\ calls' = [calls EXCEPT ![h] = d]
        /\ UNCHANGED <<orders, chats, outbox, aborts, removed>> /\ AnswersGrow("approveReturn", o)
    BY SameAnswersGrow, <1>1, <1>5, <2>1, <2>2, <2>3, <2>4 DEF ApproveReturn, Begin
  <2> QED  BY <1>2, <1>3, <1>4, <2>3, <2>6, <2>7, <2>8, TransitionStarts
<1>6. CASE RejectReturn(h, o)
  <2>1. PICK to : to = IF orders[o].pending.from = "none" THEN "DELIVERED" ELSE orders[o].pending.from
    OBVIOUS
  <2>2. PICK t : t = Transitioning("rejectReturn", "saveTransition", o, row, to)
    OBVIOUS
  <2>3. to \in {"DELIVERED", "PARTIALLY_RETURNED"}
    BY <1>2, <2>1 DEF RestorableStatuses
  <2>4. CanTransition(row.status, to) /\ Suits("rejectReturn", row, to) /\ SetsGoing(t, t)
    BY <1>3, <1>4, <2>3 DEF CanTransition, ORDER_TRANSITIONS, Suits, SetsGoing
  <2>5. calls[h] = IdleCall /\ calls' = [calls EXCEPT ![h] = t]
        /\ UNCHANGED <<orders, chats, outbox, aborts, removed>> /\ AnswersGrow("rejectReturn", o)
    BY SameAnswersGrow, <1>1, <1>6, <2>1, <2>2 DEF RejectReturn, Begin
  <2> QED  BY <1>2, <1>3, <1>4, <2>2, <2>4, <2>5, TransitionStarts
<1> QED  BY <1>5, <1>6
(* A call that writes no transition starts.                                *)
LEMMA PlainStarts ==
  ASSUME InductiveInvariant, NEW h \in Handlers, NEW o \in Orders, NEW op \in Operations,
         op # "applyReturnPriced",
         NEW row \in OrderRow, row.pending.from \in RestorableStatuses,
         NEW pc \in {"saveOrder", "deleteRow", "markReserved"},
         orders[o].status \in Statuses,
         pc = "saveOrder" => /\ row.status = orders[o].status /\ row.status \in SavedStatuses
                             /\ row.history = orders[o].history
                             /\ row.cash = orders[o].cash
                             /\ row.stockReserved = orders[o].stockReserved
                             /\ Ops \cap SavingOps # {},
         pc = "deleteRow" => /\ orders[o].status \in {"DELIVERED", "CANCELLED", "FAILED"}
                             /\ "deleteOrder" \in Ops,
         calls[h] = IdleCall, calls' = [calls EXCEPT ![h] = NewCall(op, pc, o, row)],
         UNCHANGED <<orders, chats, outbox, aborts, removed>>, UNCHANGED answers
  PROVE  \E e : Starts(h, e)
<1>1. PICK d : d = NewCall(op, pc, o, row)
  OBVIOUS
<1>2. d.op = op /\ d.pc = pc /\ d.order = o /\ d.row = row /\ d.expected = "none"
  BY <1>1 DEF NewCall
<1>3. d \in Call
  <2>1. NoRefund \in Refund /\ NoChat \in FoundChat
    BY DEF NoRefund, Refund, NoChat, FoundChat
  <2>2. pc \in Points
    BY DEF Points
  <2> QED  BY <1>1, <2>1, <2>2 DEF NewCall, Call, RefundPolicies
<1>4. CallFits(d)
  BY <1>2 DEF CallFits, PointFits
<1>5. Snapshot(d)
  BY <1>2 DEF Snapshot
<1>6. \A p \in Orders : answers'[p] >= answers[p]
  BY DEF InductiveInvariant, CountersOK
<1> QED  BY <1>1, <1>2, <1>3, <1>4, <1>5, <1>6 DEF Starts

LEMMA PlainOperationsStart ==
  ASSUME InductiveInvariant, NEW h \in Handlers, NEW o \in Orders,
         RateOrder(h, o) \/ DeleteOrder(h, o) \/ RequestReturn(h, o)
  PROVE  \E e : Starts(h, e)
<1>1. {"rateOrder", "deleteOrder", "requestReturn"} \subseteq Operations \ {"applyReturnPriced"}
  BY DEF Operations
<1>2. orders[o] \in OrderRow /\ orders[o].pending.from \in RestorableStatuses
  BY RowAt DEF InductiveInvariant
<1>3. orders[o].status \in Statuses /\ calls[h] = IdleCall
  BY DEF RateOrder, DeleteOrder, RequestReturn, Enabled, Stored, Begin
<1>4. UNCHANGED <<orders, chats, outbox, aborts, removed>> /\ UNCHANGED answers
  BY DEF RateOrder, DeleteOrder, RequestReturn
<1>5. CASE RateOrder(h, o)
  <2>1. PICK row : row = [orders[o] EXCEPT !.rated = TRUE]
    OBVIOUS
  <2>2. /\ row \in OrderRow /\ row.pending.from \in RestorableStatuses
        /\ row.status = orders[o].status /\ row.history = orders[o].history
        /\ row.cash = orders[o].cash /\ row.stockReserved = orders[o].stockReserved
    BY <1>2, <2>1 DEF OrderRow
  <2>3. row.status \in SavedStatuses /\ Ops \cap SavingOps # {}
    BY <1>5, <2>2 DEF RateOrder, Enabled, SavedStatuses, SavingOps
  <2>4. calls' = [calls EXCEPT ![h] = NewCall("rateOrder", "saveOrder", o, row)]
    BY <1>5, <2>1 DEF RateOrder, Begin
  <2> QED  BY <1>1, <1>3, <1>4, <2>2, <2>3, <2>4, PlainStarts
<1>6. CASE DeleteOrder(h, o)
  <2>1. /\ calls' = [calls EXCEPT ![h] = NewCall("deleteOrder", "deleteRow", o, orders[o])]
        /\ orders[o].status \in {"DELIVERED", "CANCELLED", "FAILED"} /\ "deleteOrder" \in Ops
    BY <1>6 DEF DeleteOrder, Begin, Enabled
  <2> QED  BY <1>1, <1>2, <1>3, <1>4, <2>1, PlainStarts
<1>7. CASE RequestReturn(h, o)
  <2>1. /\ calls' = [calls EXCEPT ![h] = NewCall("requestReturn", "saveOrder", o, orders[o])]
        /\ orders[o].status \in SavedStatuses /\ Ops \cap SavingOps # {}
    BY <1>7 DEF RequestReturn, Begin, Enabled, RETURNABLE_STATUSES, SavedStatuses, SavingOps
  <2> QED  BY <1>1, <1>2, <1>3, <1>4, <2>1, PlainStarts
<1> QED  BY <1>5, <1>6, <1>7

LEMMA HandleStockReservationConfirmedStarts ==
  ASSUME InductiveInvariant, NEW h \in Handlers, NEW o \in Orders,
         HandleStockReservationConfirmed(h, o)
  PROVE  \E e : Starts(h, e)
<1>1. PICK op : op = "handleStockReservationConfirmed"
  OBVIOUS
<1>2. op \in Operations \ {"applyReturnPriced", "applyPaymentApproved", "approveReturn"}
      /\ "FULL" \in RefundPolicies
  BY <1>1 DEF Operations, RefundPolicies
<1>3. CASE orders[o].cash /\ Transit(h, o, op, "CONFIRMED", "FULL")
  <2>1. Suits(op, orders[o], "CONFIRMED")
    BY <1>2, <1>3 DEF Suits
  <2> QED  BY <1>2, <1>3, <2>1, TransitStarts
<1>4. CASE /\ Enabled(op, o) /\ Begin(h, NewCall(op, "markReserved", o, orders[o]))
           /\ UNCHANGED <<orders, chats, outbox, answers, aborts, removed>>
  <2>1. orders[o] \in OrderRow /\ orders[o].pending.from \in RestorableStatuses
    BY RowAt DEF InductiveInvariant
  <2>2. /\ orders[o].status \in Statuses /\ calls[h] = IdleCall
        /\ calls' = [calls EXCEPT ![h] = NewCall(op, "markReserved", o, orders[o])]
    BY <1>4 DEF Enabled, Stored, Begin
  <2> QED  BY <1>2, <1>4, <2>1, <2>2, PlainStarts
<1> QED  BY <1>1, <1>3, <1>4 DEF HandleStockReservationConfirmed

\* The call is over, with nothing written.
Returns(h) ==
  /\ calls[h] \in Call
  /\ calls[h].pc \in {"confirmIfPaid", "saveOrder"}
  /\ calls[h].pc = "confirmIfPaid" => ~AwaitsConfirmation(orders[calls[h].order])
  /\ calls' = [calls EXCEPT ![h] = IdleCall]
  /\ UNCHANGED <<orders, chats, outbox, aborts, removed>> /\ UNCHANGED answers

LEMMA ConfirmIfPaidAndReservedStarts ==
  ASSUME InductiveInvariant, CallsFit, NEW h \in Handlers, ConfirmIfPaidAndReserved(h)
  PROVE  Returns(h) \/ \E e : Starts(h, e)
<1>1. PICK c : c = calls[h]
  OBVIOUS
<1>2. c.pc = "confirmIfPaid" /\ c.pc \in Points
  BY <1>1 DEF ConfirmIfPaidAndReserved, At, Points
<1>3. c \in Call /\ c.order \in Orders
  BY <1>1, <1>2, CallAt
<1>4. PICK row : row = orders[c.order]
  OBVIOUS
<1>5. row \in OrderRow /\ row.pending.from \in RestorableStatuses
  BY <1>3, <1>4, RowAt DEF InductiveInvariant
<1>6. UNCHANGED <<orders, chats, outbox, aborts, removed>> /\ UNCHANGED answers
  BY DEF ConfirmIfPaidAndReserved
<1>7. CASE AwaitsConfirmation(row)
  <2>1. PICK t : t = Transitioning("confirmIfPaidAndReserved", "saveTransition", c.order, row,
                                   "CONFIRMED")
    OBVIOUS
  <2>2. calls' = [calls EXCEPT ![h] = t]
    BY <1>1, <1>4, <1>7, <2>1 DEF ConfirmIfPaidAndReserved, AwaitsConfirmation
  <2>3. row.status = "PAYMENT_APPROVED" /\ row.stockReserved
    BY <1>7 DEF AwaitsConfirmation
  <2>4. /\ row.status \in Statuses /\ CanTransition(row.status, "CONFIRMED")
        /\ Suits("confirmIfPaidAndReserved", row, "CONFIRMED") /\ SetsGoing(t, t)
    BY <2>3 DEF Statuses, CanTransition, ORDER_TRANSITIONS, Suits, SetsGoing
  <2>5. "confirmIfPaidAndReserved" \in Operations
        /\ AnswersGrow("confirmIfPaidAndReserved", c.order)
    BY <1>6, SameAnswersGrow DEF Operations
  <2> QED  BY <1>1, <1>2, <1>3, <1>4, <1>5, <1>6, <2>1, <2>2, <2>3, <2>4, <2>5, TransitionStarts
<1>8. CASE ~AwaitsConfirmation(row)
  <2>1. calls' = [calls EXCEPT ![h] = IdleCall]
    BY <1>1, <1>4, <1>8 DEF ConfirmIfPaidAndReserved, AwaitsConfirmation
  <2> QED  BY <1>1, <1>2, <1>3, <1>4, <1>6, <1>8, <2>1 DEF Returns
<1> QED  BY <1>7, <1>8

-----------------------------------------------------------------------------
(* The steps that write an order.                                          *)

\* A new order is inserted.
Creates(h, d, row) ==
  /\ calls[h] = IdleCall /\ d \in Call
  /\ calls' = [calls EXCEPT ![h] = d]
  /\ CallFits(d)
  /\ d.pc = "publishCartCreated"
  /\ d.expected # "none" => d.expected = "CREATED" /\ d.row.status = "PENDING_PAYMENT"
  /\ d.op # "applyReturnPriced"
  /\ orders[d.order] = NoOrder
  /\ row \in OrderRow
  /\ row.status \in {"DRAFT", "CREATED"} /\ (d.expected # "none" => row.status = "CREATED")
  /\ \E by : row.history = <<[from |-> "none", to |-> row.status, by |-> by]>>
  /\ orders' = [orders EXCEPT ![d.order] = row]
  /\ UNCHANGED <<chats, outbox, aborts, removed>> /\ UNCHANGED answers

LEMMA CreateStepsCreate ==
  ASSUME InductiveInvariant, NEW h \in Handlers, NEW o \in Orders, NEW cash \in BOOLEAN,
         CreateOrder(h, o, cash) \/ CreateDraft(h, o, cash)
  PROVE  \E d, row : Creates(h, d, row)
<1>1. {"createOrder", "createDraft"} \subseteq Operations \ {"applyReturnPriced"}
  BY DEF Operations
<1>2. NoRefund \in Refund /\ NoChat \in FoundChat /\ "publishCartCreated" \in Points
  BY DEF NoRefund, Refund, NoChat, FoundChat, Points
<1>3. /\ calls[h] = IdleCall /\ orders[o] = NoOrder
      /\ UNCHANGED <<chats, outbox, aborts, removed>> /\ UNCHANGED answers
  BY DEF CreateOrder, CreateDraft, Begin
<1>4. ASSUME NEW status \in {"DRAFT", "CREATED"}, NEW op \in {"createOrder", "createDraft"},
             NEW row, row = NewOrder(status, cash, op)
      PROVE  /\ row \in OrderRow /\ row.status = status
             /\ row.pending.from \in RestorableStatuses
             /\ row.history = <<[from |-> "none", to |-> row.status, by |-> op]>>
  <2>1. row.history = <<[from |-> "none", to |-> row.status, by |-> op]>>
    BY <1>4 DEF NewOrder, EmptyRow
  <2> QED  BY <1>1, <1>4, <2>1, NewOrderLegal DEF OrderLegal
<1>5. ASSUME NEW status \in {"DRAFT", "CREATED"}, NEW op \in {"createOrder", "createDraft"},
             NEW row, row = NewOrder(status, cash, op),
             orders' = [orders EXCEPT ![o] = row],
             calls' = [calls EXCEPT ![h] = NewCall(op, "publishCartCreated", o, row)]
      PROVE  \E d, r : Creates(h, d, r)
  <2>1. PICK d : d = NewCall(op, "publishCartCreated", o, row)
    OBVIOUS
  <2>2. d.op = op /\ d.pc = "publishCartCreated" /\ d.order = o /\ d.expected = "none"
    BY <2>1 DEF NewCall
  <2>3. d \in Call
    BY <1>1, <1>2, <1>4, <1>5, <2>1 DEF NewCall, Call, RefundPolicies
  <2>4. CallFits(d)
    BY <2>2 DEF CallFits, PointFits
  <2>5. op # "applyReturnPriced"
    OBVIOUS
  <2>6. /\ row \in OrderRow /\ row.status \in {"DRAFT", "CREATED"}
        /\ \E by : row.history = <<[from |-> "none", to |-> row.status, by |-> by]>>
    BY <1>4, <1>5
  <2>7. calls' = [calls EXCEPT ![h] = d] /\ orders' = [orders EXCEPT ![d.order] = row]
    BY <1>5, <2>1, <2>2
  <2>8. calls[h] = IdleCall /\ orders[d.order] = NoOrder
    BY <1>3, <2>2
  <2>9. Creates(h, d, row)
    BY <1>3, <2>2, <2>3, <2>4, <2>5, <2>6, <2>7, <2>8 DEF Creates
  <2> QED  BY <2>9
<1>6. CASE CreateOrder(h, o, cash) /\ ~cash
  <2>1. PICK row : row = NewOrder("CREATED", cash, "createOrder")
    OBVIOUS
  <2>2. PICK d : d = Transitioning("createOrder", "publishCartCreated", o, row, "PENDING_PAYMENT")
    OBVIOUS
  <2>3. /\ row \in OrderRow /\ row.status = "CREATED" /\ row.pending.from \in RestorableStatuses
        /\ row.history = <<[from |-> "none", to |-> row.status, by |-> "createOrder"]>>
    BY <1>4, <2>1
  <2>4. row.status \in Statuses /\ CanTransition(row.status, "PENDING_PAYMENT") /\ SetsGoing(d, d)
    BY <2>3 DEF Statuses, CanTransition, ORDER_TRANSITIONS, SetsGoing
  <2>5. /\ d \in Call /\ d.op = "createOrder" /\ d.pc = "publishCartCreated" /\ d.order = o
        /\ d.expected = row.status /\ d.row.status = "PENDING_PAYMENT"
        /\ LastEntry(d.row).by = "createOrder"
    BY <1>1, <2>2, <2>3, <2>4, TransitioningFields
  <2>6. CallFits(d)
    BY <2>3, <2>5 DEF CallFits, PointFits, OperationFits
  <2>7. orders' = [orders EXCEPT ![o] = row] /\ calls' = [calls EXCEPT ![h] = d]
    BY <1>6, <2>1, <2>2 DEF CreateOrder, Begin
  <2> QED  BY <1>3, <2>3, <2>5, <2>6, <2>7 DEF Creates
<1>7. CASE CreateOrder(h, o, cash) /\ cash
  <2>1. PICK row : row = NewOrder("CREATED", cash, "createOrder")
    OBVIOUS
  <2>2. orders' = [orders EXCEPT ![o] = row]
        /\ calls' = [calls EXCEPT ![h] = NewCall("createOrder", "publishCartCreated", o, row)]
    BY <1>7, <2>1 DEF CreateOrder, Begin
  <2> QED  BY <1>5, <2>1, <2>2
<1>8. CASE CreateDraft(h, o, cash)
  <2>1. PICK row : row = NewOrder("DRAFT", cash, "createDraft")
    OBVIOUS
  <2>2. orders' = [orders EXCEPT ![o] = row]
        /\ calls' = [calls EXCEPT ![h] = NewCall("createDraft", "publishCartCreated", o, row)]
    BY <1>8, <2>1 DEF CreateDraft, Begin
  <2> QED  BY <1>5, <2>1, <2>2
<1> QED  BY <1>6, <1>7, <1>8

\* The compare-and-set succeeds: the row becomes `row`.
Commits(h, d, row) ==
  LET c == calls[h] IN
  /\ c \in Call /\ c.pc = "saveTransition" /\ CallFits(c)
  /\ c.expected # "none" /\ CarriesTransition(c)
  /\ orders[c.order].status = c.expected
  /\ row \in OrderRow
  /\ row.status = c.row.status /\ row.pending = c.row.pending
  /\ row.history = Append(orders[c.order].history, LastEntry(c.row))
  /\ LastEntry(c.row) \in HistoryEntry
  /\ row.cash = orders[c.order].cash /\ row.stockReserved = orders[c.order].stockReserved
  /\ orders' = [orders EXCEPT ![c.order] = row]
  /\ calls' = [calls EXCEPT ![h] = d]
  /\ d \in Call /\ SameCall(c, d) /\ d.pc = "publishStatusChanged" /\ CallFits(d)
  /\ UNCHANGED <<chats, outbox, aborts, removed>> /\ UNCHANGED answers

LEMMA SaveTransitionCommits ==
  ASSUME InductiveInvariant, CallsFit, NEW h \in Handlers, SaveTransition(h)
  PROVE  \E d, row : Commits(h, d, row)
<1>1. PICK c : c = calls[h]
  OBVIOUS
<1>2. c.pc = "saveTransition" /\ c.pc \in Points /\ orders[c.order].status = c.expected
  BY <1>1 DEF SaveTransition, At, Points
<1>3. c \in Call /\ CallFits(c) /\ CallLegal(c) /\ c.order \in Orders
  BY <1>1, <1>2, CallAt
<1>4. /\ c.expected \in Statuses \cup {"none"} /\ c.row \in OrderRow
      /\ orders[c.order] \in OrderRow /\ orders[c.order].status = c.expected
  BY <1>2, <1>3, CallFields, RowAt DEF InductiveInvariant
<1>5. c.expected # "none" /\ CarriesTransition(c)
  BY <1>2, <1>3 DEF CallLegal
<1>6. PICK e : e = LastEntry(c.row)
  OBVIOUS
<1>7. e \in HistoryEntry /\ c.row.status \in Statuses
  <2>1. c.row.history \in Seq(HistoryEntry) /\ c.row.history # <<>>
    BY <1>4, <1>5, RowFields DEF CarriesTransition
  <2>2. e \in HistoryEntry
    BY <1>6, <2>1 DEF LastEntry
  <2> QED  BY <1>5, <2>2 DEF CarriesTransition
<1>8. PICK row : row = [orders[c.order] EXCEPT !.status = c.row.status, !.pending = c.row.pending,
                                               !.history = Append(@, e)]
  OBVIOUS
<1>9. Append(orders[c.order].history, e) \in Seq(HistoryEntry)
  BY <1>4, <1>7 DEF OrderRow
<1>10. /\ row \in OrderRow /\ row.status = c.row.status /\ row.pending = c.row.pending
       /\ row.history = Append(orders[c.order].history, e)
       /\ row.cash = orders[c.order].cash /\ row.stockReserved = orders[c.order].stockReserved
  BY <1>4, <1>7, <1>8, <1>9 DEF OrderRow
<1>11. orders' = [orders EXCEPT ![c.order] = row]
  BY <1>1, <1>3, <1>6, <1>8 DEF SaveTransition, InductiveInvariant, RowsOK
<1>12. PICK d : d = [c EXCEPT !.pc = "publishStatusChanged"]
  OBVIOUS
<1>13. d \in Call /\ SameCall(c, d) /\ d.pc = "publishStatusChanged"
  BY <1>3, <1>12 DEF Call, SameCall, Points
<1>14. CallFits(d)
  BY <1>3, <1>13 DEF CallFits, PointFits, OperationFits, SameCall
<1>15. calls' = [calls EXCEPT ![h] = d]
  BY <1>1, <1>12 DEF SaveTransition, Continue
<1>16. UNCHANGED <<chats, outbox, aborts, removed>> /\ UNCHANGED answers
  BY DEF SaveTransition
<1> QED
  BY <1>1, <1>2, <1>3, <1>5, <1>6, <1>7, <1>10, <1>11, <1>13, <1>14, <1>15, <1>16 DEF Commits

\* The reservation of the stock is recorded.
Reserves(h, d, row) ==
  LET c == calls[h] IN
  /\ c \in Call /\ c.pc = "markReserved"
  /\ row \in OrderRow
  /\ row.status = orders[c.order].status /\ row.pending = orders[c.order].pending
  /\ row.history = orders[c.order].history /\ row.cash = orders[c.order].cash
  /\ orders[c.order].stockReserved => row.stockReserved
  /\ orders' = [orders EXCEPT ![c.order] = row]
  /\ calls' = [calls EXCEPT ![h] = d]
  /\ d \in Call /\ SameCall(c, d) /\ d.pc = "confirmIfPaid" /\ CallFits(d)
  /\ UNCHANGED <<chats, outbox, aborts, removed>> /\ UNCHANGED answers

LEMMA MarkStockReservedReserves ==
  ASSUME InductiveInvariant, CallsFit, NEW h \in Handlers, MarkStockReserved(h)
  PROVE  \E d, row : Reserves(h, d, row)
<1>1. PICK c : c = calls[h]
  OBVIOUS
<1>2. c.pc = "markReserved" /\ c.pc \in Points
  BY <1>1 DEF MarkStockReserved, At, Points
<1>3. c \in Call /\ CallFits(c) /\ c.order \in Orders
  BY <1>1, <1>2, CallAt
<1>4. orders[c.order] \in OrderRow
  BY <1>3, RowAt DEF InductiveInvariant
<1>5. PICK reserved : reserved = (Stored(c.order) \/ orders[c.order].stockReserved)
  OBVIOUS
<1>6. reserved \in BOOLEAN /\ (orders[c.order].stockReserved => reserved)
  BY <1>5
<1>7. PICK row : row = [orders[c.order] EXCEPT !.stockReserved = reserved]
  OBVIOUS
<1>8. /\ row \in OrderRow /\ row.status = orders[c.order].status
      /\ row.pending = orders[c.order].pending /\ row.history = orders[c.order].history
      /\ row.cash = orders[c.order].cash /\ row.stockReserved = reserved
  BY <1>4, <1>6, <1>7 DEF OrderRow
<1>9. orders' = [orders EXCEPT ![c.order] = row]
  BY <1>1, <1>3, <1>4, <1>5, <1>7 DEF MarkStockReserved, InductiveInvariant, RowsOK, OrderRow
<1>10. PICK d : d = [c EXCEPT !.pc = "confirmIfPaid"]
  OBVIOUS
<1>11. d \in Call /\ SameCall(c, d) /\ d.pc = "confirmIfPaid"
  BY <1>3, <1>10 DEF Call, SameCall, Points
<1>12. CallFits(d)
  BY <1>3, <1>11 DEF CallFits, PointFits, OperationFits, SameCall
<1>13. calls' = [calls EXCEPT ![h] = d]
  BY <1>1, <1>10 DEF MarkStockReserved, Continue
<1>14. UNCHANGED <<chats, outbox, aborts, removed>> /\ UNCHANGED answers
  BY DEF MarkStockReserved
<1> QED
  BY <1>1, <1>2, <1>3, <1>6, <1>8, <1>9, <1>11, <1>12, <1>13, <1>14 DEF Reserves

\* The snapshot of rateOrder or requestReturn is written back.
Saves(h, d) ==
  LET c == calls[h] IN
  /\ c \in Call /\ c.pc = "saveOrder" /\ CallFits(c) /\ CallLegal(c)
  /\ orders[c.order] = DeletedOrder \/ orders[c.order].history = c.row.history
  /\ orders' = [orders EXCEPT ![c.order] = c.row]
  /\ calls' = [calls EXCEPT ![h] = d]
  /\ \/ d = IdleCall
     \/ /\ d \in Call /\ SameCall(c, d)
        /\ d.pc \in {"findChatToReopen", "publishReturnRequested"}
  /\ CallFits(d)
  /\ UNCHANGED <<chats, outbox, aborts, removed>> /\ UNCHANGED answers

LEMMA SaveOrderSaves ==
  ASSUME InductiveInvariant, CallsFit, NEW h \in Handlers, SaveOrder(h)
  PROVE  Returns(h) \/ \E d : Saves(h, d)
<1>1. PICK c : c = calls[h]
  OBVIOUS
<1>2. c.pc = "saveOrder" /\ c.pc \in Points
  BY <1>1 DEF SaveOrder, At, Points
<1>3. c \in Call /\ CallFits(c) /\ CallLegal(c) /\ c.order \in Orders
  BY <1>1, <1>2, CallAt
<1>4. UNCHANGED <<chats, outbox, aborts, removed>> /\ UNCHANGED answers
  BY DEF SaveOrder
<1>5. CASE UNCHANGED orders /\ Finish(h)
  <2>1. calls' = [calls EXCEPT ![h] = IdleCall]
    BY <1>5 DEF Finish
  <2> QED  BY <1>1, <1>2, <1>3, <1>4, <1>5, <2>1 DEF Returns
<1>6. ASSUME NEW pc \in {"idle", "findChatToReopen", "publishReturnRequested"},
             Continue(h, c, pc), orders' = [orders EXCEPT ![c.order] = c.row],
             orders[c.order] = DeletedOrder \/ orders[c.order].history = c.row.history
      PROVE  \E d : Saves(h, d)
  <2>1. PICK d : d = IF pc = "idle" THEN IdleCall ELSE [c EXCEPT !.pc = pc]
    OBVIOUS
  <2>2. pc \in Points \cup {"idle"}
    BY DEF Points
  <2>3. d.pc = pc /\ (pc = "idle" => d = IdleCall) /\ (pc # "idle" => d \in Call /\ SameCall(c, d))
    BY <1>3, <2>1, <2>2, Continued
  <2>4. CallFits(d)
    BY <1>3, <2>3, IdleOwesNothing DEF CallFits, PointFits, OperationFits, SameCall
  <2>5. calls' = [calls EXCEPT ![h] = d]
    BY <1>6, <2>1 DEF Continue
  <2> QED  BY <1>1, <1>2, <1>3, <1>4, <1>6, <2>3, <2>4, <2>5 DEF Saves
<1>7. PICK pc : pc = CASE c.op = "rateOrder" -> "idle"
                       [] c.row.status \in {"DELIVERED", "PARTIALLY_RETURNED"} -> "findChatToReopen"
                       [] OTHER -> "publishReturnRequested"
  OBVIOUS
<1>8. pc \in {"idle", "findChatToReopen", "publishReturnRequested"}
  BY <1>7
<1>9. \/ UNCHANGED orders /\ Finish(h)
      \/ /\ Continue(h, c, pc) /\ orders' = [orders EXCEPT ![c.order] = c.row]
         /\ orders[c.order] = DeletedOrder \/ orders[c.order].history = c.row.history
  BY <1>1, <1>7 DEF SaveOrder
<1> QED  BY <1>5, <1>6, <1>8, <1>9

\* The row is deleted.
Deletes(h) ==
  /\ calls[h] \in Call /\ calls[h].pc = "deleteRow"
  /\ "deleteOrder" \in Ops
  /\ orders' = [orders EXCEPT ![calls[h].order] = DeletedOrder]
  /\ calls' = [calls EXCEPT ![h] = IdleCall]
  /\ IF Stored(calls[h].order) THEN Remove(calls[h].order) ELSE UNCHANGED removed
  /\ UNCHANGED <<chats, outbox, aborts>> /\ UNCHANGED answers

LEMMA DeleteRowDeletes ==
  ASSUME InductiveInvariant, CallsFit, NEW h \in Handlers, DeleteRow(h)
  PROVE  Deletes(h)
<1>1. PICK c : c = calls[h]
  OBVIOUS
<1>2. c.pc = "deleteRow" /\ c.pc \in Points
  BY <1>1 DEF DeleteRow, At, Points
<1>3. c \in Call /\ CallFits(c)
  BY <1>1, <1>2, CallAt
<1>4. "deleteOrder" \in Ops
  BY <1>2, <1>3 DEF CallFits, PointFits
<1> QED  BY <1>1, <1>2, <1>3, <1>4 DEF DeleteRow, Deletes, Finish

-----------------------------------------------------------------------------
(* Faults.                                                                 *)

\* A call, or its conversation, is lost on the way.
Fails(h, d) ==
  LET c == calls[h] IN
  /\ c \in Call
  /\ calls' = [calls EXCEPT ![h] = d]
  /\ \/ d = IdleCall
     \/ /\ d \in Call /\ SameCall(c, d)
        /\ d.pc \notin {"saveOrder", "deleteRow", "markReserved", "saveTransition"}
  /\ CallFits(d)
  /\ \A key \in DebtKeys : Owes(d, key) => Owes(c, key)
  /\ OpensChat(d) => OpensChat(c)
  /\ UNCHANGED <<orders, chats, outbox, removed>> /\ UNCHANGED answers
  /\ aborts' = aborts + 1

LEMMA FaultsFail ==
  ASSUME InductiveInvariant, CallsFit, NEW h \in Handlers, Abort(h) \/ ConversationFailure(h)
  PROVE  \E d : Fails(h, d)
<1>1. CASE Abort(h)
  <2>1. calls[h] \in Call
    BY <1>1 DEF Abort, InductiveInvariant, CallsOK
  <2>2. calls' = [calls EXCEPT ![h] = IdleCall] /\ aborts' = aborts + 1
        /\ UNCHANGED <<orders, chats, outbox, removed>> /\ UNCHANGED answers
    BY <1>1 DEF Abort, Finish
  <2> QED  BY <2>1, <2>2, IdleOwesNothing DEF Fails
<1>2. CASE ConversationFailure(h)
  <2>1. PICK c : c = calls[h]
    OBVIOUS
  <2>2. c.pc \in {"findChat", "createChat"} /\ c.pc \in Points
    BY <1>2, <2>1 DEF ConversationFailure, At, Points
  <2>3. c \in Call /\ CallFits(c)
    BY <2>1, <2>2, CallAt
  <2>4. PICK pc : pc = AfterFinalize(c)
    OBVIOUS
  <2>5. Leads(c, pc, "none")
    BY <2>2, <2>3, <2>4, DebtCases, IncurCases
    DEF Leads, CallFits, PointFits, OperationFits, OpensChat, DebtPoints, AfterFinalize,
        PaidStatuses
  <2>6. PICK d : d = IF pc = "idle" THEN IdleCall ELSE [c EXCEPT !.pc = pc]
    OBVIOUS
  <2>7. pc \in Points \cup {"idle"}
    BY <2>4, LaterPointsFacts
  <2>8. d.pc = pc /\ (pc = "idle" => d = IdleCall) /\ (pc # "idle" => d \in Call /\ SameCall(c, d))
    BY <2>3, <2>6, <2>7, Continued
  <2>9. Moves(c, d, "none")
    BY <2>3, <2>5, <2>8, MovesWhen
  <2>10. calls' = [calls EXCEPT ![h] = d] /\ aborts' = aborts + 1
         /\ UNCHANGED <<orders, chats, outbox, removed>> /\ UNCHANGED answers
    BY <1>2, <2>1, <2>4, <2>6 DEF ConversationFailure, Continue
  <2> QED  BY <2>1, <2>2, <2>3, <2>9, <2>10 DEF Fails, Moves, Settles
<1> QED  BY <1>1, <1>2

-----------------------------------------------------------------------------
(* The kinds of step.                                                      *)

\* Nothing but the count of the prices delivered changes.
Rests ==
  /\ UNCHANGED <<orders, chats, outbox, calls, aborts, removed>>
  /\ \A o \in Orders : answers'[o] >= answers[o]

HandlerSteps(h) ==
  \/ \E d, e : Advances(h, d, e)
  \/ \E d : Starts(h, d) \/ Saves(h, d) \/ Fails(h, d)
  \/ \E d, row : Creates(h, d, row) \/ Commits(h, d, row) \/ Reserves(h, d, row)
  \/ Returns(h) \/ Deletes(h)

(* The awaited calls of an operation are of these kinds.                   *)
LEMMA AwaitedSteps ==
  ASSUME InductiveInvariant, CallsFit, NEW h \in Handlers, Step(h)
  PROVE  HandlerSteps(h)
<1>1. CASE \/ SaveTransition(h) \/ MarkStockReserved(h) \/ ConfirmIfPaidAndReserved(h)
           \/ SaveOrder(h) \/ DeleteRow(h)
  BY <1>1, SaveTransitionCommits, MarkStockReservedReserves, ConfirmIfPaidAndReservedStarts,
     SaveOrderSaves, DeleteRowDeletes
  DEF HandlerSteps
<1>2. CASE \/ PublishCartCreated(h) \/ PublishCartItems(h) \/ PublishCreated(h)
           \/ PublishStatusChanged(h) \/ PublishConfirmed(h) \/ PublishReady(h)
           \/ PublishCancelled(h) \/ PublishReturnRequested(h) \/ PublishReturnConfirmed(h)
  BY <1>2, PlacingAdvances, PublishStatusChangedAdvances, PublishConfirmedAdvances,
     PublishReadyAdvances, PublishCancelledAdvances, PublishRequestAdvances,
     PublishReturnConfirmedAdvances
  DEF HandlerSteps
<1>3. CASE \/ TransitionConflict(h) \/ FindConversation(h) \/ CreateConversation(h)
           \/ FindConversationToClose(h) \/ CloseConversation(h)
           \/ FindConversationToReopen(h) \/ ReopenConversation(h)
           \/ FindConversationForCard(h) \/ ReadCards(h)
           \/ SaveCard(h) \/ TouchConversation(h)
  BY <1>3, TransitionConflictAdvances, FindConversationAdvances, CreateConversationAdvances,
     FindConversationToCloseAdvances, FindConversationToReopenAdvances,
     FindConversationForCardAdvances, ReadCardsAdvances, ChatEditsAdvance
  DEF HandlerSteps
<1> QED  BY <1>1, <1>2, <1>3 DEF Step

LEMMA StepKinds ==
  ASSUME InductiveInvariant, CallsFit, [Next]_vars
  PROVE  Rests \/ \E h \in Handlers : HandlerSteps(h)
<1>1. ASSUME NEW h \in Handlers, NEW o \in Orders, HttpRequest(h, o)
      PROVE  HandlerSteps(h)
  BY <1>1, CreateStepsCreate, CheckoutStarts, TransitsStart, PlainOperationsStart,
     DecideReturnStarts
  DEF HttpRequest, HandlerSteps
<1>2. ASSUME NEW h \in Handlers, NEW o \in Orders, BusMessage(h, o)
      PROVE  HandlerSteps(h)
  BY <1>2, TransitsStart, HandleStockReservationConfirmedStarts, HoldPricedReturnStarts,
     ApplyPricedReturnStarts
  DEF BusMessage, HandlerSteps
<1>3. ASSUME NEW h \in Handlers, Step(h)
      PROVE  HandlerSteps(h)
  BY <1>3, AwaitedSteps
<1>4. ASSUME NEW h \in Handlers, Abort(h) \/ ConversationFailure(h)
      PROVE  HandlerSteps(h)
  BY <1>4, FaultsFail DEF HandlerSteps
<1>5. ASSUME NEW o \in Orders, NEW amount, NEW full, IgnorePricedReturn(o, amount, full)
      PROVE  Rests
  BY <1>5 DEF IgnorePricedReturn, Answered, Rests, InductiveInvariant, CountersOK
<1>6. CASE UNCHANGED vars
  BY <1>6 DEF vars, Rests, InductiveInvariant, CountersOK
<1> QED  BY <1>1, <1>2, <1>3, <1>4, <1>5, <1>6 DEF Next

-----------------------------------------------------------------------------
(* What follows of every step.                                             *)

\* The step of h leaves this call behind.
Leaves(h, d) ==
  /\ calls' = [calls EXCEPT ![h] = d]
  /\ CallFits(d)
  /\ d = IdleCall \/ d \in Call
  /\ calls[h] = IdleCall \/ d = IdleCall \/ d.order = calls[h].order

LEMMA StepLeaves ==
  ASSUME NEW h, HandlerSteps(h)
  PROVE  \E d : Leaves(h, d)
<1>1. ASSUME NEW d, NEW e, Advances(h, d, e)
      PROVE  Leaves(h, d)
  BY <1>1 DEF Advances, Moves, SameCall, Leaves
<1>2. ASSUME NEW d, Starts(h, d) \/ Saves(h, d) \/ Fails(h, d)
      PROVE  Leaves(h, d)
  BY <1>2 DEF Starts, Saves, Fails, SameCall, Leaves
<1>3. ASSUME NEW d, NEW row, Creates(h, d, row) \/ Commits(h, d, row) \/ Reserves(h, d, row)
      PROVE  Leaves(h, d)
  BY <1>3 DEF Creates, Commits, Reserves, SameCall, Leaves
<1>4. ASSUME Returns(h) \/ Deletes(h)
      PROVE  Leaves(h, IdleCall)
  BY <1>4, IdleOwesNothing DEF Returns, Deletes, Leaves
<1> QED  BY <1>1, <1>2, <1>3, <1>4 DEF HandlerSteps

LEMMA CallsFitKept ==
  ASSUME InductiveInvariant, CallsFit, [Next]_vars
  PROVE  CallsFit'
<1>1. CASE Rests
  BY <1>1 DEF Rests, CallsFit
<1>2. ASSUME NEW h \in Handlers, HandlerSteps(h)
      PROVE  CallsFit'
  <2>1. PICK d : calls' = [calls EXCEPT ![h] = d] /\ CallFits(d)
    BY <1>2, StepLeaves DEF Leaves
  <2>2. \A g \in Handlers : calls'[g] = calls[g] \/ calls'[g] = d
    BY <2>1 DEF InductiveInvariant, CallsOK
  <2> QED  BY <2>1, <2>2 DEF CallsFit
<1> QED  BY <1>1, <1>2, StepKinds

LEMMA CallsFitInitially == Init => CallsFit
BY IdleOwesNothing DEF Init, CallsFit

(* Every call in progress stands where what it carries is of use.          *)
LEMMA CallsAlwaysFit == Spec => []CallsFit
<1>1. InductiveInvariant /\ InductiveInvariant' /\ CallsFit /\ [Next]_vars => CallsFit'
  BY CallsFitKept
<1> QED  BY <1>1, CallsFitInitially, InvariantHolds, PTL DEF Spec

-----------------------------------------------------------------------------
(* How the debts of an order, and the events that settle them, move.       *)

\* The second set has one more element.
OneMore(S, T) == \E x : x \notin S /\ T = S \cup {x}

LEMMA OtherEventAppended ==
  ASSUME NEW events \in Seq(Event), NEW event \in Event, NEW key, event.key # key,
         NEW more, more = Append(events, event)
  PROVE  EventsIn(more, key) = EventsIn(events, key)
<1>1. PICK n : n = Len(events)
  OBVIOUS
<1>2. n \in Nat /\ DOMAIN events = 1..n
  BY <1>1, LenProperties
<1>3. /\ DOMAIN more = 1..(n + 1) /\ more[n + 1] = event
      /\ \A i \in 1..n : more[i] = events[i]
  BY <1>1, <1>2, AppendProperties
<1>4. 1..(n + 1) = 1..n \cup {n + 1}
  BY <1>2
<1> QED  BY <1>2, <1>3, <1>4 DEF EventsIn

LEMMA EventAppended ==
  ASSUME NEW events \in Seq(Event), NEW event \in Event, NEW key, event.key = key,
         NEW more, more = Append(events, event)
  PROVE  OneMore(EventsIn(events, key), EventsIn(more, key))
<1>1. PICK n : n = Len(events)
  OBVIOUS
<1>2. n \in Nat /\ DOMAIN events = 1..n
  BY <1>1, LenProperties
<1>3. /\ DOMAIN more = 1..(n + 1) /\ more[n + 1] = event
      /\ \A i \in 1..n : more[i] = events[i]
  BY <1>1, <1>2, AppendProperties
<1>4. 1..(n + 1) = 1..n \cup {n + 1} /\ n + 1 \notin 1..n
  BY <1>2
<1>5. EventsIn(more, key) = EventsIn(events, key) \cup {n + 1}
  BY <1>2, <1>3, <1>4 DEF EventsIn
<1>6. n + 1 \notin EventsIn(events, key)
  BY <1>2, <1>4 DEF EventsIn
<1> QED  BY <1>5, <1>6 DEF OneMore

\* The events of this key are the old ones, unchanged, and the new one.
EventsStay(events, more, event, key) ==
  \A i \in EventsIn(more, key) :
    \/ i \in EventsIn(events, key) /\ more[i] = events[i]
    \/ event.key = key /\ more[i] = event

LEMMA AppendedEventsStay ==
  ASSUME NEW events \in Seq(Event), NEW event \in Event, NEW key,
         NEW more, more = Append(events, event)
  PROVE  EventsStay(events, more, event, key)
<1>1. PICK n : n = Len(events)
  OBVIOUS
<1>2. n \in Nat /\ DOMAIN events = 1..n
  BY <1>1, LenProperties
<1>3. /\ DOMAIN more = 1..(n + 1) /\ more[n + 1] = event
      /\ \A j \in 1..n : more[j] = events[j]
  BY <1>1, <1>2, AppendProperties
<1>4. \A i \in 1..(n + 1) : i \in 1..n \/ i = n + 1
  BY <1>2
<1> QED  BY <1>2, <1>3, <1>4 DEF EventsIn, EventsStay

LEMMA EventsFinite ==
  ASSUME NEW events, NEW S, events \in Seq(S), NEW key
  PROVE  IsFiniteSet(EventsIn(events, key))
<1>1. DOMAIN events = 1..Len(events) /\ Len(events) \in Nat
  BY LenProperties
<1>2. IsFiniteSet(1..Len(events))
  BY <1>1, FS_Interval
<1> QED  BY <1>1, <1>2, FS_Subset DEF EventsIn

(* The calls that owe an event, after the step of one of them.             *)
LEMMA OwingAfter ==
  ASSUME InductiveInvariant, NEW h \in Handlers, NEW d, calls' = [calls EXCEPT ![h] = d],
         NEW o, NEW key
  PROVE  /\ \A g \in Handlers \ {h} : g \in Owing(o, key)' <=> g \in Owing(o, key)
         /\ h \in Owing(o, key)' <=> d.order = o /\ Owes(d, key)
         /\ h \in Owing(o, key) <=> calls[h].order = o /\ Owes(calls[h], key)
         /\ Owing(o, key) \subseteq Handlers /\ Owing(o, key)' \subseteq Handlers
<1>1. calls'[h] = d /\ \A g \in Handlers \ {h} : calls'[g] = calls[g]
  BY DEF InductiveInvariant, CallsOK
<1> QED  BY <1>1 DEF Owing

\* What a step does with one event of one order: nothing, or it is announced by
\* the call that owes it, or the call that owes it is lost, or a call incurs it.
DebtKept(o, key) ==
  EventsOf(o, key)' = EventsOf(o, key) /\ Owing(o, key)' = Owing(o, key)

DebtTold(o, key) ==
  \E h, i :
    /\ h \in Owing(o, key) /\ Owing(o, key)' = Owing(o, key) \ {h}
    /\ i \notin EventsOf(o, key) /\ EventsOf(o, key)' = EventsOf(o, key) \cup {i}

DebtDropped(o, key) ==
  EventsOf(o, key)' = EventsOf(o, key) /\ \E h : Owing(o, key)' = Owing(o, key) \ {h}

DebtIncurred(o, key) ==
  /\ EventsOf(o, key)' = EventsOf(o, key)
  /\ \E h : h \notin Owing(o, key) /\ Owing(o, key)' = Owing(o, key) \cup {h}

LEMMA SameEvents ==
  ASSUME UNCHANGED outbox, NEW o, NEW key
  PROVE  EventsOf(o, key)' = EventsOf(o, key)
BY DEF EventsOf

(* A step after which the call owes what it owed.                          *)
LEMMA DebtsKept ==
  ASSUME InductiveInvariant, NEW h \in Handlers, NEW d, calls' = [calls EXCEPT ![h] = d],
         UNCHANGED outbox, NEW o, NEW key,
         (calls[h].order = o /\ Owes(calls[h], key)) <=> (d.order = o /\ Owes(d, key))
  PROVE  DebtKept(o, key)
<1>1. /\ \A g \in Handlers \ {h} : g \in Owing(o, key)' <=> g \in Owing(o, key)
      /\ h \in Owing(o, key)' <=> h \in Owing(o, key)
      /\ Owing(o, key) \subseteq Handlers /\ Owing(o, key)' \subseteq Handlers
  BY OwingAfter
<1>2. Owing(o, key)' = Owing(o, key)
  BY <1>1
<1> QED  BY <1>2, SameEvents DEF DebtKept

LEMMA AdvanceDebts ==
  ASSUME InductiveInvariant, NEW h \in Handlers, NEW d, NEW e, Advances(h, d, e),
         NEW o \in Orders, NEW key \in DebtKeys
  PROVE  DebtKept(o, key) \/ DebtTold(o, key)
<1>1. PICK c : c = calls[h]
  OBVIOUS
<1>2. /\ c \in Call /\ c.order \in Orders /\ Settles(c, d, e) /\ Inserts(c, e)
      /\ calls' = [calls EXCEPT ![h] = d]
      /\ d = IdleCall \/ d.order = c.order
  BY <1>1, CallFields DEF Advances, Moves, SameCall
<1>3. /\ Owes(c, key) <=> (Owes(d, key) \/ e = key)
      /\ ~(Owes(d, key) /\ e = key)
  BY <1>2 DEF Settles
<1>4. /\ \A g \in Handlers \ {h} : g \in Owing(o, key)' <=> g \in Owing(o, key)
      /\ h \in Owing(o, key)' <=> d.order = o /\ Owes(d, key)
      /\ h \in Owing(o, key) <=> c.order = o /\ Owes(c, key)
      /\ Owing(o, key) \subseteq Handlers /\ Owing(o, key)' \subseteq Handlers
  BY <1>1, <1>2, OwingAfter
<1>5. Owes(d, key) => d.order = c.order
  BY <1>2, IdleOwesNothing
<1>6. CASE UNCHANGED outbox /\ e = "none"
  <2>1. e # key
    BY <1>6 DEF DebtKeys, DebtPoints
  <2>2. Owing(o, key)' = Owing(o, key)
    BY <1>3, <1>4, <1>5, <2>1
  <2> QED  BY <1>6, <2>2, SameEvents DEF DebtKept
<1>7. ASSUME NEW event \in Event, Publish(c.order, event), event.key = e
      PROVE  DebtKept(o, key) \/ DebtTold(o, key)
  <2>1. outbox[o] \in Seq(Event) /\ outbox[c.order] \in Seq(Event)
    BY <1>2 DEF InductiveInvariant, OutboxOK
  <2>2. outbox'[o] = IF o = c.order THEN Append(outbox[o], event) ELSE outbox[o]
    BY <1>2, <1>7 DEF Publish, InductiveInvariant, OutboxOK
  <2>3. EventsOf(o, key) = EventsIn(outbox[o], key) /\ EventsOf(o, key)' = EventsIn(outbox'[o], key)
    BY DEF EventsOf, EventsIn
  <2>4. CASE o # c.order \/ e # key
    <3>1. EventsOf(o, key)' = EventsOf(o, key)
      <4>1. CASE o = c.order
        <5>1. PICK more : more = Append(outbox[o], event)
          OBVIOUS
        <5>2. EventsIn(more, key) = EventsIn(outbox[o], key)
          BY <1>7, <2>1, <2>4, <4>1, <5>1, OtherEventAppended
        <5> QED  BY <2>2, <2>3, <4>1, <5>1, <5>2
      <4> QED  BY <2>2, <2>3, <4>1
    <3>2. Owing(o, key)' = Owing(o, key)
      BY <1>3, <1>4, <1>5, <2>4
    <3> QED  BY <3>1, <3>2 DEF DebtKept
  <2>5. CASE o = c.order /\ e = key
    <3>1. PICK more : more = Append(outbox[o], event)
      OBVIOUS
    <3>2. OneMore(EventsIn(outbox[o], key), EventsIn(more, key))
      BY <1>7, <2>1, <2>5, <3>1, EventAppended
    <3>3. h \in Owing(o, key) /\ Owing(o, key)' = Owing(o, key) \ {h}
      BY <1>3, <1>4, <2>5
    <3> QED  BY <2>2, <2>3, <2>5, <3>1, <3>2, <3>3 DEF DebtTold, OneMore
  <2> QED  BY <2>4, <2>5
<1> QED  BY <1>2, <1>6, <1>7 DEF Inserts

LEMMA FailDebts ==
  ASSUME InductiveInvariant, NEW h \in Handlers, NEW d, Fails(h, d),
         NEW o \in Orders, NEW key \in DebtKeys
  PROVE  DebtKept(o, key) \/ DebtDropped(o, key)
<1>1. /\ \A g \in Handlers \ {h} : g \in Owing(o, key)' <=> g \in Owing(o, key)
      /\ h \in Owing(o, key)' <=> d.order = o /\ Owes(d, key)
      /\ h \in Owing(o, key) <=> calls[h].order = o /\ Owes(calls[h], key)
      /\ Owing(o, key) \subseteq Handlers /\ Owing(o, key)' \subseteq Handlers
  BY OwingAfter DEF Fails
<1>2. Owes(d, key) => Owes(calls[h], key) /\ d.order = calls[h].order
  BY IdleOwesNothing DEF Fails, SameCall
<1>3. EventsOf(o, key)' = EventsOf(o, key)
  BY SameEvents DEF Fails
<1>4. CASE h \in Owing(o, key)'
  <2>1. Owing(o, key)' = Owing(o, key)
    BY <1>1, <1>2, <1>4
  <2> QED  BY <1>3, <2>1 DEF DebtKept
<1>5. CASE h \notin Owing(o, key)'
  <2>1. Owing(o, key)' = Owing(o, key) \ {h}
    BY <1>1, <1>5
  <2> QED  BY <1>3, <2>1 DEF DebtDropped
<1> QED  BY <1>4, <1>5

(* The steps that neither incur nor settle a debt.                         *)
LEMMA OtherDebts ==
  ASSUME InductiveInvariant, NEW h \in Handlers,
         \/ \E d : Starts(h, d) \/ Saves(h, d)
         \/ \E d, row : Creates(h, d, row) \/ Reserves(h, d, row)
         \/ Returns(h) \/ Deletes(h),
         NEW o, NEW key \in DebtKeys
  PROVE  DebtKept(o, key)
<1>1. ASSUME NEW d, Starts(h, d) \/ Saves(h, d)
      PROVE  /\ calls' = [calls EXCEPT ![h] = d] /\ UNCHANGED outbox
             /\ ~Owes(calls[h], key) /\ ~Owes(d, key)
  <2>1. CASE Starts(h, d)
    BY <2>1, DebtCases, IdleOwesNothing DEF Starts, Snapshot
  <2>2. CASE Saves(h, d)
    BY <2>2, DebtCases, IdleOwesNothing DEF Saves
  <2> QED  BY <1>1, <2>1, <2>2
<1>2. ASSUME NEW d, NEW row, Creates(h, d, row) \/ Reserves(h, d, row)
      PROVE  /\ calls' = [calls EXCEPT ![h] = d] /\ UNCHANGED outbox
             /\ ~Owes(calls[h], key) /\ ~Owes(d, key)
  BY <1>2, DebtCases, IdleOwesNothing DEF Creates, Reserves
<1>3. ASSUME Returns(h) \/ Deletes(h)
      PROVE  /\ calls' = [calls EXCEPT ![h] = IdleCall] /\ UNCHANGED outbox
             /\ ~Owes(calls[h], key) /\ ~Owes(IdleCall, key)
  BY <1>3, DebtCases, IdleOwesNothing DEF Returns, Deletes
<1> QED  BY <1>1, <1>2, <1>3, DebtsKept

LEMMA CommitDebts ==
  ASSUME InductiveInvariant, NEW h \in Handlers, NEW d, NEW row, Commits(h, d, row),
         NEW o \in Orders, NEW key \in DebtKeys
  PROVE  IF o = calls[h].order /\ Incurs(calls[h], key)
         THEN /\ h \notin Owing(o, key) /\ Owing(o, key)' = Owing(o, key) \cup {h}
              /\ EventsOf(o, key)' = EventsOf(o, key)
         ELSE DebtKept(o, key)
<1>1. /\ \A g \in Handlers \ {h} : g \in Owing(o, key)' <=> g \in Owing(o, key)
      /\ h \in Owing(o, key)' <=> d.order = o /\ Owes(d, key)
      /\ h \in Owing(o, key) <=> calls[h].order = o /\ Owes(calls[h], key)
      /\ Owing(o, key) \subseteq Handlers /\ Owing(o, key)' \subseteq Handlers
  BY OwingAfter DEF Commits
<1>2. ~Owes(calls[h], key)
  BY DebtCases DEF Commits
<1>3. d.order = calls[h].order /\ (Owes(d, key) <=> Incurs(calls[h], key))
  BY DebtCases, SameIncurs DEF Commits, SameCall
<1>4. EventsOf(o, key)' = EventsOf(o, key)
  BY SameEvents DEF Commits
<1> QED  BY <1>1, <1>2, <1>3, <1>4 DEF DebtKept

=============================================================================
