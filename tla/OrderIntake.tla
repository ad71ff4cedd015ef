---------------------------- MODULE OrderIntake ----------------------------
(***************************************************************************)
(* How orders enter orders-service: createOrder and createDraft on several *)
(* instances, with the Idempotency-Key of the client, the projection of    *)
(* the status of the store that each instance keeps in memory, the events  *)
(* that open the cart in products-service, and the total that is charged.  *)
(*                                                                         *)
(* A call runs its awaits one by one; any other call, a closing store, a   *)
(* cancellation or a restart may come in between.                          *)
(***************************************************************************)
EXTENDS Naturals, Sequences, FiniteSets

CONSTANTS
  Keys, NoKey,     \* Idempotency-Key header, or none
  Instances,       \* processes of orders-service
  Handlers,        \* calls that may be in progress at the same time
  Fees,            \* the peak hour fees that financial-service may quote
  MaxCalls,        \* bound: calls started
  MaxFaults        \* bound: failed awaits and restarts

Base == 1          \* the value of the products: one unit, whatever the items

ASSUME IntakeAssumed ==
  /\ NoKey \notin Keys
  /\ Fees \subseteq Nat /\ 0 \in Fees
  /\ {MaxCalls, MaxFaults} \subseteq Nat

VARIABLES
  rows,        \* Seq(Row), the orders table
  outbox,      \* Seq(Event), outbox_events
  calls,       \* [Handlers -> Call], the operations in progress
  answers,     \* history: what the calls with a key have answered
  topic,       \* SUBSET StoreStatus, identity.store.status_changed to be delivered
  directory,   \* [Instances -> StoreStatus or "unknown"], statusByStore
  started, faults   \* Nat, what the bounds count

bus == <<topic, directory>>
vars == <<rows, outbox, calls, answers, bus, started, faults>>

-----------------------------------------------------------------------------
(* Types.                                                                  *)

\* "CLOSED" stands for TEMPORARILY_CLOSED too: both block.
StoreStatus == {"OPEN", "CLOSED"}

Row == [key : Keys \cup {NoKey}, cash : BOOLEAN, total : Nat,
        status : {"DRAFT", "CREATED", "PENDING_PAYMENT", "CANCELLED"}]
Event == [event : {"order.cart.created", "order.cart.item_changed", "order.order.created"},
          order : Nat, total : Nat]

\* `order` is the row that the call has inserted, `total` the grand total;
\* `retry` says that the key already had its order when the call began.
Points == {"lookup", "availability", "validate", "save", "lookupAgain", "publishCart",
           "publishItems", "publishCreated", "finalize"}
Call == [op : {"createOrder", "createDraft"}, at : Instances, key : Keys \cup {NoKey},
         cash : BOOLEAN, pc : Points, order : Nat, total : Nat, retry : BOOLEAN]
Idle == [pc |-> "idle"]
Answer == [key : Keys, order : Nat, retry : BOOLEAN]

TypeOK ==
  /\ rows \in Seq(Row) /\ outbox \in Seq(Event)
  /\ calls \in [Handlers -> Call \cup {Idle}]
  /\ answers \subseteq Answer
  /\ topic \subseteq StoreStatus
  /\ directory \in [Instances -> StoreStatus \cup {"unknown"}]
  /\ started \in 0..MaxCalls /\ faults \in 0..MaxFaults
  /\ \A e \in DOMAIN outbox : outbox[e].order \in DOMAIN rows

Init ==
  /\ rows = <<>> /\ outbox = <<>>
  /\ calls = [h \in Handlers |-> Idle]
  /\ answers = {}
  /\ topic = {}
  /\ directory = [i \in Instances |-> "unknown"]
  /\ started = 0 /\ faults = 0

-----------------------------------------------------------------------------
(* Calls.                                                                  *)

At(h, pc) == calls[h].pc = pc
Quiet == \A h \in Handlers : At(h, "idle")

Goto(h, c, pc) == calls' = [calls EXCEPT ![h] = [c EXCEPT !.pc = pc]]

\* 0: an error, no order is answered.  Calls without a key leave no history.
Respond(h, order) ==
  LET c == calls[h] IN
  /\ answers' = IF c.key = NoKey THEN answers
                ELSE answers \cup {[key |-> c.key, order |-> order, retry |-> c.retry]}
  /\ calls' = [calls EXCEPT ![h] = Idle]

Publish(event, order, total) ==
  outbox' = Append(outbox, [event |-> event, order |-> order, total |-> total])

OrderOf(key) == {o \in DOMAIN rows : key # NoKey /\ rows[o].key = key}

Start(h, op, at, key, cash) ==
  /\ At(h, "idle")
  /\ started < MaxCalls
  /\ started' = started + 1
  /\ calls' = [calls EXCEPT ![h] =
       [op |-> op, at |-> at, key |-> key, cash |-> cash, pc |-> "lookup", order |-> 0,
        total |-> 0, retry |-> OrderOf(key) # {}]]
  /\ UNCHANGED <<rows, outbox, answers, bus, faults>>

CreateOrder(h) ==
  \E at \in Instances, key \in Keys \cup {NoKey}, cash \in BOOLEAN :
    Start(h, "createOrder", at, key, cash)

CreateDraft(h) == \E at \in Instances : Start(h, "createDraft", at, NoKey, TRUE)

-----------------------------------------------------------------------------
(* The gate: the key, the projection of the instance, identity, products.  *)

IsBlocked(i) == directory[i] = "CLOSED"

\* Mutant: the store is asked before the key is looked up.
LookupGateFirst(h) ==
  LET c == calls[h] IN
  /\ At(h, "lookup")
  /\ IF IsBlocked(c.at) THEN Respond(h, 0)
     ELSE IF OrderOf(c.key) # {} THEN \E o \in OrderOf(c.key) : Respond(h, o)
     ELSE Goto(h, c, "availability") /\ UNCHANGED answers
  /\ UNCHANGED <<rows, outbox, bus, started, faults>>

\* findByIdempotencyKey (a call without a key does not await it), and, in the
\* same turn, assertStoreNotClosed.
Lookup(h) ==
  LET c == calls[h] IN
  /\ At(h, "lookup")
  /\ IF OrderOf(c.key) # {} THEN \E o \in OrderOf(c.key) : Respond(h, o)
     ELSE IF IsBlocked(c.at) THEN Respond(h, 0)
     ELSE Goto(h, c, "availability") /\ UNCHANGED answers
  /\ UNCHANGED <<rows, outbox, bus, started, faults>>

\* getStoreAvailability: identity may refuse a store that is closed, or one that is
\* open and not so at scheduledPickupAt; an identity-service that does not answer
\* means available.
CheckAvailability(h) ==
  LET c == calls[h] IN
  /\ At(h, "availability")
  /\ \/ Goto(h, c, IF c.op = "createDraft" THEN "save" ELSE "validate") /\ UNCHANGED answers
     \/ Respond(h, 0)
  /\ UNCHANGED <<rows, outbox, bus, started, faults>>

\* Mutant: the order is announced and not saved.
ValidateItemsUnsaved(h) ==
  /\ At(h, "validate")
  /\ Goto(h, calls[h], "publishCart")
  /\ UNCHANGED <<rows, outbox, answers, bus, started, faults>>

\* validateItems: a product may be missing, inactive or out of stock.
ValidateItems(h) ==
  /\ At(h, "validate")
  /\ \/ Goto(h, calls[h], "save") /\ UNCHANGED answers
     \/ Respond(h, 0)
  /\ UNCHANGED <<rows, outbox, bus, started, faults>>

-----------------------------------------------------------------------------
(* The row.  idempotency_key and order_number are unique.                  *)

NewRow(c) ==
  [key |-> c.key, cash |-> c.cash, total |-> IF c.op = "createDraft" THEN 0 ELSE Base,
   status |-> IF c.op = "createDraft" THEN "DRAFT" ELSE "CREATED"]

Insert(h, c) ==
  /\ rows' = Append(rows, NewRow(c))
  /\ Goto(h, [c EXCEPT !.order = Len(rows) + 1, !.total = NewRow(c).total], "publishCart")

\* Mutant: the index on idempotency_key is not unique.
SaveOrderNotUnique(h) ==
  /\ At(h, "save")
  /\ Insert(h, calls[h])
  /\ UNCHANGED <<outbox, answers, bus, started, faults>>

SaveOrder(h) ==
  /\ At(h, "save")
  /\ OrderOf(calls[h].key) = {}
  /\ Insert(h, calls[h])
  /\ UNCHANGED <<outbox, answers, bus, started, faults>>

\* 23505: another call has inserted the key, or has drawn the same order number.
\* createDraft and a call without a key let the error through.
SaveViolatesUnique(h) ==
  LET c == calls[h] IN
  /\ At(h, "save")
  /\ OrderOf(c.key) # {} \/ rows # <<>>
  /\ IF c.key = NoKey THEN Respond(h, 0) ELSE Goto(h, c, "lookupAgain") /\ UNCHANGED answers
  /\ UNCHANGED <<rows, outbox, bus, started, faults>>

\* Mutant: a retry announces the order that it has found once more.
LookupAgainAnnounces(h) ==
  LET c == calls[h] IN
  /\ At(h, "lookupAgain")
  /\ IF OrderOf(c.key) = {} THEN Respond(h, 0)
     ELSE \E o \in OrderOf(c.key) :
            Goto(h, [c EXCEPT !.order = o, !.total = Base], "publishCart") /\ UNCHANGED answers
  /\ UNCHANGED <<rows, outbox, bus, started, faults>>

LookupAgain(h) ==
  LET found == OrderOf(calls[h].key) IN
  /\ At(h, "lookupAgain")
  /\ IF found = {} THEN Respond(h, 0) ELSE \E o \in found : Respond(h, o)
  /\ UNCHANGED <<rows, outbox, bus, started, faults>>

-----------------------------------------------------------------------------
(* The announcements.                                                      *)

\* order.cart.created; a draft is done.
PublishCartCreated(h) ==
  LET c == calls[h] IN
  /\ At(h, "publishCart")
  /\ Publish("order.cart.created", c.order, 0)
  /\ IF c.op = "createDraft" THEN Respond(h, c.order)
                             ELSE Goto(h, c, "publishItems") /\ UNCHANGED answers
  /\ UNCHANGED <<rows, bus, started, faults>>

PublishCartItems(h) ==
  /\ At(h, "publishItems")
  /\ Publish("order.cart.item_changed", calls[h].order, 0)
  /\ Goto(h, calls[h], "publishCreated")
  /\ UNCHANGED <<rows, answers, bus, started, faults>>

\* Mutant: a call whose fee cannot be quoted ends there.
PublishCreatedQuoted(h) ==
  LET c == calls[h] IN
  /\ At(h, "publishCreated")
  /\ \/ /\ \E fee \in Fees : Publish("order.order.created", c.order, c.total + fee)
        /\ Respond(h, c.order)
     \/ Respond(h, 0) /\ UNCHANGED outbox
  /\ UNCHANGED <<rows, bus, started, faults>>

\* getCommission (a financial-service that does not answer means no fee), then
\* order.order.created.  A cash order is done: its row keeps the base.
PublishCreated(h) ==
  LET c == calls[h] IN
  /\ At(h, "publishCreated")
  /\ \E fee \in Fees :
       /\ Publish("order.order.created", c.order, c.total + fee)
       /\ IF c.cash THEN Respond(h, c.order)
          ELSE Goto(h, [c EXCEPT !.total = @ + fee], "finalize") /\ UNCHANGED answers
  /\ UNCHANGED <<rows, bus, started, faults>>

\* Mutant: the compare-and-set writes the status alone.
AwaitPaymentStatusOnly(h) ==
  LET c == calls[h] IN
  /\ At(h, "finalize")
  /\ rows[c.order].status = "CREATED"
  /\ rows' = [rows EXCEPT ![c.order].status = "PENDING_PAYMENT"]
  /\ Respond(h, c.order)
  /\ UNCHANGED <<outbox, bus, started, faults>>

\* PENDING_PAYMENT with the grand total, if the order is still CREATED.
AwaitPayment(h) ==
  LET c == calls[h] IN
  /\ At(h, "finalize")
  /\ rows[c.order].status = "CREATED"
  /\ rows' = [rows EXCEPT ![c.order].status = "PENDING_PAYMENT", ![c.order].total = c.total]
  /\ Respond(h, c.order)
  /\ UNCHANGED <<outbox, bus, started, faults>>

AwaitPaymentConflict(h) ==
  /\ At(h, "finalize")
  /\ rows[calls[h].order].status # "CREATED"
  /\ Respond(h, 0)
  /\ UNCHANGED <<rows, outbox, bus, started, faults>>

\* cancelOrder, or a rejected reservation: the row is written with the total it had.
CancelOrder(o) ==
  /\ rows[o].status # "CANCELLED"
  /\ rows' = [rows EXCEPT ![o].status = "CANCELLED"]
  /\ UNCHANGED <<outbox, calls, answers, bus, started, faults>>

-----------------------------------------------------------------------------
(* The store, the bus and the processes.                                   *)

\* identity-service says that the status of the store has changed.
ChangeStore ==
  /\ \E status \in StoreStatus : topic' = topic \cup {status}
  /\ UNCHANGED <<rows, outbox, calls, answers, directory, started, faults>>

\* applyStoreStatusChanged, in the turn that a message comes in.  One of the competing
\* instances gets it; messages come in any order, and one that could not be settled
\* comes again.  Nothing tells an older status from a newer one.
ApplyStatusChanged(i) ==
  /\ \E status \in topic :
       /\ directory' = [directory EXCEPT ![i] = status]
       /\ topic' \in {topic, topic \ {status}}
  /\ UNCHANGED <<rows, outbox, calls, answers, started, faults>>

\* An awaited call rejects: the client gets an error.
Fail(h) ==
  /\ ~At(h, "idle")
  /\ faults < MaxFaults
  /\ faults' = faults + 1
  /\ Respond(h, 0)
  /\ UNCHANGED <<rows, outbox, bus, started>>

\* The process restarts: its calls are lost and its projection is empty.
Restart(i) ==
  /\ faults < MaxFaults
  /\ faults' = faults + 1
  /\ calls' = [h \in Handlers |-> IF ~At(h, "idle") /\ calls[h].at = i THEN Idle ELSE calls[h]]
  /\ directory' = [directory EXCEPT ![i] = "unknown"]
  /\ UNCHANGED <<rows, outbox, answers, topic, started>>

-----------------------------------------------------------------------------
(* The specification.                                                      *)

Step(h) ==
  \/ Lookup(h) \/ CheckAvailability(h) \/ ValidateItems(h)
  \/ SaveOrder(h) \/ SaveViolatesUnique(h) \/ LookupAgain(h)
  \/ PublishCartCreated(h) \/ PublishCartItems(h) \/ PublishCreated(h)
  \/ AwaitPayment(h) \/ AwaitPaymentConflict(h)

Next ==
  \/ \E h \in Handlers : CreateOrder(h) \/ CreateDraft(h) \/ Step(h) \/ Fail(h)
  \/ \E o \in DOMAIN rows : CancelOrder(o)
  \/ ChangeStore
  \/ \E i \in Instances : ApplyStatusChanged(i) \/ Restart(i)

Spec == Init /\ [][Next]_vars

-----------------------------------------------------------------------------
(* What the intake promises.                                               *)

Events(event, o) == {e \in DOMAIN outbox : outbox[e].event = event /\ outbox[e].order = o}

(* However a click is doubled, retried or sent to two instances at once,   *)
(* all the answers to one Idempotency-Key name one order.                  *)
AnswersAgree ==
  \A a, b \in answers :
    a.key = b.key /\ a.order # 0 /\ b.order # 0 => a.order = b.order

(* A retry of a request that has already placed its order is answered with *)
(* the order, also when the store has closed in between or the products    *)
(* have run out; only a failing call keeps it from the answer.             *)
RetryIsAnswered == faults = 0 => \A a \in answers : a.retry => a.order # 0

(* products-service and financial-service hear of an order at most once,   *)
(* and of its items before its creation: products reserves from the cart   *)
(* that the first two events describe.                                     *)
AnnouncedOnceInOrder ==
  \A o \in DOMAIN rows :
    /\ \A event \in {"order.cart.created", "order.cart.item_changed", "order.order.created"} :
         Cardinality(Events(event, o)) <= 1
    /\ \A e \in Events("order.order.created", o) :
         \E c \in Events("order.cart.created", o), d \in Events("order.cart.item_changed", o) :
           c < d /\ d < e

(* If nothing fails, no order is left in the table that the services do    *)
(* not know of, once the calls are over: neither the loser of a race for a *)
(* key nor a financial-service without an answer leaves one behind.  (Only *)
(* a draft has no total.)                                                  *)
NoSilentOrder ==
  Quiet /\ faults = 0 =>
    \A o \in DOMAIN rows :
      /\ Events("order.cart.created", o) # {}
      /\ rows[o].total > 0 => Events("order.order.created", o) # {}

(* The row of an order that waits for its payment holds the total that     *)
(* financial-service was told to charge, the peak hour fee included.       *)
RecordedAsCharged ==
  \A o \in DOMAIN rows :
    rows[o].status = "PENDING_PAYMENT" =>
      \E e \in Events("order.order.created", o) : outbox[e].total = rows[o].total

-----------------------------------------------------------------------------
(* The inductive invariant behind these promises.                          *)

(* A call owns the row it inserted until it answers.                       *)
Announcing == {"publishCart", "publishItems", "publishCreated", "finalize"}
Owns(h, o) == calls[h].pc \in Announcing /\ calls[h].order = o

CartOpened(o) == Events("order.cart.created", o) # {}
ItemsTold(o) ==
  \E c \in Events("order.cart.created", o), d \in Events("order.cart.item_changed", o) : c < d
ChargeTold(o) == Events("order.order.created", o) # {}

\* What has been announced of the row of a call, by where the call stands.
AnnouncedSoFar(c) ==
  /\ c.pc = "publishCart" => ~CartOpened(c.order)
  /\ c.pc = "publishItems" => CartOpened(c.order)
  /\ c.pc \in {"publishCart", "publishItems"} => Events("order.cart.item_changed", c.order) = {}
  /\ c.pc = "publishCreated" => ItemsTold(c.order)
  /\ c.pc # "finalize" => ~ChargeTold(c.order)
  /\ c.pc = "finalize" => \E e \in Events("order.order.created", c.order) : outbox[e].total = c.total

(* Nobody else announces, charges or records the row of a call.            *)
OwnerOK(h) ==
  LET c == calls[h] IN
  c.pc \in Announcing =>
    /\ c.order \in DOMAIN rows
    /\ rows[c.order].key = c.key
    /\ rows[c.order].status # "PENDING_PAYMENT"
    /\ c.op = "createDraft" => c.pc = "publishCart" /\ rows[c.order].total = 0
    /\ AnnouncedSoFar(c)
    /\ \A g \in Handlers : Owns(g, c.order) => g = h

\* A draft has no key and is not validated; only a key is looked up again.
PathOK(c) ==
  /\ c.pc # "idle" /\ c.op = "createDraft" => c.key = NoKey
  /\ c.pc \in {"validate", "lookupAgain"} => c.op = "createOrder"
  /\ c.pc # "idle" => (c.retry => c.pc = "lookup" /\ OrderOf(c.key) # {})

CallsOK == \A h \in Handlers : OwnerOK(h) /\ PathOK(calls[h])

KeysAreUnique ==
  \A o, p \in DOMAIN rows : rows[o].key = rows[p].key /\ rows[o].key # NoKey => o = p
AnswersNameTheirRow == \A a \in answers : a.order # 0 => a.order \in OrderOf(a.key)

EventsOnce ==
  \A d, e \in DOMAIN outbox :
    outbox[d].event = outbox[e].event /\ outbox[d].order = outbox[e].order => d = e
ItemsBeforeCharge ==
  \A o \in DOMAIN rows : \A e \in Events("order.order.created", o) :
    \E c \in Events("order.cart.created", o), d \in Events("order.cart.item_changed", o) :
      c < d /\ d < e

\* What is not announced yet is in the hands of a call.
StillToAnnounce ==
  faults = 0 =>
    \A o \in DOMAIN rows :
      /\ CartOpened(o) \/ \E h \in Handlers : Owns(h, o)
      /\ rows[o].total > 0 => ChargeTold(o) \/ \E h \in Handlers : Owns(h, o)

InductiveInvariant ==
  /\ TypeOK /\ CallsOK
  /\ KeysAreUnique /\ AnswersNameTheirRow /\ RetryIsAnswered
  /\ EventsOnce /\ ItemsBeforeCharge /\ StillToAnnounce /\ RecordedAsCharged

=============================================================================
