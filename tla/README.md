# orders-service: a formal specification

This directory holds TLA+ models of `orders-service` (ECIEXPRESS): how orders
enter, their life, the cart, the consumer of the bus, the chat of an order and the
transactional outbox, with their model-checking instances and proofs of the central
invariants. The definitions are translated from the source under `src/`;
PROJECT.json maps each one to the lines it stands for.

## 1. The system

`orders-service` is a NestJS service on PostgreSQL (TypeORM) and Azure Service
Bus. It owns orders, their history, carts (an order in `DRAFT`), returns, and
the buyer–seller chat. Three kinds of actors drive it at the same time:

* HTTP and websocket clients (buyer, vendor, administrator) through the controllers;
* other services through the bus: financial (payments), products (stock,
  return prices), fulfillment (delivery, QR), identity (stores, users);
* its own timer, the outbox worker.

Every operation is an `async` method: it reads a snapshot of the order, decides
on it, and awaits several database calls. Nothing locks a row. Operations of one
process interleave at every `await`, and two processes overlap during a
deployment. The protections are the compare-and-set on `status` in
`saveTransition`, the unique indexes, and the table of processed events.

### Components

| Component | State | Operations | Interacts with |
|---|---|---|---|
| Order domain (`domain/order.models.ts`) | none | `transitionOrder`, `ORDER_TRANSITIONS`, status sets | pure |
| Order intake (`orders.service.ts`) | `orders` by `idempotency_key` | `createOrder`, `createDraft` | store directory; identity, products, financial over HTTP; outbox |
| Order lifecycle (`orders.service.ts`, `typeorm-order.repository.ts`) | `orders`, `order_status_history`, `order_ratings` | checkout, status changes, cancellation, payment, stock and delivery handlers, returns, rating, deletion | inserts events in the outbox, creates and closes chats |
| Cart and quotation (same files) | `order_items`, amounts of a `DRAFT` | `setCartItem`, `quoteCart`, `checkout`, `replaceItems` | products and financial over HTTP |
| Outbox (`outbox.service.ts`, `outbox.worker.ts`) | `outbox_events` | `publish`, `tick` | called by every operation, sends to the bus |
| Event consumer (`event-consumer.service.ts`) | `processed_events` | `handle` | calls the handlers of the lifecycle |
| Service Bus (`service-bus.service.ts`) | connection | `publish`, `consume` | completes a message even if its handler failed |
| Communication (`communication.service.ts` and repository) | `conversations`, `messages`, `participants` | chats of an order, refund cards, messages, read marks, archive, join, leave, typing | called by the lifecycle and by clients |
| Store directory (`store-directory.service.ts`) | map of store status, per instance | `applyStatusChanged`, `isBlocked` | filled from the bus, gate of new orders |
| Realtime hub, gateway | sockets | broadcast, join, leave | notified by everything, read by nothing |
| Controllers, guards, DTOs, HTTP clients, evidence upload, logging, configuration | none that matters | | see PROJECT.json |

### What is hard, and what correct means

* **Races on the status.** Two calls that read the same status must not both
  leave it: the history of an order is one legal path (`HistoryConsistent`),
  never taken back (`TransitionsNeverUndone`), although `rateOrder` and
  `requestReturn` save whole stale entities.
* **Two signals in either order.** Payment and stock reservation confirm a
  digital order together, whichever handler runs first, on whichever instance
  (`DigitalConfirmedWithStock`, `NoLostConfirmation`, `BothSignalsConfirm`).
* **What other services are told.** Stock is released once and with the right
  `wasSold`, refunds match recorded returns, a finished call has announced
  everything (`AnnouncedOnce`, `WasSoldAccurate`, `RefundsAreRecorded`,
  `AnnouncementsComplete`, `ReleaseHappens`).
* **Messages that repeat, overlap or fail.** What the consumer has recorded as
  processed must show in the order (`RecordedIsApplied`, and the run
  `lost_rejection`).
* **Returns that wait.** A price may overtake the delivery, or be followed by
  another one (`PendingReturnRecorded`, `PickedUpReturnsWait`, `repeated_return`).
* **Side effects after the commit.** The chat is created and closed, and events
  are inserted, after the transition committed (`OneConversation`,
  `ExistingChatCloses`, and the run `lost_event`).
* **Doubled and repeated requests.** One `Idempotency-Key` is one order, announced
  once, whichever instance and whatever has closed in between (`AnswersAgree`,
  `RetryIsAnswered`, `AnnouncedOnceInOrder`, `NoSilentOrder`, `RecordedAsCharged`).
* **Whole entities saved over each other.** Badges, status and participants of a
  chat (`NeverOvercounts`, `UnreadIsShown`, `ClosedStaysClosed`,
  `MembersNeverLost`, `StoredIsAnnounced`).
* **A cart with two writers** (`SerialInvoiceMatchesCart`, `PlacedAsInvoiced`,
  and the run `stale_price`).
* **At-least-once delivery.** Two workers share one outbox table without a lock
  (`ImplementsDelivery`, `PublishedWasSent`, `GivenUpAfterRetries`), and the events of
  an order leave in their order but for a failure (`OlderTriedFirst`).
* **A row that comes back.** A save in flight inserts a deleted order again; each of
  its rows is announced at most once (`AnnouncedOnce`).

PROJECT.json lists every hazard with its line and the properties that cover it. Where
the code does go wrong, or where a property bounds or excepts the very case, a note says so.

## 2. The modules

```
OrderModels <- OrderLifecycle <- OrderProperties
OrderProperties <- OrderInvariants <- MCOrder
OrderProperties <- OrderLifecycleProofs <- OrderStepProofs <- OrderPromiseProofs
OrderInvariants <- OrderStepProofs
OrderProperties <- OrderMessaging <- ConsumerInvariants <- MCMessaging
OrderInvariants <- ConsumerInvariants
ConsumerInvariants, OrderPromiseProofs <- OrderMessagingProofs
OrderIntake <- MCIntake, OrderIntakeProofs
Cart <- CartInvariants <- MCCart, CartProofs
Communication <- ChatInvariants <- MCChat, CommunicationProofs
EventDelivery <- Outbox <- MCOutbox, OutboxProofs
```

(`<-`: is extended or instantiated by.)

**OrderModels** is the domain: statuses, `ORDER_TRANSITIONS`, the status sets, the
order row, `TransitionOrder`, and `LegalStory`, what a legal history is.

**OrderLifecycle** models `OrdersService`. A *call* (variable `calls`) is an
operation in progress: a handler, the order value it has in memory (`row`), the
`previousStatus` of `finalize` (`expected`) and the database call it performs next
(`pc`). An operation starts with one action that reads the order and evaluates
every guard the code evaluates before its first write; the last guard before an
`await` and that `await` are therefore never merged with the next one. Each
awaited write is then one action: `SaveTransition` (or `TransitionConflict`),
`PublishStatusChanged`, `PublishConfirmed`, `FindConversation`,
`CreateConversation`, ... `AfterStatusChanged`, `AfterClose` and `AfterFinalize`
say, as the code of `finalize` and its callers does, what comes next. Variables:

| Variable | Stands for |
|---|---|
| `orders` | rows of `orders` with their `order_status_history` |
| `chats` | conversations per order, a sequence because `order_id` is not unique |
| `outbox` | rows of `outbox_events`, per order, in insertion order |
| `calls` | operations in progress |
| `answers`, `aborts` | counters that bound redeliveries and lost calls |
| `removed` | history: how many rows of an order were deleted, with how many returns |

Abstractions: `by` in a history entry is the operation, in place of actor and
reason. Amounts are kept for returns only. Timestamps, notifications, names,
unread counts and the `archived` status of a chat are left out. The contents and
the price of a cart are the business of **Cart**; here `Checkout` assumes them
positive. TypeORM's `save` of a whole entity is modelled by what it does: columns
take the stale values, a history row that another call added is orphaned to a
NULL key and rejected (the save fails), a deleted row is inserted again. Here a
message may start its handler again at any time, which is more than the
deduplication of the consumer allows; `products.return.priced`, which the code
does not deduplicate, is bounded by `MaxRequests` and `MaxRedeliveries`. The other
services answer only what was announced to them, in any order.

**OrderProperties** states what the lifecycle promises, two claims of comments and
documents that the code does not keep, and `InductiveInvariant`, which carries the
legality of the history.

**OrderInvariants** holds the inductive invariants of the other promises, one for each
story: the sale and its conversation (`SaleInvariant`), the two signals
(`SignalsInvariant`), the returns (`ReturnsInvariant`), and what is announced or still
owed by a call (`EverythingOnce`, `RefundsCovered`, `EverythingTold`). They speak of
calls as much as of rows. **ConsumerInvariants**, **ChatInvariants** and
**CartInvariants** do the same for the consumer, the chat and the cart; OrderIntake and
Outbox have theirs at their end.

**OrderMessaging** puts the bus and `EventConsumerService.handle` in front of the
lifecycle, and narrows what starts a handler to what a message can start. `sent`
is what the other services answered (each one answers an event once, and its
answers exclude each other), `inbox` what the bus will deliver, `processed` the
table, `consuming` the message in the hands of each handler and where `handle`
stands: before the dispatch, inside the operation, before the record. A handler
that holds no message serves HTTP requests. `Receive` merges the delivery with the
look-up of the key; `Dispatch` and `Ignore` are the guards of the operations,
`HandlerStep` their awaits. A conflict is swallowed in
`confirmIfPaidAndReserved` and elsewhere completes the message (`HandlerConflict`);
a failed await completes it too (`HandlerFails`); a crash gives it back, during the
operation or before the record (`Crash`, `CrashBeforeRecord`). `missed` is a history
variable: the messages that were ignored because the order was not there yet, or
were completed without their effect. Every step is a step of OrderLifecycle or
leaves its variables alone, and this is proved.

**OrderIntake** models `createOrder` and `createDraft` on several processes, await by
await: the key, the projection of the store in *this* process (`directory`), identity,
products, the insert with its two unique indexes (the key, and the order number,
which is drawn at random), the second look-up of the loser, the events that open the
cart, the fee, and the transition to `PENDING_PAYMENT` with the total. `topic` holds
the statuses that `identity.store.status_changed` may still bring: one subscription,
competing instances, any order, and a message whose settlement failed comes again.
`applyStoreStatusChanged` runs in the turn of the delivery and writes what comes, with
no look at its age, so that a projection may show any status that was ever sent. A
restart loses the calls and the projection of its instance. Identity may refuse a call
at any time (a closed store, or `scheduledPickupAt` outside its hours). `answers` records what the
calls with a key answered (0: an error) and whether the key had its order when the
call began. The value of the products is one unit, the fee any member of `Fees`;
`CLOSED` stands for `TEMPORARILY_CLOSED` too. Cancellation is one step, because the lifecycle already treats its awaits.

**Cart** models `setCartItem`, `quoteCart` and `checkout` (up to its transition) await
by await, with the lines and amounts. `replaceItems` is two steps, because its
`DELETE` runs in READ COMMITTED: rows that another transaction inserts and commits
after the `DELETE` started survive it, and a repeated id is a duplicate key. `cart`
and `invoice` are what the browser shows, `announced` the last
`order.cart.item_changed` (the projection from which products reserves), `charge`
the last `order.order.created`. `serial` records whether the browser has sent its
calls one at a time. Quantities and total of the lines are exact; list prices,
discounts, stock flags and names are left out. Line ids are random UUIDs in the code;
here a call draws those of `Ids` that nobody holds (`Fresh`), and the ten of the run
never give out.

**Communication** models `CommunicationService` over its repository for one
conversation. A call is the access check (`findConversationById` hides a closed chat
from users; the lifecycle reaches it by its order) and a list `todo` of repository
calls. `load` is the `findOne` of an update, and each of `Edits` the `save` of the whole
entity that was loaded: status, counters and participants take the values it had,
whatever was written in between. `touch` also writes back the status that the access
check saw, because `sendMessage` and the refund cards spread that first object into
`saveConversation`. A participant who joined since the `load` would be orphaned by the save, and
`conversation_id` is NOT NULL: `SaveEntityRefused`. Messages are rewritten as they
were read (`SaveMessages`), so receipts of a card may be overwritten by its
resolution. The values of typing, `leftAt`, previews and times are left out; the
saves that carry them are kept, for what else they write.

**EventDelivery** is the abstract promise of the outbox: what is inserted is
eventually delivered at least once, or recorded as given up; order and number of
copies are left open. `Resume` is there because two workers may disagree about an
event that one of them gave up.

**Outbox** models `OutboxService.publish` and `OutboxWorker.tick`: the query (a batch of
the oldest pending rows), the send, the save, the catch block of a row and the
outer one. The send may fail after the bus accepted the message; a save may fail
before or after it was written; a worker may crash anywhere. `sent` and `attempts`
are history variables. `repository.save` is one write (TypeORM reads the row and updates what
differs; no verdict depends on the gap). `createdAt` follows the inserts: this is so for
events inserted one after the other, as an operation does; two requests whose inserts
overlap may become visible in the other order, and `OlderTriedFirst` says nothing of such
a pair.

## 3. What the runs check

| Run | Instance | Shows |
|---|---|---|
| `sale` | one order, two calls at a time, from nothing, every operation of a sale but checkout | history, announcements, `wasSold`, chat, confirmation of digital orders |
| `returns` | an order at the counter or delivered, two calls, up to two returns and a rating | refunds and returns match one to one, a waiting return holds amount and origin, no announcement is missing, no return of a delivered order goes round the store but by a second price |
| `mishaps` | a cart that is checked out, a paid and a ready order, deletion, rating, refunds of 0, one lost call, chat failures | the history stays legal and is never taken back; a row, also one that came back, is announced at most once |
| `messaging` | a cart, a placed order and a cash order at the counter; every answer, checkout and cancellation; two handlers; one second delivery, lost call or crash; fair | what was recorded as processed shows; both signals lead to the confirmation; a release is announced; the chat of a cancelled order is closed |
| `intake` | two calls with or without one key, two processes, fee 0 or 1, any changes of the store, one fault | one key is one order; retries are answered; events once and in order; total recorded is total charged, whatever the projections of the store show |
| `chat` | buyer, vendor and another employee, every operation, three calls of which two overlap, one fault | nobody drops out, no message is counted twice or announced twice, a closed chat is opened only by calls that saw it open; badges complete for calls that do not overlap |
| `outbox` | two events, two workers, two retries, batches of two, one fault, fair | the outbox implements `EventDelivery`; `PUBLISHED` and `FAILED` tell the truth; the older event is tried first |
| `cart` | two products, quantities up to 2, prices that change, four calls of which two overlap, any failure | invoice, order, projection and charge agree for a serial browser |

The violation runs show disagreements between the code and what its comments or
documents say (PROJECT.json `findings` quotes the lines):

| Run | What happens |
|---|---|
| `lost_rejection` | a rejected reservation reads the order while a checkout is about to store `PENDING_PAYMENT`; its own transition loses the compare-and-set, the message is completed, and the order waits for its payment without stock |
| `repeated_return` | one partial return of a confirmed order, priced twice by a redelivery, is refunded twice |
| `lost_event` | a crash between the transition and the outbox loses `status_changed` and all that follows |
| `stale_price` | quote, raise the quantity, check out: the old total is charged. One call at a time suffices |

**Bounds.** One order (one conversation) suffices: no operation touches two orders;
`intake` has as many rows as calls, because there two calls may create two. Two calls at a
time are what the races of this code need, each a snapshot against the writes
of another call; the proofs below have no such bound. `MaxHistory` is longer than any path
of the sale, and long enough for two full returns. `MaxAborts`, `MaxFaults` and
`MaxMishaps` are one: the second loss meets a state that the first already allows.
`MaxCalls` is three in `chat`, so that two overlapping calls follow, or are followed by,
a third whose effect they would undo; four calls without faults were checked as well. In
`intake` two calls race for the key, or one repeats the other; the status messages need no
bound. In `outbox`,
`MAX_RETRIES` is 2 (5 in the code) so that the limit is reached by both workers and by
one; `BATCH_SIZE` is 2 (50) so that a tick has a next entity, and an event inserted after the
query stays outside the batch; the proofs hold for any size, smaller than the table or not. In `cart` four
calls allow an edit that is lost, an edit, a quote and a payment. The catalog
has a change of price and an inactive product. `PatchTargets` keeps the vendor to
`IN_PREPARATION` and `READY_FOR_PICKUP`.

**Symmetry.** Calls (and in `intake` processes) are interchangeable in the safety
runs. The runs with liveness, `messaging` and `outbox`, use none.

**Deadlock.** `CHECK_DEADLOCK FALSE` everywhere: a finished order, a quiet chat and a settled
outbox have nothing left to do, and the bounds end the clients.

**Fairness.** `FairMessagingSpec` has weak fairness of the work of every handler
(receive, dispatch, the awaits of an operation, the record) and of the completion of
messages already processed: the bus delivers what it holds, and the event loop runs
each continuation once its promise settles. Clients and other services owe nothing:
they need not send, and the liveness properties start at what was sent or stored. `FairSpec`
of the outbox has weak fairness of the work of
every worker: `setInterval` fires as long as the process lives, and an orchestrator
restarts it. The bus itself owes nothing; an event whose sends all fail is `FAILED`.

**Conditions.** `aborts = 0` in `NoLostConfirmation` and `AnnouncementsComplete`,
`faults = 0` and `cutShort` in OrderIntake and Communication, say that the
guarantee is only for calls that run to their end; `lost_event` shows that without
it the claim fails. `missed` in `RecordedIsApplied` and `BothSignalsConfirm` excepts the
answers that the code does lose, and no others. `serial` in Cart and `overlapped` in
`UnreadIsShown` restrict a claim to calls that follow one another, because it fails for
overlapping ones.

## 4. What is proved

TLAPS proves every safety invariant that a passing run checks, every action property, and the safety
part of both refinements, for every set of orders, handlers, products, staff, instances
and events, every selection of operations and every bound. TLC checked each
inductive invariant on the runs first. PROJECT.json lists the theorems. A few have hypotheses on
constants (`ASSUME ... PROVE`); all of these are named here.

**Assumptions on constants.** Bounds are naturals, a PATCH asks for a known status,
`Products` is finite, and the start states are orders that the operations can have
left behind: legal rows (`StartAssumption`) with everything announced once
(`StartSettled`) and, behind the bus, answered as their status says (`StartAnswered`).
TLC evaluates all of them for each instance.

### The life of an order

**OrderLifecycleProofs**: `TypeCorrect`, `HistoryIsConsistent`, `NothingIsUndone`.
`HistoryConsistent` is not inductive. A call carries an order value that it will
write later, when the database has moved on, so the invariant has to speak of
what calls carry: `CarriesTransition` (a call with an `expected` status holds, as
its last entry, a legal transition out of that status), `CallLegal` (a whole-entity
save holds a legal row) and `ChatInHand` (a conversation that was found is still
there). With these, the compare-and-set gives the step: the row is in `expected`, so
the appended entry continues the stored history (lemma `AppendLegal`). Each action
preserves each of the five conjuncts of `InductiveInvariant`; lemmas `SetCall`,
`BeginOK`, `FinishOK` and `ContinueOK` treat the ways an action writes `calls`, and
one lemma per action follows. `NothingIsUndone` needs that a whole-entity save
succeeds only on a row whose history is that of its snapshot.

**OrderStepProofs** reduces the actions to nine kinds of step (a call starts, creates,
commits a transition, reserves, saves a whole row, deletes, fails, returns, or only
advances), says exactly what each does to rows, events, conversations and calls, and proves
`CallsFit`: the operation, the point and the transition of a call belong together.
**OrderPromiseProofs** then proves each promise over these kinds:

| Theorem | States | Hypothesis |
|---|---|---|
| `ReleasesAreTrue`, `OneChatPerOrder` | `WasSoldAccurate`, `OneConversation` | none |
| `NothingStaysUntold` | `AnnouncementsComplete` | none |
| `ConfirmedWithBothSignals`, `NoWakeUpIsLost` | `DigitalConfirmedWithStock`, `NoLostConfirmation` | no PATCH to `CONFIRMED` or `PAYMENT_APPROVED` |
| `PendingReturnsAreRecorded`, `ReturnsAfterPickupWait` | `PendingReturnRecorded`, `PickedUpReturnsWait` | no PATCH to `RETURN_PENDING_APPROVAL` |
| `AnnouncedAtMostOnce`, `RefundsAreCovered` | `AnnouncedOnce`, `RefundsAreRecorded` | none |

* *The sale.* Each row remembers whether it was confirmed, each release in the outbox
  and each call that owes one agrees with that memory, and at most one call of an order
  stands between the confirmation and the insertion of the chat. The delicate case is a whole-entity
  save that inserts a deleted order again: `UnsoldStaysGone` says that no such save is
  in flight once unsold stock was released.
* *The two signals.* No call expects a status that the order has not come to (`Stage`), so
  the compare-and-set of a confirmation succeeds only where both signals are in; and a paid
  and reserved order that waits has a call that `EndsWait`. PATCH accepts any legal
  transition and so could confirm without stock: hence the hypothesis. The same
  holds of returns, where a PATCH would set the status without an amount.
* *Announcements.* An event is in the outbox, or owed by the one call that made the
  transition (`Owes`), or neither: the passage from debt to event is the step of one call. A save of a
  stale entity may insert a deleted order again, which then goes through a transition once
  more. `removed` counts the rows that were deleted: an order has at most one such event
  for each row that it had (`OnceAtMost`), and at most one refund for each return that its row, or
  a row of it that was deleted, recorded (`RefundsCovered`). An order that is never deleted
  has one row, so for it the claims are the plain ones. Completeness needs no hypothesis
  either: a resurrected row has a history that was told before.

### The bus

**OrderMessagingProofs** proves that the consumer implements the lifecycle
(`ImplementsLifecycle`: `MessagingSpec => Spec`, the refinement mapping being the
identity): each action of OrderMessaging is a step of OrderLifecycle, a failure of one
of its calls, or leaves its variables alone. `MessagesKeepHistory`,
`MessagesUndoNothing` and `MessagesReleaseTruly` follow from it and the theorems above.
`MessagingTypeCorrect` states the types of the consumer's own state: whatever is sent,
held by the bus, recorded or in the hands of a handler is a message that an order can have.

`RecordedAnswersShow` proves `RecordedIsApplied` from `ConsumerInvariant`. It says what
each row owes to the answers that were sent about it (`AnswersFit`: a confirmed order was
reserved, a paid one was paid, and answers that exclude each other were not both sent), what each call knows
of them (`KnowsAnswers`), and what becomes of a message in a handler (`HoldingFits`): the row
shows it, or the next write of the call will make it show. The hypothesis `SaleRunsItsCourse` limits a
PATCH to preparation, readiness, cancellation and failure and excludes deletion. Each part is needed: with
a PATCH to `CONFIRMED` or to `DELIVERED`, or with `deleteOrder`, TLC refutes
`RecordedIsApplied`, because the guard of a handler then ignores an answer that nothing shows.

**OutboxProofs** proves, for any finite set of events, any number of workers and any
positive `MAX_RETRIES` and `BATCH_SIZE`, that every state is well typed with
`retryCount` bounded by `MAX_RETRIES` (`TypeCorrect`), that a row says PUBLISHED only
after a copy went out (`PublishedMeansSent`) and FAILED only after `MAX_RETRIES`
attempts (`FailedMeansTried`), and that an event is sent only when every older one was
tried (`OldestFirst`). None of this is inductive on the rows alone: two
instances that polled the same row overwrite each other with what they hold in memory,
so the invariant says of every in-memory entity what it says of the row (`Honest`: it
claims no send and counts no attempt that did not happen, and FAILED goes with an
exhausted `retryCount`). `WorkerOK` adds where a worker stands: a sent entity has an
attempt that its `retryCount` does not count yet, so the catch block may count it;
only the entity being handled, after a failure, may be FAILED. `Ordered` (creation
times do not repeat) makes that entity unique. `InTurn` is what `OldestFirst` rests on: an event older
than one of a batch is in that batch, or was tried, since the query left it out because it
was sent or given up, and the loop leaves an event only after it tried it. `StepsOfDelivery` is the safety part of the refinement:
every step of every worker is a step of EventDelivery or none.

### Intake, cart and chat

**OrderIntakeProofs** proves all six invariants of the run `intake` from one inductive
invariant (`IntakeInvariant`): a row belongs to the call that inserted it until that call
answers, so only this call announces and charges it; a key has at most one row, which every
answer to the key names; what a call at each await has announced is in the outbox, what it will
announce is not. The projections of the store need no invariant beyond their type: the
promises hold whatever they show.

**CartProofs** proves `TypeCorrect` (an id is one row, in the table and in every
call, although two transactions of `replaceItems` may overlap), `InvoiceIsTheCart` and, for a buyer who
pays from an invoice (`CarefulBuyer`; `stale_price` shows the other buyer), `OrderedAsInvoiced`. The
invariant `SerialCart` follows the one call in progress: what a quote computed
(`Quotes`), that its `DELETE` saw every row, that the rows and the total are then those of the
quote, and that a checkout carries the total of the invoice on the screen. Any earlier call may have failed
half-way. The quantities and totals are sums over sets: `SumOfQuantities` and
`SumOfAmounts` prove what is needed of `MapThenSumSet`, by a least counterexample in the
cardinality of the set.

**CommunicationProofs** proves, for any staff, any number of calls and any bounds,
`TypeCorrect`, `ClosesForGood` (a closed conversation is opened only by a reopening or a
call that saw it open) and `MembersStay`. Each call carries a list of what it still has
to do, so the invariant `TodoOK` says of every step in the list what it will need when its turn comes (`Fit`):
a user to join, a kind for the card, a message that is stored before it is announced.
In particular a status other than `closed` is set on a conversation that the call saw
closed only when the call is a reopening, which is what `ClosesForGood` rests on.
Over `OnScript` (the list is the rest of the script of the operation)
it proves `EveryMessageIsTold`: a message has one writer, and is announced, or about to be, once (`ToldOnce`);
`BadgesNeverOvercount`: no entity, however stale, counts a message whose `count` is
still to come (`CountsNoMore`), so that writing it back cannot overcount; and `UnreadMessagesAreShown`:
as long as no calls overlap, what the call has read is what is stored (`UpToDate`), and a badge is complete up to
a reset or a count in progress.

### Only model-checked

Liveness (`BothSignalsConfirm`, `ReleaseHappens`, `ExistingChatCloses`, and the fairness
part of `ImplementsDelivery`): fairness and ENABLED are out of the prover's reach. The
violations are counterexamples of TLC.

## 5. Observations that no run claims as findings

Orders and messages:

* `checkout` inserts `order.order.created` before its compare-and-set. A second
  checkout that loses it, or one that fails there and is retried, announces the
  order again; whether financial charges twice is not decided in this repository.
* `order.order.created` may be answered before the status that waits for the
  answer is stored; the answer is then ignored and recorded as processed (`Ignore`).
* A crash after `PAYMENT_APPROVED` was stored and before `confirmIfPaidAndReserved`
  leaves the order there: the redelivered message finds a status that is not
  `PENDING_PAYMENT` and returns.
* A second `products.return.priced` that arrives in `RETURN_PENDING_APPROVAL` takes the
  immediate branch and is applied without the approval that
  `domain/order.models.ts:142-143` speaks of. `PickedUpReturnsWait` shows that there is
  no other way around it.
* The compare-and-set compares the status only: an approval that read one
  pending return can settle a later one.
* `PATCH /orders/:id/status` accepts any legal transition. The runs let vendors
  ask only for `IN_PREPARATION` and `READY_FOR_PICKUP`.

Intake and cart:

* A `createOrder` that dies after its insert leaves a row that no service heard of; the
  retry with the same key answers with that row and announces nothing
  (`NoSilentOrder` holds without faults only).
* A cash order keeps the base as its total: the fee of the peak hour is added in memory
  and announced, and stored by the transition that a cash order does not make.
* Only one instance gets each change of a store. Another one may block a store that
  has opened again, until it gets a later message or restarts.
* `docs/CATALOGO-DE-EVENTOS.md:90-91` says that the events of identity are always
  applied, being idempotent. One message twice is harmless, but `store-directory.service.ts:20-22`
  compares no dates: an older status that comes late, or again, replaces a newer
  one. No property is stated of the projection; a gate that is wrongly open is closed by
  the answer of identity, one that is wrongly shut is not opened.
* The fee of the peak hour is asked again at checkout, so the total charged may
  differ from the one of the invoice; the base does not (`PlacedAsInvoiced`).
* `quoteCart` is a second writer of the lines beside `setCartItem`: when the two
  overlap, the lines that are ordered may differ from those of the invoice.

Chat:

* The chat is created several awaits after the confirmation; a cancellation in between
  finds nothing to close, and the chat that is then created stays open.
* A `sendMessage`, typing mark or refund card in progress while the order closes its
  chat writes the old status back: the chat stays open afterwards.
* Overlapping calls lose increments of badges and restore badges that were reset, and the
  resolution of a refund card overwrites receipts stored since it was read.
* A message whose sender's call overlaps a join may be stored without a badge, a
  preview or a notification: the save is refused, and the call ends with an error.

## 6. Not modelled

Queries, lists and mappers, broadcasts and rooms of sockets, authentication,
uploads, logging, configuration and migrations: they have no state that a property is
about, or only read it. The deletion of an order frees its key in the database; OrderIntake has no
deletion. `identity.user.deactivated` only closes sockets. Two conversations of one user share
no state.

## 7. Plan

1. *Done:* OrderModels, OrderLifecycle, OrderProperties; Outbox with EventDelivery and
   its invariant proved; Cart.
2. *Done:* OrderMessaging, shown to implement OrderLifecycle; Communication with its
   invariant proved; OrderIntake.
3. *Done:* the promises of the lifecycle, the intake, the cart, the chat and the consumer
   proved, and the safety part of the refinement of EventDelivery.
4. An abstract order (status, announcements and debts only) that OrderLifecycle
   implements, its proof beside those of OrderStepProofs.
5. Without `CarefulBuyer`, what a charge is still worth: an amount that some quote of
   this cart had.
